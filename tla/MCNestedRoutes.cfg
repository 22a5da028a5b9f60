SPECIFICATION NestedSpec
CONSTANTS
    Table = {"a", "b", "c", "d"}
    Base = "a"
    Schemas <- MCSchemas
    Object = {0, 1, 2}
    ForeignKeys <- MCForeignKeys
INVARIANTS
    EldestListChildren
    EveryPathOnce
CHECK_DEADLOCK FALSE
