SPECIFICATION NestedSpec
CONSTANTS
    Table = {"a", "b", "c", "d"}
    Base = "a"
    Schemas <- MCSchemas
    Object = {0, 1, 2}
    ForeignKeys <- MCForeignKeys
INVARIANT ListsChildren
CHECK_DEADLOCK FALSE
