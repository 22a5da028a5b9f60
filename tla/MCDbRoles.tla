------------------------------ MODULE MCDbRoles ------------------------------
(***************************************************************************)
(* Instance of DbRoles: an account with a role of its own, an internal one  *)
(* and an external one without, the default database and two replicas.      *)
(***************************************************************************)
EXTENDS DbRoles, TLC

CONSTANTS owner, employee, outsider, ownerRole, employeeRole, outsiderRole

MCAccounts == {owner, employee, outsider}
MCUserRole == owner :> ownerRole @@ employee :> employeeRole @@ outsider :> outsiderRole
=============================================================================
