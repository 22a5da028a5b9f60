SPECIFICATION Spec
CONSTANTS
  owner = owner
  employee = employee
  outsider = outsider
  ownerRole = ownerRole
  employeeRole = employeeRole
  outsiderRole = outsiderRole
  Accounts <- MCAccounts
  WithRole = {owner}
  Internal = {employee}
  UserRole <- MCUserRole
  LoginRole = LoginRole
  AnonymousRole = AnonymousRole
  InternalRole = InternalRole
  NoRole = NoRole
  ANONYMOUS = ANONYMOUS
  NoUser = NoUser
  Default = Default
  Replicas = {r1, r2}
INVARIANT
  LateConnectionsSwitched
