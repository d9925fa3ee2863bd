SPECIFICATION Spec
CONSTANTS
  Core = "core"
  Ids <- MCIds
  Name <- MCName
  Nav <- MCNav
  MaxNav = 4
  Declared <- MCDeclared
  Users <- MCUsers
  TTL = 2
  Sub = 2
  Delay = 2
INVARIANTS TypeOK CookieOpens DocsFaithful
PROPERTIES MenuSteady WiderSeesMore SessionsLapse
