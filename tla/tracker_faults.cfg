SPECIFICATION Spec
CONSTANTS
  Clients = {a, b}
  Commands <- MCCommands
  Uplinks = {"labels", "plain", "ircu"}
  Refusals = TRUE
  MaxReq = 2
INVARIANTS NoLateJoin
PROPERTIES TellableIsRouted
VIEW View
SYMMETRY Symmetry
CHECK_DEADLOCK FALSE
