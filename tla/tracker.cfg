SPECIFICATION Spec
CONSTANTS
  Clients = {a, b}
  Commands <- MCCommands
  Uplinks = {"labels", "plain", "ircu"}
  Refusals = FALSE
  MaxReq = 2
INVARIANTS NoHeldHead
PROPERTIES TellableIsRouted
VIEW View
SYMMETRY Symmetry
CHECK_DEADLOCK FALSE
