SPECIFICATION Spec
CONSTANTS
  Values <- MCValues
  Documents <- MCDocuments
  Drivers = {"gpio", "simulated"}
  Lines = {"A"}
  MaxInputs = 3
INVARIANTS
  AcceptedWasRead
