SPECIFICATION FairLeaseSpec
CONSTANTS
  w1 = w1
  w2 = w2
  w3 = w3
  Worker = {w1, w2, w3}
  Nobody = Nobody
  Faults <- NoneOrAll
  MaxChurn = 3
INVARIANTS
  OneRedeemer
PROPERTY SomeoneRedeems
CHECK_DEADLOCK FALSE
