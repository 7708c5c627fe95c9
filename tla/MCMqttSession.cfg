CONSTANTS
    Payload = 2
    MaxStates = 2
    Extra = {0, 2}
SPECIFICATION Spec
CHECK_DEADLOCK FALSE
INVARIANT DeliveredAsPublished
 
 
