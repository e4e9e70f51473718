CONSTANTS
    alice = alice
    bob = bob
    call1 = call1
    Phones = {alice, bob}
    Calls = {call1}
    Caller <- CallerOf
    Called <- CalledOf
    MaxRegisters = 2
    MaxDisturbed = 1
    MaxDuplicated = 1
SPECIFICATION SipSpec
INVARIANTS SipTypeOK SessionEndsWithCall ConnectedIsInUse
PROPERTIES LeavingEnds
CHECK_DEADLOCK FALSE
