----------------------------- MODULE MCSipServer -----------------------------
(* One call between two phones, for TLC.                                      *)
EXTENDS SipServer, TLC

CONSTANTS alice, bob, call1

CallerOf == (call1 :> alice)
CalledOf == (call1 :> bob)

=============================================================================
