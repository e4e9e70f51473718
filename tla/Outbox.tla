------------------------------- MODULE Outbox --------------------------------
(***************************************************************************)
(* What the upload of call records promises to whoever hands it a record:  *)
(* the record is delivered to the platform, once; it is lost only if more  *)
(* records wait than there is room for, or with a crash or an error of the *)
(* database, and delivered again only if an answer of the platform got     *)
(* lost, or with a crash or an error of the database.                      *)
(***************************************************************************)
EXTENDS Integers, FiniteSets

CONSTANT Capacity  \* how many records may wait without one being lost

VARIABLES
    accepted,   \* how many records were handed over; they are numbered
    pending,    \* those that wait
    delivered,  \* those the platform has got
    faults      \* how often each kind of fault has happened

vars == <<accepted, pending, delivered, faults>>

Kinds == {"refused", "unanswered", "database", "crash"}

Init ==
    /\ accepted = 0 /\ pending = {} /\ delivered = {}
    /\ faults = [k \in Kinds |-> 0]

Fault(k) == faults' = [faults EXCEPT ![k] = @ + 1]

(* A record is handed over; with too many waiting another one is lost.     *)
Accept ==
    /\ accepted' = accepted + 1
    /\ \/ pending' = pending \cup {accepted'}
       \/ /\ Cardinality(pending) > Capacity
          /\ \E r \in pending : pending' = (pending \ {r}) \cup {accepted'}
    /\ UNCHANGED <<delivered, faults>>

Deliver ==
    /\ \E S \in SUBSET pending : pending' = pending \ S /\ delivered' = delivered \cup S
    /\ UNCHANGED <<accepted, faults>>

(* Records are lost for want of room.                                      *)
Overflow ==
    /\ \E S \in SUBSET pending :
          Cardinality(pending \ S) >= Capacity /\ pending' = pending \ S
    /\ UNCHANGED <<accepted, delivered, faults>>

Refuse == Fault("refused") /\ UNCHANGED <<accepted, pending, delivered>>

(* The platform gets records, and the sender never hears of it.            *)
LoseAnswer ==
    /\ Fault("unanswered")
    /\ \E S \in SUBSET pending : delivered' = delivered \cup S
    /\ UNCHANGED <<accepted, pending>>

(* Records are lost, or those delivered come back.                         *)
Fail ==
    /\ \E k \in {"database", "crash"} : Fault(k)
    /\ pending' \in SUBSET (pending \cup delivered)
    /\ UNCHANGED <<accepted, delivered>>

Next == Accept \/ Deliver \/ Overflow \/ Refuse \/ LoseAnswer \/ Fail

Spec == Init /\ [][Next]_vars
=============================================================================
