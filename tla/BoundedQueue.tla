---------------------------- MODULE BoundedQueue ----------------------------
(***************************************************************************)
(* What xop::RingBuffer promises to its two users: a FIFO queue of at most *)
(* Capacity items, whose Push and Pop each take effect at one instant.     *)
(*                                                                         *)
(* result is what the last Push returned, popped what the last Pop gave    *)
(* back (NoItem when it returned false).                                   *)
(***************************************************************************)
EXTENDS Naturals, Sequences

CONSTANTS Items,      \* what can be stored
          Capacity,   \* the largest number of stored items
          NoItem      \* not an item

VARIABLES q, result, popped

vars == <<q, result, popped>>

Init == q = <<>> /\ result = "none" /\ popped = NoItem

Accept(e) ==
    /\ Len(q) < Capacity
    /\ q' = Append(q, e)
    /\ result' = "stored"
    /\ UNCHANGED popped

Refuse ==
    /\ Len(q) = Capacity
    /\ result' = "full"
    /\ UNCHANGED <<q, popped>>

Take ==
    /\ q # <<>>
    /\ popped' = Head(q)
    /\ q' = Tail(q)
    /\ UNCHANGED result

Nothing ==
    /\ q = <<>>
    /\ popped' = NoItem
    /\ UNCHANGED <<q, result>>

Next == (\E e \in Items : Accept(e)) \/ Refuse \/ Take \/ Nothing

Spec == Init /\ [][Next]_vars
=============================================================================
