--------------------------- MODULE ReadersWriters ----------------------------
(***************************************************************************)
(* What a read-write lock promises: any number of threads read, or one     *)
(* thread writes.  A thread that reads may read again and a thread that    *)
(* writes may write again, and leaves as often as it entered.              *)
(***************************************************************************)
EXTENDS Naturals

CONSTANTS Threads, MaxDepth

VARIABLES
    reads,   \* how deep each thread is in reading
    writes   \* how deep each thread is in writing

Init == reads = [t \in Threads |-> 0] /\ writes = [t \in Threads |-> 0]

Read(t) ==
    /\ \A u \in Threads : writes[u] = 0
    /\ reads[t] < MaxDepth
    /\ reads' = [reads EXCEPT ![t] = @ + 1]
    /\ UNCHANGED writes

EndRead(t) ==
    /\ reads[t] > 0
    /\ reads' = [reads EXCEPT ![t] = @ - 1]
    /\ UNCHANGED writes

Write(t) ==
    /\ \A u \in Threads : reads[u] = 0 /\ (u # t => writes[u] = 0)
    /\ writes[t] < MaxDepth
    /\ writes' = [writes EXCEPT ![t] = @ + 1]
    /\ UNCHANGED reads

EndWrite(t) ==
    /\ writes[t] > 0
    /\ writes' = [writes EXCEPT ![t] = @ - 1]
    /\ UNCHANGED reads

Next == \E t \in Threads : Read(t) \/ EndRead(t) \/ Write(t) \/ EndWrite(t)

Spec == Init /\ [][Next]_<<reads, writes>>
=============================================================================
