----------------------------- MODULE RingBuffer -----------------------------
(***************************************************************************)
(* xop::RingBuffer (src/rtsp/net/RingBuffer.h): the circular buffer that   *)
(* carries the callbacks posted to a TaskScheduler.                        *)
(*                                                                         *)
(* One thread at a time is in Push (TaskScheduler::AddTriggerEvent holds a *)
(* mutex around it) and one thread, the loop, is in Pop; nothing orders    *)
(* the two but the atomic counter num_datas_.  Each is therefore cut at    *)
(* every access to shared memory: ppc and cpc say which access of Push and *)
(* of Pop comes next.                                                      *)
(***************************************************************************)
EXTENDS Integers, Sequences

CONSTANTS Items,      \* what can be stored
          Capacity,   \* capacity_
          NoItem      \* the content of a slot that holds nothing

ASSUME RingBufferAssumption ==
    /\ Capacity \in Nat \ {0}
    /\ NoItem \notin Items

VARIABLES
    buffer_, put_pos_, get_pos_, num_datas_,  \* the object
    ppc, item, result,   \* the producer: next access, argument, last result
    cpc, data, popped    \* the consumer: next access, local, last result

prodVars == <<ppc, item, result>>
consVars == <<cpc, data, popped>>
vars == <<buffer_, put_pos_, get_pos_, num_datas_, prodVars, consVars>>

Slots == 0 .. Capacity - 1

Init ==
    /\ buffer_ = [s \in Slots |-> NoItem]
    /\ put_pos_ = 0 /\ get_pos_ = 0 /\ num_datas_ = 0
    /\ ppc = "test" /\ item = NoItem /\ result = "none"
    /\ cpc = "test" /\ data = NoItem /\ popped = NoItem

(* Add: the position after pos. *)
AddPos(pos) == IF pos + 1 = Capacity THEN 0 ELSE pos + 1

-----------------------------------------------------------------------------
(* PushData *)

(* A slip in PushData: <= for <. *)
PushTestOffByOne(e) ==
    /\ ppc = "test"
    /\ IF num_datas_ <= Capacity
       THEN ppc' = "slot" /\ item' = e /\ UNCHANGED result
       ELSE result' = "full" /\ UNCHANGED <<ppc, item>>
    /\ UNCHANGED <<buffer_, put_pos_, get_pos_, num_datas_, consVars>>

PushTest(e) ==
    /\ ppc = "test"
    /\ IF num_datas_ < Capacity
       THEN ppc' = "slot" /\ item' = e /\ UNCHANGED result
       ELSE result' = "full" /\ UNCHANGED <<ppc, item>>
    /\ UNCHANGED <<buffer_, put_pos_, get_pos_, num_datas_, consVars>>

PushSlot ==
    /\ ppc = "slot"
    /\ buffer_' = [buffer_ EXCEPT ![put_pos_] = item]
    /\ ppc' = "pos"
    /\ UNCHANGED <<put_pos_, get_pos_, num_datas_, item, result, consVars>>

PushPos ==
    /\ ppc = "pos"
    /\ put_pos_' = AddPos(put_pos_)
    /\ ppc' = "count"
    /\ UNCHANGED <<buffer_, get_pos_, num_datas_, item, result, consVars>>

PushCount ==
    /\ ppc = "count"
    /\ num_datas_' = num_datas_ + 1
    /\ ppc' = "test"
    /\ result' = "stored"
    /\ UNCHANGED <<buffer_, put_pos_, get_pos_, item, consVars>>

-----------------------------------------------------------------------------
(* Pop *)

PopTest ==
    /\ cpc = "test"
    /\ IF num_datas_ > 0
       THEN cpc' = "slot" /\ UNCHANGED popped
       ELSE popped' = NoItem /\ UNCHANGED cpc
    /\ UNCHANGED <<buffer_, put_pos_, get_pos_, num_datas_, data, prodVars>>

(* The slot is moved from, and left empty. *)
PopSlot ==
    /\ cpc = "slot"
    /\ data' = buffer_[get_pos_]
    /\ buffer_' = [buffer_ EXCEPT ![get_pos_] = NoItem]
    /\ cpc' = "pos"
    /\ UNCHANGED <<put_pos_, get_pos_, num_datas_, popped, prodVars>>

(* A slip in Pop: the read position is not advanced. *)
PopPosForgotten ==
    /\ cpc = "pos"
    /\ cpc' = "count"
    /\ UNCHANGED <<buffer_, put_pos_, get_pos_, num_datas_, data, popped, prodVars>>

PopPos ==
    /\ cpc = "pos"
    /\ get_pos_' = AddPos(get_pos_)
    /\ cpc' = "count"
    /\ UNCHANGED <<buffer_, put_pos_, num_datas_, data, popped, prodVars>>

PopCount ==
    /\ cpc = "count"
    /\ num_datas_' = num_datas_ - 1
    /\ cpc' = "test"
    /\ popped' = data
    /\ UNCHANGED <<buffer_, put_pos_, get_pos_, data, prodVars>>

-----------------------------------------------------------------------------

Push == (\E e \in Items : PushTest(e)) \/ PushSlot \/ PushPos \/ PushCount
Pop == PopTest \/ PopSlot \/ PopPos \/ PopCount
Next == Push \/ Pop

Spec == Init /\ [][Next]_vars

-----------------------------------------------------------------------------
(* The types of the variables: both positions stay inside the vector and   *)
(* the counter between 0 and the capacity.                                 *)
TypeOK ==
    /\ buffer_ \in [Slots -> Items \cup {NoItem}]
    /\ put_pos_ \in Slots /\ get_pos_ \in Slots
    /\ num_datas_ \in 0 .. Capacity
    /\ ppc \in {"test", "slot", "pos", "count"}
    /\ item \in Items \cup {NoItem}
    /\ result \in {"none", "stored", "full"}
    /\ cpc \in {"test", "slot", "pos", "count"}
    /\ data \in Items \cup {NoItem}
    /\ popped \in Items \cup {NoItem}

(* Push and Pop run without a common lock: whenever one is about to write  *)
(* a slot and the other to move out of one, the slots differ.              *)
NoSlotRace == ppc = "slot" /\ cpc = "slot" => put_pos_ # get_pos_

(* The position i places after pos. *)
Ahead(pos, i) == IF pos + i >= Capacity THEN pos + i - Capacity ELSE pos + i

(* The queue the buffer stands for: Push takes effect when it counts its   *)
(* item, Pop when it discounts the item it has already moved out.          *)
Contents ==
    [i \in 1 .. num_datas_ |->
        IF cpc \in {"pos", "count"} /\ i = 1
        THEN data
        ELSE buffer_[Ahead(get_pos_, IF cpc = "count" THEN i - 2 ELSE i - 1)]]

(* The ring buffer behaves as a queue: items come out once each, in the    *)
(* order they were stored, Push reports full only when Capacity items are  *)
(* stored and Pop fails only when none is.                                 *)
Queue == INSTANCE BoundedQueue WITH q <- Contents

QueueSpec == Queue!Spec
=============================================================================
