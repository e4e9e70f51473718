------------------------ MODULE SchedulerPartsProofs -------------------------
(***************************************************************************)
(* The two structures a task scheduler is built from, the queue of its     *)
(* callbacks and its timer queue, for every capacity and every set of      *)
(* items and delays: proofs of their invariants, that RingBuffer is a      *)
(* bounded FIFO queue, and that timers fire neither early nor late.        *)
(***************************************************************************)
EXTENDS RingBuffer, TimerQueue, SequenceTheorems, TLAPS

(***************************************************************************)
(* The callback queue, RingBuffer.                                         *)
(***************************************************************************)

(* The number of slots between get_pos_ and put_pos_: an item already in   *)
(* its slot but not yet counted is one more, one moved out and not yet     *)
(* discounted is one less.                                                 *)
Span == num_datas_ + (IF ppc = "count" THEN 1 ELSE 0)
                   - (IF cpc = "count" THEN 1 ELSE 0)

(* The two positions are Span apart, around the circle. *)
Distance == put_pos_ = Ahead(get_pos_, Span)

(* While Push is past its test there is room, while Pop is past its test   *)
(* there is an item: each side only changes num_datas_ in the other's      *)
(* favour.                                                                 *)
Room == ppc # "test" => num_datas_ < Capacity /\ item \in Items
Some == cpc # "test" => num_datas_ > 0
Holding == cpc \in {"pos", "count"} => data \in Items

(* The slot the i-th item of the queue is read from. *)
SlotOf(i) == Ahead(get_pos_, IF cpc = "count" THEN i - 2 ELSE i - 1)

(* Every counted item that is still in the buffer is an item.              *)
Stored ==
    \A i \in 1 .. num_datas_ :
        ~(i = 1 /\ cpc \in {"pos", "count"}) => buffer_[SlotOf(i)] \in Items

(* An item stored but not counted yet is the argument of Push, and it is   *)
(* where the queue continues.                                              *)
Pending ==
    /\ ppc = "pos" => buffer_[put_pos_] = item
    /\ ppc = "count" => buffer_[SlotOf(num_datas_ + 1)] = item

IInv == TypeOK /\ Distance /\ Room /\ Some /\ Holding /\ Stored /\ Pending

-----------------------------------------------------------------------------
(* Arithmetic around the circle. *)

LEMMA AheadType ==
    ASSUME NEW pos \in Slots, NEW i \in 0 .. Capacity
    PROVE  Ahead(pos, i) \in Slots
  BY RingBufferAssumption DEF Ahead, Slots

LEMMA AheadInjective ==
    ASSUME NEW pos \in Slots, NEW i \in 0 .. Capacity - 1,
           NEW j \in 0 .. Capacity - 1, Ahead(pos, i) = Ahead(pos, j)
    PROVE  i = j
  BY RingBufferAssumption DEF Ahead, Slots

LEMMA AheadOfNext ==
    ASSUME NEW pos \in Slots, NEW i \in 0 .. Capacity - 1
    PROVE  /\ AddPos(pos) \in Slots
           /\ AddPos(Ahead(pos, i)) = Ahead(pos, i + 1)
           /\ Ahead(AddPos(pos), i) = Ahead(pos, i + 1)
           /\ i > 0 => Ahead(AddPos(pos), i - 1) = Ahead(pos, i)
  BY RingBufferAssumption DEF Ahead, AddPos, Slots

-----------------------------------------------------------------------------
(* The inductive invariant. *)

LEMMA InitIInv == Init => IInv
  BY RingBufferAssumption
  DEF Init, IInv, TypeOK, Distance, Room, Some, Holding, Stored, Pending, Span, Ahead, Slots, SlotOf

LEMMA NextIInv == IInv /\ [Next]_vars => IInv'
  <1> SUFFICES ASSUME IInv, [Next]_vars PROVE IInv'
    OBVIOUS
  <1> USE RingBufferAssumption DEF IInv, TypeOK, Distance, Room, Some, Holding, Stored, Pending, Span, SlotOf
  <1>1. ASSUME NEW e \in Items, PushTest(e) PROVE IInv'
    BY <1>1 DEF PushTest, consVars, Slots
  <1>2. CASE PushSlot
    <2>1. put_pos_ = Ahead(get_pos_, num_datas_ - (IF cpc = "count" THEN 1 ELSE 0))
      BY <1>2 DEF PushSlot
    <2>2. ASSUME NEW i \in 1 .. num_datas_, ~(i = 1 /\ cpc \in {"pos", "count"})
          PROVE  SlotOf(i) # put_pos_ /\ SlotOf(i) \in Slots
      BY <1>2, <2>1, <2>2, AheadInjective, AheadType DEF PushSlot
    <2>3. Stored'
      BY <1>2, <2>2 DEF PushSlot, consVars
    <2>4. QED
      BY <1>2, <2>3 DEF PushSlot, consVars, Slots
  <1>3. CASE PushPos
    <2>1. Span \in 0 .. Capacity - 1 /\ Span' = Span + 1
      BY <1>3 DEF PushPos, consVars
    <2>2. put_pos_' \in Slots /\ put_pos_' = Ahead(get_pos_, Span + 1)
      BY <1>3, <2>1, AheadOfNext DEF PushPos
    <2>3. SlotOf(num_datas_ + 1) = put_pos_
      BY <1>3 DEF PushPos
    <2>4. QED
      BY <1>3, <2>1, <2>2, <2>3 DEF PushPos, consVars
  <1>4. CASE PushCount
    <2>1. num_datas_' \in 1 .. Capacity /\ Span' = Span
      BY <1>4 DEF PushCount, consVars
    <2>2. Stored'
      BY <1>4, <2>1 DEF PushCount, consVars
    <2>3. QED
      BY <1>4, <2>1, <2>2 DEF PushCount, consVars
  <1>5. CASE PopTest
    BY <1>5 DEF PopTest, prodVars, Slots
  <1>6. CASE PopSlot
    <2>1. SlotOf(1) = get_pos_ /\ num_datas_ \in 1 .. Capacity
      BY <1>6 DEF PopSlot, Ahead, Slots
    <2>2. data' \in Items
      BY <1>6, <2>1 DEF PopSlot
    <2>3. ASSUME NEW i \in 2 .. num_datas_
          PROVE  SlotOf(i) # get_pos_ /\ SlotOf(i) \in Slots
      BY <1>6, <2>1, AheadInjective, AheadType DEF PopSlot
    <2>4. Stored'
      BY <1>6, <2>3 DEF PopSlot, prodVars
    <2>5. ppc \in {"pos", "count"} => Ahead(get_pos_, num_datas_) # get_pos_
      BY <1>6, <2>1, AheadInjective DEF PopSlot, Ahead, Slots
    <2>6. Pending'
      BY <1>6, <2>1, <2>5 DEF PopSlot, prodVars
    <2>7. buffer_' \in [Slots -> Items \cup {NoItem}]
      BY <1>6 DEF PopSlot
    <2>8. QED
      BY <1>6, <2>2, <2>4, <2>6, <2>7 DEF PopSlot, prodVars
  <1>7. CASE PopPos
    BY <1>7, AheadOfNext DEF PopPos, prodVars
  <1>8. CASE PopCount
    <2>1. num_datas_' \in 0 .. Capacity - 1 /\ Span' = Span
      BY <1>8 DEF PopCount, prodVars
    <2>2. ASSUME NEW i \in 1 .. num_datas_' + 1 PROVE SlotOf(i)' = SlotOf(i + 1)
      BY <1>8, <2>1, <2>2 DEF PopCount, prodVars
    <2>3. Stored' /\ Pending'
      BY <1>8, <2>1, <2>2 DEF PopCount, prodVars
    <2>4. QED
      BY <1>8, <2>1, <2>3 DEF PopCount, prodVars
  <1>9. CASE UNCHANGED vars
    BY <1>9 DEF vars, prodVars, consVars
  <1>10. QED
    BY <1>1, <1>2, <1>3, <1>4, <1>5, <1>6, <1>7, <1>8, <1>9 DEF Next, Push, Pop

LEMMA AlwaysIInv == Spec => []IInv
  BY InitIInv, NextIInv, PTL DEF Spec

(* Neither position leaves the vector and the counter stays between 0 and  *)
(* the capacity, whatever the interleaving of Push and Pop.                *)
THEOREM TypeCorrect == Spec => []TypeOK
  <1>1. IInv => TypeOK
    BY DEF IInv
  <1>2. QED
    BY <1>1, AlwaysIInv, PTL

(* Push and Pop never touch the same slot at the same time, although no    *)
(* lock is common to them.                                                 *)
THEOREM SlotRaceFree == Spec => []NoSlotRace
  <1>1. IInv => NoSlotRace
    <2> SUFFICES ASSUME IInv, ppc = "slot", cpc = "slot" PROVE put_pos_ # get_pos_
      BY DEF NoSlotRace
    <2>1. num_datas_ \in 1 .. Capacity - 1 /\ put_pos_ = Ahead(get_pos_, num_datas_)
      BY RingBufferAssumption DEF IInv, TypeOK, Distance, Room, Some, Span
    <2>2. get_pos_ \in Slots /\ get_pos_ = Ahead(get_pos_, 0)
      BY RingBufferAssumption DEF IInv, TypeOK, Ahead, Slots
    <2>3. QED
      BY <2>1, <2>2, AheadInjective, RingBufferAssumption
  <1>2. QED
    BY <1>1, AlwaysIInv, PTL

-----------------------------------------------------------------------------
(* Refinement of the bounded queue. *)

LEMMA ContentsType == IInv => Contents \in Seq(Items) /\ Len(Contents) = num_datas_
  <1> SUFFICES ASSUME IInv PROVE Contents \in Seq(Items) /\ Len(Contents) = num_datas_
    OBVIOUS
  <1>1. num_datas_ \in Nat
    BY DEF IInv, TypeOK
  <1>2. ASSUME NEW i \in 1 .. num_datas_ PROVE Contents[i] \in Items
    BY <1>2 DEF IInv, Stored, Holding, Contents, SlotOf
  <1>3. Contents = [i \in 1 .. num_datas_ |-> Contents[i]]
    BY DEF Contents
  <1>4. QED
    BY <1>1, <1>2, <1>3

LEMMA ContentsTypeNext == (IInv => Contents \in Seq(Items) /\ Len(Contents) = num_datas_)'
  BY ContentsType, PTL

LEMMA ContentsEntry ==
    ASSUME IInv, NEW i \in 1 .. num_datas_
    PROVE  Contents[i] = IF cpc \in {"pos", "count"} /\ i = 1 THEN data
                         ELSE buffer_[SlotOf(i)]
  BY DEF Contents, SlotOf

(* Two buffers stand for the same queue when their entries agree.          *)
LEMMA SameContents ==
    ASSUME IInv, IInv', num_datas_' = num_datas_,
           \A i \in 1 .. num_datas_ : Contents'[i] = Contents[i]
    PROVE  Contents' = Contents
  <1>1. Contents = [i \in 1 .. num_datas_ |-> Contents[i]]
    BY DEF Contents
  <1>2. Contents' = [i \in 1 .. num_datas_ |-> Contents'[i]]
    BY DEF Contents
  <1>3. QED
    BY <1>1, <1>2

LEMMA PushSlotStutters ==
    ASSUME IInv, IInv', PushSlot PROVE Contents' = Contents
  <1> USE RingBufferAssumption DEF PushSlot, consVars, IInv, TypeOK, Distance, Room, Some, Span
  <1>1. put_pos_ = Ahead(get_pos_, num_datas_ - (IF cpc = "count" THEN 1 ELSE 0))
    OBVIOUS
  <1>2. ASSUME NEW i \in 1 .. num_datas_, ~(i = 1 /\ cpc \in {"pos", "count"})
        PROVE  SlotOf(i) # put_pos_ /\ SlotOf(i) \in Slots
    BY <1>1, <1>2, AheadInjective, AheadType DEF SlotOf
  <1>3. ASSUME NEW i \in 1 .. num_datas_ PROVE Contents'[i] = Contents[i]
    <2>1. Contents'[i] = IF cpc \in {"pos", "count"} /\ i = 1 THEN data
                         ELSE buffer_'[SlotOf(i)]
      BY DEF Contents, SlotOf
    <2>2. QED
      BY <2>1, <1>2, <1>3, ContentsEntry
  <1>4. QED
    BY <1>3, SameContents

LEMMA PushCountAccepts ==
    ASSUME IInv, IInv', PushCount
    PROVE  Contents' = Append(Contents, item)
  <1> USE DEF PushCount, consVars, IInv, TypeOK, Room
  <1>1. Contents \in Seq(Items) /\ Len(Contents) = num_datas_ /\ item \in Items
    BY ContentsType
  <1>2. Contents' \in Seq(Items) /\ Len(Contents') = num_datas_ + 1
    BY ContentsTypeNext
  <1>3. Append(Contents, item) \in Seq(Items)
        /\ Len(Append(Contents, item)) = num_datas_ + 1
    BY <1>1
  <1>4. ASSUME NEW i \in 1 .. num_datas_ + 1
        PROVE  Contents'[i] = Append(Contents, item)[i]
    <2>1. Contents'[i] = IF cpc \in {"pos", "count"} /\ i = 1 THEN data
                         ELSE buffer_[SlotOf(i)]
      BY DEF Contents, SlotOf
    <2>2. CASE i = num_datas_ + 1
      <3>1. ~(cpc \in {"pos", "count"} /\ i = 1)
        BY <2>2 DEF Some
      <3>2. buffer_[SlotOf(i)] = item
        BY <2>2 DEF Pending
      <3>3. QED
        BY <2>1, <2>2, <3>1, <3>2, <1>1
    <2>3. CASE i \in 1 .. num_datas_
      BY <2>1, <2>3, <1>1, ContentsEntry
    <2>4. i = num_datas_ + 1 \/ i \in 1 .. num_datas_
      OBVIOUS
    <2>5. QED
      BY <2>2, <2>3, <2>4
  <1>5. QED
    BY <1>2, <1>3, <1>4, SeqEqual

LEMMA PopSlotStutters ==
    ASSUME IInv, IInv', PopSlot PROVE Contents' = Contents
  <1> USE RingBufferAssumption DEF PopSlot, prodVars, IInv, TypeOK, Some
  <1>1. get_pos_ = SlotOf(1) /\ num_datas_ \in 1 .. Capacity
    BY DEF SlotOf, Ahead, Slots
  <1>2. ASSUME NEW i \in 2 .. num_datas_
        PROVE  SlotOf(i) # get_pos_ /\ SlotOf(i) \in Slots
    <2>1. SlotOf(i) = Ahead(get_pos_, i - 1) /\ get_pos_ = Ahead(get_pos_, 0)
      BY DEF SlotOf, Ahead, Slots
    <2>2. i - 1 \in 1 .. Capacity - 1
      BY <1>1
    <2>3. QED
      BY <2>1, <2>2, AheadInjective, AheadType
  <1>3. ASSUME NEW i \in 1 .. num_datas_ PROVE Contents'[i] = Contents[i]
    <2>1. Contents'[i] = IF i = 1 THEN data' ELSE buffer_'[SlotOf(i)]
      BY DEF Contents, SlotOf
    <2>2. Contents[i] = buffer_[SlotOf(i)]
      BY ContentsEntry
    <2>3. QED
      BY <2>1, <2>2, <1>1, <1>2
  <1>4. QED
    BY <1>3, SameContents

LEMMA PopPosStutters ==
    ASSUME IInv, IInv', PopPos PROVE Contents' = Contents
  <1> USE RingBufferAssumption DEF PopPos, prodVars, IInv, TypeOK, Some
  <1>1. ASSUME NEW i \in 1 .. num_datas_ PROVE Contents'[i] = Contents[i]
    <2>1. Contents'[i] = IF i = 1 THEN data ELSE buffer_[Ahead(AddPos(get_pos_), i - 2)]
      BY DEF Contents
    <2>2. Contents[i] = IF i = 1 THEN data ELSE buffer_[Ahead(get_pos_, i - 1)]
      BY DEF Contents
    <2>3. i > 1 => Ahead(AddPos(get_pos_), (i - 1) - 1) = Ahead(get_pos_, i - 1)
      BY AheadOfNext
    <2>4. i > 1 => (i - 1) - 1 = i - 2
      OBVIOUS
    <2>5. QED
      BY <2>1, <2>2, <2>3, <2>4
  <1>2. QED
    BY <1>1, SameContents

LEMMA PopCountTakes ==
    ASSUME IInv, IInv', PopCount
    PROVE  Contents # <<>> /\ data = Head(Contents) /\ Contents' = Tail(Contents)
  <1> USE DEF PopCount, prodVars, IInv, TypeOK, Some
  <1>1. Contents \in Seq(Items) /\ Len(Contents) = num_datas_ /\ num_datas_ > 0
    BY ContentsType
  <1>2. Contents' \in Seq(Items) /\ Len(Contents') = num_datas_ - 1
    BY ContentsTypeNext
  <1>3. Tail(Contents) \in Seq(Items) /\ Len(Tail(Contents)) = num_datas_ - 1
    BY <1>1
  <1>4. ASSUME NEW i \in 1 .. num_datas_ - 1
        PROVE  Contents'[i] = Tail(Contents)[i]
    <2>1. Contents'[i] = buffer_[Ahead(get_pos_, i - 1)]
      BY DEF Contents
    <2>2. Contents[i + 1] = buffer_[Ahead(get_pos_, (i + 1) - 2)]
      BY DEF Contents
    <2>3. (i + 1) - 2 = i - 1
      OBVIOUS
    <2>4. QED
      BY <2>1, <2>2, <2>3, <1>1
  <1>5. Contents[1] = data
    BY <1>1 DEF Contents
  <1>6. QED
    BY <1>1, <1>2, <1>3, <1>4, <1>5, SeqEqual

LEMMA InitRefines == Init => Queue!Init
  BY DEF Init, Queue!Init, Contents

LEMMA NextRefines == IInv /\ IInv' /\ [Next]_vars => [Queue!Next]_(Queue!vars)
  <1> SUFFICES ASSUME IInv, IInv', [Next]_vars PROVE [Queue!Next]_(Queue!vars)
    OBVIOUS
  <1> USE DEF Queue!Next, Queue!vars
  <1>1. ASSUME NEW e \in Items, PushTest(e) PROVE [Queue!Next]_(Queue!vars)
    <2>1. Contents' = Contents /\ popped' = popped
      BY <1>1 DEF PushTest, consVars, Contents
    <2>2. CASE num_datas_ < Capacity
      BY <1>1, <2>1, <2>2 DEF PushTest
    <2>3. CASE ~(num_datas_ < Capacity)
      <3>1. Len(Contents) = Capacity
        BY <2>3, ContentsType, RingBufferAssumption DEF IInv, TypeOK
      <3>2. QED
        BY <1>1, <2>1, <2>3, <3>1 DEF PushTest, Queue!Refuse
    <2>4. QED
      BY <2>2, <2>3
  <1>2. CASE PushSlot
    BY <1>2, PushSlotStutters DEF PushSlot, consVars
  <1>3. CASE PushPos
    BY <1>3 DEF PushPos, consVars, Contents
  <1>4. CASE PushCount
    <2>1. Contents' = Append(Contents, item) /\ Len(Contents) < Capacity /\ item \in Items
      BY <1>4, PushCountAccepts, ContentsType DEF PushCount, IInv, Room
    <2>2. QED
      BY <1>4, <2>1 DEF PushCount, consVars, Queue!Accept
  <1>5. CASE PopTest
    <2>1. Contents' = Contents /\ result' = result
      <3>1. cpc' \in {"test", "slot"} /\ cpc = "test"
        BY <1>5 DEF PopTest
      <3>2. QED
        BY <1>5, <3>1 DEF PopTest, prodVars, Contents
    <2>2. CASE num_datas_ > 0
      BY <1>5, <2>1, <2>2 DEF PopTest
    <2>3. CASE ~(num_datas_ > 0)
      <3>1. Contents = <<>>
        BY <2>3, ContentsType DEF IInv, TypeOK
      <3>2. QED
        BY <1>5, <2>1, <2>3, <3>1 DEF PopTest, Queue!Nothing
    <2>4. QED
      BY <2>2, <2>3
  <1>6. CASE PopSlot
    BY <1>6, PopSlotStutters DEF PopSlot, prodVars
  <1>7. CASE PopPos
    BY <1>7, PopPosStutters DEF PopPos, prodVars
  <1>8. CASE PopCount
    BY <1>8, PopCountTakes DEF PopCount, prodVars, Queue!Take
  <1>9. CASE UNCHANGED vars
    BY <1>9 DEF vars, prodVars, consVars, Contents
  <1>10. QED
    BY <1>1, <1>2, <1>3, <1>4, <1>5, <1>6, <1>7, <1>8, <1>9 DEF Next, Push, Pop

(* RingBuffer implements BoundedQueue, for every capacity.                 *)
THEOREM IsBoundedQueue == Spec => QueueSpec
  <1>1. Init /\ [][Next]_vars => Queue!Init /\ [][Queue!Next]_(Queue!vars)
    BY InitRefines, NextRefines, AlwaysIInv, PTL DEF Spec
  <1>2. QED
    BY <1>1 DEF Spec, QueueSpec, Queue!Spec

-----------------------------------------------------------------------------
(***************************************************************************)
(* The timer queue, TimerQueue.                                            *)
(***************************************************************************)


(* An entry is keyed with the time its timer is due, but for a timer added *)
(* with a delay of 0 that has not fired yet, whose key is one earlier.     *)
Keyed ==
    \A e \in events_ :
        \/ e[1] = timer[e[2]].next
        \/ timer[e[2]].ms = 0 /\ e[1] + 1 = timer[e[2]].next

OneEntryPerId == \A e, f \in events_ : e[2] = f[2] => e = f

HasEntry == \A id \in timers_ : \E e \in events_ : e[2] = id

TimerIInv == TimerTypeOK /\ Keyed /\ OneEntryPerId /\ HasEntry /\ RemovedStaysSilent

LEMMA InitTimerIInv == TimerInit => TimerIInv
  BY TimerQueueAssumption
  DEF TimerInit, TimerIInv, TimerTypeOK, Keyed, OneEntryPerId, HasEntry, RemovedStaysSilent, Ids

LEMMA Entries ==
    ASSUME TimerTypeOK, NEW e \in events_
    PROVE  /\ e = <<e[1], e[2]>> /\ e[1] \in Nat
           /\ e[2] \in 1 .. last_timer_id_ /\ e[2] \in Ids
  <1>1. e \in Nat \X (1 .. last_timer_id_)
    BY DEF TimerTypeOK
  <1>2. e = <<e[1], e[2]>> /\ e[1] \in Nat /\ e[2] \in 1 .. last_timer_id_
    BY <1>1
  <1>3. last_timer_id_ \in 0 .. MaxTimers
    BY DEF TimerTypeOK
  <1>4. e[2] \in Ids
    BY <1>2, <1>3, TimerQueueAssumption DEF Ids
  <1>5. QED
    BY <1>2, <1>4

LEMMA AddTimerIInv ==
    ASSUME TimerIInv, NEW ms \in Delays, AddTimer(ms)
    PROVE  TimerIInv'
  <1> DEFINE id == last_timer_id_ + 1
             entry == <<now + ms, id>>
             object == [ms |-> ms, interval |-> Interval(ms), next |-> now + Interval(ms)]
  <1>1. /\ last_timer_id_' = id /\ timer' = [timer EXCEPT ![id] = object]
        /\ timers_' = timers_ \cup {id} /\ events_' = events_ \cup {entry}
        /\ recent' = recent \cup {id} /\ last' = [last EXCEPT ![id] = now]
        /\ UNCHANGED <<now, hpc, timePoint, scheduler, timeout, asked, began, runs>>
    BY DEF AddTimer, waitVars
  <1>2. /\ last_timer_id_ \in Nat /\ id \in Ids /\ id \notin timers_
        /\ ms \in Nat /\ now \in Nat
        /\ Interval(ms) \in Nat /\ (ms # 0 => Interval(ms) = ms) /\ (ms = 0 => Interval(ms) = 1)
    BY TimerQueueAssumption DEF AddTimer, TimerIInv, TimerTypeOK, Ids, Interval
  <1>3. \A e \in events_ : e[2] # id /\ e[2] \in Ids
    BY <1>2, Entries DEF TimerIInv
  <1>4. entry[1] = now + ms /\ entry[2] = id /\ entry \in Nat \X (1 .. id)
    BY <1>2
  <1>5. timer \in [Ids -> [ms : Nat, interval : Nat, next : Nat]]
    BY DEF TimerIInv, TimerTypeOK
  <1>6. object \in [ms : Nat, interval : Nat, next : Nat]
    BY <1>2
  <1>7. /\ timer'[id] = object /\ timer' \in [Ids -> [ms : Nat, interval : Nat, next : Nat]]
        /\ \A k \in Ids \ {id} : timer'[k] = timer[k]
    BY <1>1, <1>2, <1>5, <1>6
  <1>8. TimerTypeOK'
    <2>1. events_' \subseteq Nat \X (1 .. id)
      BY <1>1, <1>2, <1>4 DEF TimerIInv, TimerTypeOK
    <2>2. timers_' \subseteq 1 .. id /\ id \in 0 .. MaxTimers
      BY <1>1, <1>2 DEF TimerIInv, TimerTypeOK, Ids
    <2>3. recent' \subseteq Ids /\ last' \in [Ids -> 0 .. MaxNow]
      BY <1>1, <1>2 DEF TimerIInv, TimerTypeOK
    <2>4. QED
      BY <1>1, <1>7, <2>1, <2>2, <2>3 DEF TimerIInv, TimerTypeOK
  <1>9. Keyed'
    <2>1. ASSUME NEW e \in events_
          PROVE  e[1] = timer'[e[2]].next \/ (timer'[e[2]].ms = 0 /\ e[1] + 1 = timer'[e[2]].next)
      BY <1>3, <1>7 DEF TimerIInv, Keyed
    <2>2. entry[1] = timer'[entry[2]].next
          \/ (timer'[entry[2]].ms = 0 /\ entry[1] + 1 = timer'[entry[2]].next)
      BY <1>2, <1>4, <1>7
    <2>3. QED
      BY <1>1, <2>1, <2>2 DEF Keyed
  <1>10. OneEntryPerId'
    BY <1>1, <1>3, <1>4 DEF TimerIInv, OneEntryPerId
  <1>11. HasEntry'
    BY <1>1, <1>4 DEF TimerIInv, HasEntry
  <1>12. RemovedStaysSilent'
    BY <1>1, <1>3, <1>4, <1>7 DEF TimerIInv, RemovedStaysSilent
  <1>13. QED
    BY <1>8, <1>9, <1>10, <1>11, <1>12 DEF TimerIInv

LEMMA RemoveTimerIInv ==
    ASSUME TimerIInv, NEW id \in Ids, RemoveTimer(id)
    PROVE  TimerIInv'
  <1>1. CASE id \notin timers_
    BY <1>1 DEF RemoveTimer, waitVars, historyVars, TimerIInv, TimerTypeOK, Keyed, OneEntryPerId, HasEntry, RemovedStaysSilent
  <1>2. CASE id \in timers_
    <2> DEFINE gone == <<timer[id].next, id>>
    <2>1. /\ events_' = events_ \ {gone} /\ timers_' = timers_ \ {id}
          /\ UNCHANGED <<now, last_timer_id_, timer, hpc, timePoint, scheduler, timeout, asked,
                         began, recent, last, runs>>
      BY <1>2 DEF RemoveTimer, waitVars, historyVars
    <2>2. TimerTypeOK' /\ Keyed' /\ OneEntryPerId'
      BY <2>1 DEF TimerIInv, TimerTypeOK, Keyed, OneEntryPerId
    <2>3. HasEntry'
      <3> SUFFICES ASSUME NEW k \in timers_, k # id PROVE \E e \in events_' : e[2] = k
        BY <2>1 DEF HasEntry
      <3>1. PICK e \in events_ : e[2] = k
        BY DEF TimerIInv, HasEntry
      <3>2. e # gone
        BY <3>1
      <3>3. QED
        BY <3>1, <3>2, <2>1
    <2>4. RemovedStaysSilent'
      <3> SUFFICES ASSUME NEW e \in events_, e # gone
                   PROVE  e[2] \in timers_ \ {id} \/ timer[e[2]].ms = 0
        BY <2>1 DEF RemovedStaysSilent
      <3>1. CASE e[2] = id
        BY <3>1, Entries DEF TimerIInv, Keyed
      <3>2. CASE e[2] # id
        BY <3>2 DEF TimerIInv, RemovedStaysSilent
      <3>3. QED
        BY <3>1, <3>2
    <2>5. QED
      BY <2>2, <2>3, <2>4 DEF TimerIInv
  <1>3. QED
    BY <1>1, <1>2

LEMMA FireIInv ==
    ASSUME TimerIInv, NEW e \in events_, NEW flag \in BOOLEAN, Fire(e, flag)
    PROVE  TimerIInv'
  <1> DEFINE id == e[2]
             next == timePoint + timer[id].interval
             entry == <<next, id>>
  <1>1. /\ last' = [last EXCEPT ![id] = timePoint]
        /\ runs' = [runs EXCEPT ![id] = @ + 1]
        /\ UNCHANGED <<now, last_timer_id_, hpc, timePoint, scheduler, timeout, asked, began, recent>>
    BY DEF Fire, waitVars
  <1>2. /\ id \in Ids /\ id \in 1 .. last_timer_id_ /\ timePoint \in 0 .. MaxNow
        /\ timer \in [Ids -> [ms : Nat, interval : Nat, next : Nat]]
        /\ next \in Nat
    <2>1. id \in Ids /\ id \in 1 .. last_timer_id_ /\ timePoint \in 0 .. MaxNow
          /\ timer \in [Ids -> [ms : Nat, interval : Nat, next : Nat]]
      BY Entries DEF TimerIInv, TimerTypeOK
    <2>2. timer[id].interval \in Nat
      BY <2>1
    <2>3. QED
      BY <2>1, <2>2, TimerQueueAssumption
  <1>3. \A f \in events_ \ {e} : f[2] # id
    BY DEF TimerIInv, OneEntryPerId
  <1>4. last' \in [Ids -> 0 .. MaxNow] /\ runs' \in [Ids -> Nat]
    BY <1>1, <1>2 DEF TimerIInv, TimerTypeOK
  <1>5. CASE flag
    <2>1. /\ timer' = [timer EXCEPT ![id].next = next]
          /\ events_' = (events_ \ {e}) \cup {entry} /\ timers_' = timers_
      BY <1>5 DEF Fire
    <2>2. /\ timer' \in [Ids -> [ms : Nat, interval : Nat, next : Nat]]
          /\ timer'[id].next = next
          /\ \A k \in Ids : timer'[k].ms = timer[k].ms
          /\ \A k \in Ids \ {id} : timer'[k] = timer[k]
      BY <2>1, <1>2
    <2>3. entry[1] = next /\ entry[2] = id /\ entry \in Nat \X (1 .. last_timer_id_)
      BY <1>2
    <2>4. TimerTypeOK'
      BY <1>1, <1>4, <2>1, <2>2, <2>3 DEF TimerIInv, TimerTypeOK
    <2>5. Keyed'
      <3>1. ASSUME NEW f \in events_ \ {e}
            PROVE  f[1] = timer'[f[2]].next \/ (timer'[f[2]].ms = 0 /\ f[1] + 1 = timer'[f[2]].next)
        BY <1>3, <2>2, Entries DEF TimerIInv, Keyed
      <3>2. QED
        BY <3>1, <2>1, <2>2, <2>3 DEF Keyed
    <2>6. OneEntryPerId'
      BY <1>3, <2>1, <2>3 DEF TimerIInv, OneEntryPerId
    <2>7. HasEntry'
      BY <2>1, <2>3 DEF TimerIInv, HasEntry
    <2>8. RemovedStaysSilent'
      BY <1>2, <2>1, <2>2, <2>3, Entries DEF TimerIInv, RemovedStaysSilent
    <2>9. QED
      BY <2>4, <2>5, <2>6, <2>7, <2>8 DEF TimerIInv
  <1>6. CASE ~flag
    <2>1. timer' = timer /\ events_' = events_ \ {e} /\ timers_' = timers_ \ {id}
      BY <1>6 DEF Fire
    <2>2. TimerTypeOK' /\ Keyed' /\ OneEntryPerId'
      BY <1>1, <1>4, <2>1 DEF TimerIInv, TimerTypeOK, Keyed, OneEntryPerId
    <2>3. HasEntry'
      BY <2>1 DEF TimerIInv, HasEntry
    <2>4. RemovedStaysSilent'
      BY <1>3, <2>1 DEF TimerIInv, RemovedStaysSilent
    <2>5. QED
      BY <2>2, <2>3, <2>4 DEF TimerIInv
  <1>7. QED
    BY <1>5, <1>6

LEMMA NextTimerIInv == TimerIInv /\ [TimerNext]_timerVars => TimerIInv'
  <1> SUFFICES ASSUME TimerIInv, [TimerNext]_timerVars PROVE TimerIInv'
    OBVIOUS
  <1> USE TimerQueueAssumption
      DEF queueVars, waitVars, historyVars, TimerIInv, TimerTypeOK, Keyed, OneEntryPerId, HasEntry,
          RemovedStaysSilent
  <1>0. now \in Nat /\ 0 \in 0 .. now /\ now \in 0 .. now
    OBVIOUS
  <1>1. CASE LookForTimers \/ LockTimers \/ NoMoreDue
    <2>1. /\ UNCHANGED <<now, last_timer_id_, timers_, events_, timer, timeout, asked, began,
                         scheduler, recent, last, runs>>
          /\ hpc' \in {"lock", "handling", "handled"}
          /\ timePoint' \in {timePoint, now, 0}
      BY <1>1 DEF LookForTimers, LockTimers, NoMoreDue
    <2>2. timePoint' \in 0 .. MaxNow
      BY <2>1
    <2>3. QED
      BY <2>1, <2>2
  <1>6. CASE HandleEvent
    <2>1. /\ UNCHANGED <<now, last_timer_id_, timers_, events_, timer, timePoint, timeout, asked,
                         scheduler, recent, last, runs>>
          /\ began' = now /\ hpc' \in {"waiting", "blocked"}
      BY <1>6 DEF HandleEvent
    <2>2. QED
      BY <2>1, <1>0
  <1>7. CASE UNCHANGED timerVars
    BY <1>7 DEF timerVars
  <1>2. CASE Tick
    BY <1>2 DEF Tick
  <1>3. CASE GetTimeRemaining
    <2>1. timeout' \in Nat \cup {-1}
      BY <1>3, Entries DEF GetTimeRemaining, Remaining
    <2>2. /\ UNCHANGED <<now, last_timer_id_, timers_, events_, timer, timePoint, began, scheduler,
                         last, runs>>
          /\ asked' = now /\ hpc' = "asked" /\ recent' = {}
      BY <1>3 DEF GetTimeRemaining
    <2>3. QED
      BY <2>1, <2>2
  <1>5. CASE WaitOver \/ WaitInterrupted
    <2>1. /\ UNCHANGED <<now, last_timer_id_, timers_, events_, timer, timePoint, scheduler, recent,
                         last, runs>>
          /\ hpc' = "idle" /\ timeout' = 0 /\ asked' = 0 /\ began' = 0
      BY <1>5 DEF WaitOver, WaitInterrupted, WaitEnds
    <2>2. QED
      BY <2>1, <1>0
  <1>4. QED
    BY <1>1, <1>2, <1>3, <1>5, <1>6, <1>7, AddTimerIInv, RemoveTimerIInv, FireIInv DEF TimerNext, LoopStep, FireSome

LEMMA AlwaysTimerIInv == TimerSpec => []TimerIInv
  BY InitTimerIInv, NextTimerIInv, PTL DEF TimerSpec

(* Every variable keeps its type.                                          *)
THEOREM TimerTypeCorrect == TimerSpec => []TimerTypeOK
  <1>1. TimerIInv => TimerTypeOK
    BY DEF TimerIInv
  <1>2. QED
    BY <1>1, AlwaysTimerIInv, PTL

(* events_.begin() exists whenever timers_ is not empty, and no timer has  *)
(* two entries.                                                            *)
THEOREM EntriesMatchTimers == TimerSpec => []OneEntryPerTimer
  <1>1. TimerIInv => OneEntryPerTimer
    BY DEF TimerIInv, OneEntryPerId, HasEntry, OneEntryPerTimer
  <1>2. QED
    BY <1>1, AlwaysTimerIInv, PTL

(* A removed timer never fires, unless it was added with a delay of 0.     *)
THEOREM RemovalIsEffective == TimerSpec => []RemovedStaysSilent
  <1>1. TimerIInv => RemovedStaysSilent
    BY DEF TimerIInv
  <1>2. QED
    BY <1>1, AlwaysTimerIInv, PTL

-----------------------------------------------------------------------------
(* Times.  An entry is keyed no earlier than its timer may fire, and what  *)
(* GetTimeRemaining returned is the time to the first of the entries it    *)
(* found, however many are added and removed before the wait begins.       *)
Spaced ==
    /\ \A e \in events_ : Earliest(e[2]) <= e[1]
    /\ \A id \in Ids : timer[id].ms <= timer[id].interval
    /\ \A id \in Ids : id > last_timer_id_ => runs[id] = 0

Answered ==
    /\ hpc \in {"asked", "waiting", "blocked"} =>
          /\ timeout = -1 => timers_ \subseteq recent
          /\ \A e \in events_ : e[2] \in timers_ \ recent => timeout = 0 \/ timeout <= e[1] - asked
    /\ hpc = "blocked" => timeout = -1

Times == Spaced /\ Answered

LEMMA InitTimes == TimerInit => Times
  BY TimerQueueAssumption DEF TimerInit, Times, Spaced, Answered, Ids

LEMMA TypesOfTimes ==
    ASSUME TimerTypeOK
    PROVE  /\ timer \in [Ids -> [ms : Nat, interval : Nat, next : Nat]]
           /\ last \in [Ids -> Nat] /\ runs \in [Ids -> Nat]
           /\ now \in Nat /\ timePoint \in Nat
           /\ timeout \in Nat \cup {-1} /\ asked \in Nat /\ began \in Nat
  BY TimerQueueAssumption DEF TimerTypeOK

(* The wait that HandleEvent makes of such an answer. *)
LEMMA WaitsNoLonger == TimerTypeOK /\ Answered => NoOversleep
  <1> SUFFICES ASSUME TimerTypeOK, Answered PROVE NoOversleep
    OBVIOUS
  <1>1. hpc = "blocked" => timers_ \subseteq recent
    BY DEF Answered
  <1>2. ASSUME hpc = "waiting", NEW e \in events_, e[2] \in timers_ \ recent
        PROVE  \/ WakeAt <= e[1] + (began - asked)
               \/ timeout = 0 /\ WakeAt <= began + (IF scheduler = "select" THEN SelectWait ELSE 0)
    <2>1. timeout \in Nat /\ (timeout = 0 \/ timeout <= e[1] - asked)
      BY <1>2, TypesOfTimes DEF Answered
    <2>2. e[1] \in Nat /\ asked \in Nat /\ began \in Nat
      BY Entries, TypesOfTimes
    <2>3. CASE timeout = 0
      BY <2>2, <2>3, TimerQueueAssumption DEF WakeAt, WaitFor
    <2>4. CASE timeout # 0
      <3>1. WakeAt = began + timeout
        BY <2>1, <2>4 DEF WakeAt, WaitFor
      <3>2. QED
        BY <2>1, <2>2, <2>4, <3>1
    <2>5. QED
      BY <2>3, <2>4
  <1>3. QED
    BY <1>1, <1>2 DEF NoOversleep

LEMMA AddTimerTimes ==
    ASSUME TimerIInv, Times, NEW ms \in Delays, AddTimer(ms)
    PROVE  Times' /\ runs' = runs
  <1>0. PICK id : id = last_timer_id_ + 1
    OBVIOUS
  <1> DEFINE entry == <<now + ms, id>>
             object == [ms |-> ms, interval |-> Interval(ms), next |-> now + Interval(ms)]
  <1>1. /\ timer' = [timer EXCEPT ![id] = object] /\ last_timer_id_' = id
        /\ timers_' = timers_ \cup {id} /\ events_' = events_ \cup {entry}
        /\ recent' = recent \cup {id} /\ last' = [last EXCEPT ![id] = now]
        /\ UNCHANGED <<hpc, timeout, asked, runs>>
    BY <1>0 DEF AddTimer, waitVars
  <1>2. ms \in Nat /\ id \in Ids /\ ms <= Interval(ms) /\ last_timer_id_ \in Nat
    BY <1>0, TimerQueueAssumption DEF AddTimer, TimerIInv, TimerTypeOK, Ids, Interval
  <1>3. \A e \in events_ : e[2] # id /\ e[2] \in Ids
    BY <1>0, <1>2, Entries DEF TimerIInv, TimerTypeOK
  <1>4. entry[1] = now + ms /\ entry[2] = id
    OBVIOUS
  <1>5. /\ timer'[id] = object /\ last'[id] = now
        /\ \A k \in Ids \ {id} : timer'[k] = timer[k] /\ last'[k] = last[k]
    BY <1>1, <1>2, TypesOfTimes DEF TimerIInv
  <1>6. Spaced'
    <2>1. runs[id] = 0
      BY <1>0, <1>2 DEF Times, Spaced
    <2>2. ASSUME NEW e \in events_ PROVE Earliest(e[2])' <= e[1]
      <3>1. Earliest(e[2])' = Earliest(e[2])
        BY <1>1, <1>3, <1>5 DEF Earliest
      <3>2. QED
        BY <3>1 DEF Times, Spaced
    <2>3. Earliest(id)' <= entry[1]
      <3>1. Earliest(id)' = last'[id] + timer'[id].ms
        BY <1>1, <2>1 DEF Earliest
      <3>2. last'[id] = now /\ timer'[id].ms = ms
        BY <1>5
      <3>3. now + ms <= now + ms
        BY <1>2, TypesOfTimes DEF TimerIInv
      <3>4. QED
        BY <3>1, <3>2, <3>3, <1>4
    <2>4. ASSUME NEW k \in Ids PROVE timer'[k].ms <= timer'[k].interval
      BY <1>2, <1>5 DEF Times, Spaced
    <2>5. ASSUME NEW k \in Ids, k > last_timer_id_' PROVE runs'[k] = 0
      BY <1>0, <1>1, <1>2, <2>5 DEF Times, Spaced, Ids
    <2>6. QED
      <3>1. \A e \in events_' : Earliest(e[2])' <= e[1]
        <4> HIDE DEF entry
        <4>1. QED
          BY <1>1, <1>4, <2>2, <2>3
      <3>2. QED
        BY <3>1, <2>4, <2>5 DEF Spaced
  <1>7. Answered'
    BY <1>1, <1>4 DEF Times, Answered
  <1>8. QED
    BY <1>1, <1>6, <1>7 DEF Times

LEMMA FireTimes ==
    ASSUME TimerIInv, Times, NEW e \in events_, NEW flag \in BOOLEAN, Fire(e, flag)
    PROVE  /\ Times'
           /\ runs' = [runs EXCEPT ![e[2]] = @ + 1]
           /\ Earliest(e[2]) <= timePoint
  <1> DEFINE id == e[2]
             next == timePoint + timer[id].interval
             entry == <<next, id>>
  <1>1. /\ last' = [last EXCEPT ![id] = timePoint] /\ e[1] <= timePoint
        /\ runs' = [runs EXCEPT ![id] = @ + 1]
        /\ hpc' = "handling" /\ last_timer_id_' = last_timer_id_
    BY DEF Fire
  <1>2. /\ e[1] \in Nat /\ id \in Ids /\ \A f \in events_ : f[2] \in Ids
        /\ id \in 1 .. last_timer_id_
    BY Entries DEF TimerIInv
  <1>3. /\ last \in [Ids -> Nat] /\ runs \in [Ids -> Nat] /\ timePoint \in Nat
        /\ timer \in [Ids -> [ms : Nat, interval : Nat, next : Nat]]
    BY TypesOfTimes DEF TimerIInv
  <1>4. Earliest(id) <= timePoint
    <2>1. Earliest(id) \in Nat /\ Earliest(id) <= e[1]
      BY <1>2, <1>3 DEF Times, Spaced, Earliest
    <2>2. QED
      BY <2>1, <1>1, <1>2, <1>3
  <1>5. \A f \in events_ \ {e} : f[2] # id
    BY DEF TimerIInv, OneEntryPerId
  <1>6. \A k \in Ids : timer'[k].ms = timer[k].ms /\ timer'[k].interval = timer[k].interval
    <2>1. CASE flag
      BY <2>1, <1>2, <1>3 DEF Fire
    <2>2. CASE ~flag
      BY <2>2 DEF Fire
    <2>3. QED
      BY <2>1, <2>2
  <1>7. events_' = (events_ \ {e}) \cup {entry} \/ events_' = events_ \ {e}
    BY DEF Fire
  <1>8. ASSUME NEW f \in events_ \ {e} PROVE Earliest(f[2])' <= f[1]
    <2>1. Earliest(f[2])' = Earliest(f[2])
      BY <1>1, <1>2, <1>3, <1>5, <1>6 DEF Earliest
    <2>2. QED
      BY <2>1 DEF Times, Spaced
  <1>9. Earliest(entry[2])' <= entry[1]
    <2>1. last'[id] = timePoint /\ timer'[id].interval = timer[id].interval
      BY <1>1, <1>2, <1>3, <1>6
    <2>2. runs'[id] = runs[id] + 1 /\ runs[id] \in Nat
      BY <1>1, <1>2, <1>3
    <2>3. Earliest(id)' = next /\ next \in Nat
      BY <2>1, <2>2, <1>2, <1>3 DEF Earliest
    <2>4. QED
      BY <2>3
  <1>10. \A k \in Ids : k > last_timer_id_ => runs'[k] = 0
    <2>1. \A k \in Ids : k > last_timer_id_ => k # id
      BY <1>2, TimerQueueAssumption DEF TimerIInv, TimerTypeOK, Ids
    <2>2. QED
      BY <2>1, <1>1, <1>3 DEF Times, Spaced
  <1>11. Spaced'
    BY <1>1, <1>6, <1>7, <1>8, <1>9, <1>10 DEF Times, Spaced
  <1>12. Answered'
    BY <1>1 DEF Answered
  <1>13. QED
    BY <1>1, <1>4, <1>11, <1>12 DEF Times

LEMMA OtherTimes ==
    ASSUME TimerIInv, Times,
           \/ \E id \in Ids : RemoveTimer(id)
           \/ LookForTimers \/ LockTimers \/ NoMoreDue \/ GetTimeRemaining \/ HandleEvent \/ WaitOver
           \/ WaitInterrupted \/ Tick \/ UNCHANGED timerVars
    PROVE  Times' /\ runs' = runs
  <1> USE DEF RemoveTimer, LookForTimers, LockTimers, NoMoreDue, GetTimeRemaining, HandleEvent,
              WaitOver, WaitInterrupted, WaitEnds, Tick, timerVars, queueVars, waitVars, historyVars
  <1>1. /\ UNCHANGED <<timer, last, runs, last_timer_id_>>
        /\ events_' \subseteq events_ /\ timers_' \subseteq timers_
    OBVIOUS
  <1>2. Spaced'
    BY <1>1 DEF Times, Spaced, Earliest
  <1>3. ASSUME GetTimeRemaining PROVE Answered'
    <2>1. hpc' = "asked" /\ recent' = {} /\ asked' = now /\ UNCHANGED <<events_, timers_>>
      BY <1>3
    <2>2. CASE timers_ = {}
      BY <2>1, <2>2 DEF Answered
    <2>3. CASE timers_ # {}
      <3>1. PICK e \in events_ : IsFirst(e) /\ timeout' = Remaining(e)
        BY <1>3, <2>3
      <3>2. e[1] \in Nat /\ now \in Nat
        BY Entries, TypesOfTimes DEF TimerIInv
      <3>3. timeout' \in Nat /\ (timeout' = 0 \/ timeout' = e[1] - now)
        BY <3>1, <3>2 DEF Remaining
      <3>4. ASSUME NEW f \in events_ PROVE timeout' = 0 \/ timeout' <= f[1] - now
        <4>1. f[1] \in Nat /\ e[1] <= f[1]
          BY <3>1, <3>2, Entries DEF IsFirst, TimerIInv
        <4>2. QED
          BY <3>2, <3>3, <4>1
      <3>5. QED
        BY <3>3, <3>4, <2>1 DEF Answered
    <2>4. QED
      BY <2>2, <2>3
  <1>4. ASSUME HandleEvent PROVE Answered'
    <2>1. /\ hpc = "asked" /\ hpc' \in {"waiting", "blocked"}
          /\ UNCHANGED <<events_, timers_, recent, timeout, asked>>
          /\ hpc' = "blocked" => WaitFor < 0
      BY <1>4
    <2>2. WaitFor < 0 => timeout = -1
      BY TypesOfTimes, TimerQueueAssumption DEF WaitFor, TimerIInv
    <2>3. QED
      BY <2>1, <2>2 DEF Times, Answered
  <1>5. ASSUME ~GetTimeRemaining /\ ~HandleEvent PROVE Answered'
    <2>1. hpc' \in {"asked", "waiting", "blocked"} => UNCHANGED <<hpc, timeout, asked, recent>>
      BY <1>5
    <2>2. QED
      BY <2>1, <1>1 DEF Times, Answered
  <1>6. Answered'
    BY <1>3, <1>4, <1>5
  <1>7. QED
    BY <1>1, <1>2, <1>6 DEF Times

(* What each step does to the runs of the timers. *)
FiresInTime == \A id \in Ids : runs'[id] > runs[id] => timePoint >= Earliest(id)

LEMMA NextTimes ==
    TimerIInv /\ Times /\ [TimerNext]_timerVars => Times' /\ FiresInTime
  <1> SUFFICES ASSUME TimerIInv, Times, [TimerNext]_timerVars
               PROVE  Times' /\ FiresInTime
    OBVIOUS
  <1>0. runs \in [Ids -> Nat] /\ timer \in [Ids -> [ms : Nat, interval : Nat, next : Nat]]
        /\ last \in [Ids -> Nat] /\ timePoint \in Nat
    BY TypesOfTimes DEF TimerIInv
  <1>1. runs' = runs => FiresInTime
    BY <1>0 DEF FiresInTime
  <1>2. ASSUME NEW ms \in Delays, AddTimer(ms) PROVE Times' /\ FiresInTime
    BY <1>1, <1>2, AddTimerTimes
  <1>3. ASSUME NEW e \in events_, NEW flag \in BOOLEAN, Fire(e, flag)
        PROVE  Times' /\ FiresInTime
    <2>1. e[2] \in Ids /\ \A id \in Ids : Earliest(id) \in Nat
      BY <1>0, Entries DEF Earliest, TimerIInv
    <2>2. \A id \in Ids : runs'[id] > runs[id] => id = e[2]
      BY <1>0, <1>3, <2>1, FireTimes
    <2>3. QED
      BY <1>0, <1>3, <2>1, <2>2, FireTimes DEF FiresInTime
  <1>4. ASSUME \/ \E id \in Ids : RemoveTimer(id)
               \/ LookForTimers \/ LockTimers \/ NoMoreDue \/ GetTimeRemaining \/ HandleEvent
               \/ WaitOver \/ WaitInterrupted \/ Tick \/ UNCHANGED timerVars
        PROVE  Times' /\ FiresInTime
    BY <1>1, <1>4, OtherTimes
  <1>5. QED
    BY <1>2, <1>3, <1>4 DEF TimerNext, LoopStep, FireSome

LEMMA AlwaysTimes == TimerSpec => []Times
  BY InitTimes, NextTimes, AlwaysTimerIInv, PTL DEF TimerSpec

(* The wait of the loop, epoll's or select's, goes past a timer that was   *)
(* there only by what passed before it began, or by select's 10 ms when a  *)
(* timer was due already.                                                  *)
THEOREM SleepsNoLonger == TimerSpec => []NoOversleep
  <1>1. TimerIInv /\ Times => NoOversleep
    BY WaitsNoLonger DEF TimerIInv, Times
  <1>2. QED
    BY <1>1, AlwaysTimerIInv, AlwaysTimes, PTL

(* No callback runs before its time, nor again before a whole interval,    *)
(* whatever is added and removed.                                          *)
THEOREM FiresNotEarly == TimerSpec => NeverEarly
  <1>1. TimerIInv /\ Times /\ [TimerNext]_timerVars => [FiresInTime]_timerVars
    BY NextTimes
  <1>2. TimerSpec => [][FiresInTime]_timerVars
    BY <1>1, AlwaysTimerIInv, AlwaysTimes, PTL DEF TimerSpec
  <1>3. QED
    BY <1>2 DEF NeverEarly, FiresInTime
=============================================================================
