------------------------- MODULE TaskSchedulerProofs -------------------------
(***************************************************************************)
(* Safety of TaskScheduler for any number of callers, any capacity of the  *)
(* buffer and of the pipe: types, no lost wake-up, the order callbacks run *)
(* in, and that a single caller loses no callback.                         *)
(***************************************************************************)
EXTENDS TaskScheduler, SequenceTheorems, TLAPS

(* What one appends, takes from the front or drops, element by element.    *)
LEMMA AppendFacts ==
    ASSUME NEW S, NEW s \in Seq(S), NEW e \in S
    PROVE  /\ Append(s, e) \in Seq(S)
           /\ Len(Append(s, e)) = Len(s) + 1
           /\ \A i \in 1 .. Len(s) : Append(s, e)[i] = s[i]
           /\ Append(s, e)[Len(s) + 1] = e
           /\ Range(Append(s, e)) = Range(s) \cup {e}
  <1>1. /\ Append(s, e) \in Seq(S)
        /\ Len(Append(s, e)) = Len(s) + 1
        /\ \A i \in 1 .. Len(s) : Append(s, e)[i] = s[i]
        /\ Append(s, e)[Len(s) + 1] = e
    OBVIOUS
  <1>2. DOMAIN s = 1 .. Len(s) /\ DOMAIN Append(s, e) = 1 .. Len(s) + 1
    BY <1>1
  <1>3. Range(Append(s, e)) = Range(s) \cup {e}
    <2>1. 1 .. Len(s) + 1 = (1 .. Len(s)) \cup {Len(s) + 1}
      OBVIOUS
    <2>2. QED
      BY <1>1, <1>2, <2>1 DEF Range
  <1>4. QED
    BY <1>1, <1>3

LEMMA TailFacts ==
    ASSUME NEW S, NEW s \in Seq(S), s # <<>>
    PROVE  /\ Tail(s) \in Seq(S) /\ Head(s) \in S /\ Head(s) = s[1]
           /\ Len(s) \in Nat \ {0} /\ Len(Tail(s)) = Len(s) - 1
           /\ \A i \in 1 .. Len(Tail(s)) : Tail(s)[i] = s[i + 1]
           /\ Range(s) = {Head(s)} \cup Range(Tail(s))
  <1>1. /\ Tail(s) \in Seq(S) /\ Head(s) \in S /\ Head(s) = s[1]
        /\ Len(s) \in Nat \ {0} /\ Len(Tail(s)) = Len(s) - 1
        /\ \A i \in 1 .. Len(Tail(s)) : Tail(s)[i] = s[i + 1]
    BY EmptySeq
  <1>2. DOMAIN s = 1 .. Len(s) /\ DOMAIN Tail(s) = 1 .. Len(s) - 1
    BY <1>1
  <1>3. ASSUME NEW i \in 2 .. Len(s) PROVE s[i] \in Range(Tail(s))
    <2>1. i - 1 \in 1 .. Len(s) - 1 /\ (i - 1) + 1 = i
      BY <1>1
    <2>2. Tail(s)[i - 1] = s[i]
      BY <1>1, <2>1
    <2>3. QED
      BY <1>2, <2>1, <2>2 DEF Range
  <1>4. Range(s) \subseteq {Head(s)} \cup Range(Tail(s))
    <2> SUFFICES ASSUME NEW i \in 1 .. Len(s) PROVE s[i] \in {Head(s)} \cup Range(Tail(s))
      BY <1>2 DEF Range
    <2>1. i = 1 \/ i \in 2 .. Len(s)
      BY <1>1
    <2>2. QED
      BY <1>1, <1>3, <2>1
  <1>5. {Head(s)} \cup Range(Tail(s)) \subseteq Range(s)
    BY <1>1, <1>2 DEF Range
  <1>6. QED
    BY <1>1, <1>4, <1>5

-----------------------------------------------------------------------------
(* The n-th call of c is an event while n is within its bound.             *)
LEMMA EventOfCall ==
    ASSUME NEW c \in Callers, NEW n \in Nat \ {0}, n <= MaxCalls[c]
    PROVE  <<c, n>> \in Events
  <1>1. MaxCalls[c] \in Nat /\ n \in 1 .. MaxCalls[c]
    BY TaskSchedulerAssumption
  <1>2. <<c, n>> \in {c} \X (1 .. MaxCalls[c])
    BY <1>1
  <1>3. QED
    BY <1>2 DEF Events

LEMMA EventParts == \A e \in Events : e[1] \in Callers /\ e[2] \in Nat
  <1> SUFFICES ASSUME NEW e \in Events PROVE e[1] \in Callers /\ e[2] \in Nat
    OBVIOUS
  <1>1. PICK c \in Callers : e \in {c} \X (1 .. MaxCalls[c])
    BY DEF Events
  <1>2. MaxCalls[c] \in Nat
    BY TaskSchedulerAssumption
  <1>3. QED
    BY <1>1, <1>2

-----------------------------------------------------------------------------
(* Types.  A caller past the size test has counted its call.               *)

Counted == \A c \in Callers : cpc[c] # "idle" => calls[c] > 0

TInv == TypeOK /\ Counted

LEMMA InitTInv == Init => TInv
  <1> SUFFICES ASSUME Init PROVE TInv
    OBVIOUS
  <1>1. <<>> \in Seq(Events) /\ Len(<<>>) = 0
    BY EmptySeq
  <1>2. /\ trigger_events_ \in Seq(Events) /\ ran \in Seq(Events)
        /\ Len(trigger_events_) <= kMaxTriggetEvents
    BY <1>1, TaskSchedulerAssumption DEF Init
  <1>3. /\ cpc \in [Callers -> {"idle", "push", "write"}]
        /\ calls \in [Callers -> Nat] /\ \A c \in Callers : calls[c] <= MaxCalls[c]
        /\ Counted
    BY TaskSchedulerAssumption DEF Init, Counted
  <1>4. is_shutdown_ \in BOOLEAN /\ lpc \in LoopPoints
    BY DEF Init, LoopPoints
  <1>5. pipe \in 0 .. PipeSize /\ mutex_ \in Callers \cup {NoThread}
    BY TaskSchedulerAssumption DEF Init
  <1>6. accepted \subseteq Events /\ armed \subseteq Timers /\ due \subseteq armed /\ fired \subseteq Timers
    BY DEF Init
  <1>7. timeout \in {"none", "some"} /\ spc \in {"running", "flagged", "stopped"}
    BY DEF Init
  <1>8. blocks \in BOOLEAN
    BY DEF Init
  <1>9. QED
    BY <1>2, <1>3, <1>4, <1>5, <1>6, <1>7, <1>8 DEF TInv, TypeOK

LEMMA NextTInv == TInv /\ [Next]_vars => TInv'
  <1> SUFFICES ASSUME TInv, [Next]_vars PROVE TInv'
    OBVIOUS
  <1> USE TaskSchedulerAssumption DEF TInv, TypeOK, Counted, callVars, timerVars, LoopPoints
  <1>1. ASSUME NEW c \in Callers, SizeTest(c) PROVE TInv'
    BY <1>1 DEF SizeTest
  <1>2. ASSUME NEW c \in Callers, LockAndPush(c) PROVE TInv'
    <2> HIDE TaskSchedulerAssumption
    <2>0. cpc[c] = "push"
      BY <1>2 DEF LockAndPush
    <2>1. calls[c] \in Nat \ {0} /\ calls[c] <= MaxCalls[c]
      BY <2>0
    <2>2. <<c, calls[c]>> \in Events
      BY <2>1, EventOfCall
    <2>3. trigger_events_' \in Seq(Events) /\ Len(trigger_events_') <= kMaxTriggetEvents
      BY <1>2, <2>2, AppendFacts, LenProperties, TaskSchedulerAssumption DEF LockAndPush
    <2>4. QED
      BY <1>2, <2>3, TaskSchedulerAssumption DEF LockAndPush
  <1>3. ASSUME NEW c \in Callers, WriteAndUnlock(c) PROVE TInv'
    <2>1. <<c, calls[c]>> \in Events
      BY <1>3, EventOfCall DEF WriteAndUnlock
    <2>2. accepted' \subseteq Events
      BY <1>3, <2>1 DEF WriteAndUnlock
    <2>3. pipe' \in 0 .. PipeSize
      BY <1>3 DEF WriteAndUnlock, WriteByte
    <2>4. cpc' \in [Callers -> {"idle", "push", "write"}] /\ Counted'
      BY <1>3 DEF WriteAndUnlock
    <2>5. QED
      BY <1>3, <2>2, <2>3, <2>4 DEF WriteAndUnlock
  <1>4. ASSUME NEW t \in Timers, AddTimer(t) \/ Expire(t) PROVE TInv'
    BY <1>4 DEF AddTimer, Expire
  <1>5. CASE SetShutdown
    BY <1>5 DEF SetShutdown
  <1>6. CASE WakeForStop
    BY <1>6 DEF WakeForStop, WriteByte
  <1>7. CASE Pop
    <2>1. CASE trigger_events_ = <<>>
      BY <1>7, <2>1 DEF Pop
    <2>2. CASE trigger_events_ # <<>>
      <3>1. /\ Head(trigger_events_) \in Events
            /\ Tail(trigger_events_) \in Seq(Events)
            /\ Len(Tail(trigger_events_)) <= kMaxTriggetEvents
        BY <2>2, TailFacts
      <3>2. Append(ran, Head(trigger_events_)) \in Seq(Events)
        BY <3>1, AppendFacts
      <3>3. QED
        BY <1>7, <2>2, <3>1, <3>2 DEF Pop
    <2>3. QED
      BY <2>1, <2>2
  <1>8. CASE Begin \/ Test \/ CallbackReturns \/ MoreTriggerEvents
    BY <1>8 DEF Begin, Test, CallbackReturns, MoreTriggerEvents, LoopMoves
  <1>9. CASE HandleTimerEvent \/ GetTimeRemaining
    BY <1>9 DEF HandleTimerEvent, GetTimeRemaining, LoopMoves
  <1>10. CASE WaitWoken \/ WaitTimeout \/ WaitChannel
    BY <1>10 DEF WaitWoken, WaitTimeout, WaitChannel, LoopMoves
  <1>11. CASE Wake \/ HandlersReturn
    BY <1>11 DEF Wake, HandlersReturn
  <1>12. CASE UNCHANGED vars
    BY <1>12 DEF vars
  <1>13. QED
    BY <1>1, <1>2, <1>3, <1>4, <1>5, <1>6, <1>7, <1>8, <1>9, <1>10, <1>11, <1>12
    DEF Next, LoopStep, CallStep

LEMMA AlwaysTInv == Spec => []TInv
  BY InitTInv, NextTInv, PTL DEF Spec

(* Every variable keeps its type and the buffer its capacity.              *)
THEOREM TypeCorrect == Spec => []TypeOK
  <1>1. TInv => TypeOK
    BY DEF TInv
  <1>2. QED
    BY <1>1, AlwaysTInv, PTL

-----------------------------------------------------------------------------
(* Wake-up. *)

LEMMA NextNoLostWakeup == TInv /\ NoLostWakeup /\ [Next]_vars => NoLostWakeup'
  <1> SUFFICES ASSUME TInv, NoLostWakeup, [Next]_vars PROVE NoLostWakeup'
    OBVIOUS
  <1> USE TaskSchedulerAssumption DEF TInv, TypeOK, NoLostWakeup, callVars, timerVars
  <1>1. ASSUME NEW c \in Callers, SizeTest(c) PROVE NoLostWakeup'
    BY <1>1 DEF SizeTest
  <1>2. ASSUME NEW c \in Callers, LockAndPush(c) PROVE NoLostWakeup'
    BY <1>2 DEF LockAndPush
  <1>3. ASSUME NEW c \in Callers, WriteAndUnlock(c) PROVE NoLostWakeup'
    BY <1>3 DEF WriteAndUnlock, WriteByte
  <1>4. ASSUME NEW t \in Timers, AddTimer(t) \/ Expire(t) PROVE NoLostWakeup'
    BY <1>4 DEF AddTimer, Expire
  <1>5. CASE SetShutdown
    BY <1>5 DEF SetShutdown
  <1>6. CASE WakeForStop
    BY <1>6 DEF WakeForStop, WriteByte
  <1>7. CASE Pop \/ Begin \/ Test \/ CallbackReturns
    BY <1>7 DEF Pop, Begin, Test, CallbackReturns, LoopMoves
  <1>8. CASE MoreTriggerEvents
    BY <1>8, EmptySeq DEF MoreTriggerEvents
  <1>9. CASE HandleTimerEvent \/ GetTimeRemaining
    BY <1>9 DEF HandleTimerEvent, GetTimeRemaining, LoopMoves
  <1>10. CASE WaitWoken \/ WaitTimeout \/ WaitChannel
    BY <1>10 DEF WaitWoken, WaitTimeout, WaitChannel, LoopMoves
  <1>11. CASE Wake \/ HandlersReturn
    BY <1>11 DEF Wake, HandlersReturn
  <1>12. CASE UNCHANGED vars
    BY <1>12 DEF vars
  <1>13. QED
    BY <1>1, <1>2, <1>3, <1>4, <1>5, <1>6, <1>7, <1>8, <1>9, <1>10, <1>11, <1>12
    DEF Next, LoopStep, CallStep

(* The loop never goes to sleep on a callback.                             *)
THEOREM WakeupNotLost == Spec => []NoLostWakeup
  <1>1. Init => NoLostWakeup
    BY DEF Init, NoLostWakeup
  <1>2. QED
    BY <1>1, NextNoLostWakeup, AlwaysTInv, PTL DEF Spec

-----------------------------------------------------------------------------
(* Order.  The callbacks that have run followed by those that wait are in  *)
(* the order of their callers' calls, and none is later than its caller's  *)
(* last call; a call that has yet to push is later than all of them.       *)

Ordered(s) ==
    \A i, j \in 1 .. Len(s) : i < j /\ s[i][1] = s[j][1] => s[i][2] < s[j][2]

Before(s, t) ==
    \A i \in 1 .. Len(s), j \in 1 .. Len(t) : s[i][1] = t[j][1] => s[i][2] < t[j][2]

Issued(s) ==
    \A i \in 1 .. Len(s) :
        /\ s[i][2] <= calls[s[i][1]]
        /\ cpc[s[i][1]] = "push" => s[i][2] < calls[s[i][1]]

OInv ==
    /\ Ordered(ran) /\ Ordered(trigger_events_) /\ Before(ran, trigger_events_)
    /\ Issued(ran) /\ Issued(trigger_events_)

LEMMA InitOInv == Init => OInv
  BY EmptySeq DEF Init, OInv, Ordered, Before, Issued

LEMMA EventEntries ==
    ASSUME NEW s \in Seq(Events), NEW i \in 1 .. Len(s)
    PROVE  s[i][1] \in Callers /\ s[i][2] \in Nat
  BY ElementOfSeq, EventParts

LEMMA PushKeepsOrder ==
    ASSUME TInv, OInv, NEW c \in Callers, LockAndPush(c)
    PROVE  OInv'
  <1> DEFINE e == <<c, calls[c]>>
  <1> USE DEF TInv, TypeOK
  <1>1. /\ cpc[c] = "push" /\ calls' = calls /\ ran' = ran
        /\ cpc' = [cpc EXCEPT ![c] = "write"]
    BY DEF LockAndPush
  <1>2. e \in Events
    BY <1>1, EventOfCall DEF Counted
  <1>3. ASSUME NEW s \in Seq(Events), Issued(s) PROVE Issued(s)'
    BY <1>1, <1>3, EventEntries DEF Issued
  <1>4. CASE Len(trigger_events_) < kMaxTriggetEvents
    <2>1. trigger_events_' = Append(trigger_events_, e)
      BY <1>4 DEF LockAndPush
    <2>2. /\ Len(trigger_events_') = Len(trigger_events_) + 1
          /\ \A i \in 1 .. Len(trigger_events_) : trigger_events_'[i] = trigger_events_[i]
          /\ trigger_events_'[Len(trigger_events_) + 1] = e
          /\ Len(trigger_events_) \in Nat /\ Len(ran) \in Nat
      BY <2>1, <1>2, AppendFacts, LenProperties
    <2>3. ASSUME NEW s \in Seq(Events), Issued(s), NEW i \in 1 .. Len(s), s[i][1] = c
          PROVE  s[i][2] < calls[c]
      BY <2>3, <1>1 DEF Issued
    <2>4. Ordered(trigger_events_')
      <3> SUFFICES ASSUME NEW i \in 1 .. Len(trigger_events_'),
                          NEW j \in 1 .. Len(trigger_events_'), i < j,
                          trigger_events_'[i][1] = trigger_events_'[j][1]
                   PROVE  trigger_events_'[i][2] < trigger_events_'[j][2]
        BY DEF Ordered
      <3>1. i \in 1 .. Len(trigger_events_) /\ trigger_events_'[i] = trigger_events_[i]
        BY <2>2
      <3>2. CASE j \in 1 .. Len(trigger_events_)
        BY <3>1, <3>2, <2>2 DEF OInv, Ordered
      <3>3. CASE j = Len(trigger_events_) + 1
        <4>1. trigger_events_[i][1] = c
          BY <3>1, <3>3, <2>2
        <4>2. trigger_events_[i][2] < calls[c]
          BY <4>1, <3>1, <2>3 DEF OInv
        <4>3. QED
          BY <4>2, <3>1, <3>3, <2>2
      <3>4. QED
        BY <3>2, <3>3, <2>2
    <2>5. Before(ran, trigger_events_')
      <3> SUFFICES ASSUME NEW i \in 1 .. Len(ran), NEW j \in 1 .. Len(trigger_events_'),
                          ran[i][1] = trigger_events_'[j][1]
                   PROVE  ran[i][2] < trigger_events_'[j][2]
        BY DEF Before
      <3>1. CASE j \in 1 .. Len(trigger_events_)
        BY <3>1, <2>2 DEF OInv, Before
      <3>2. CASE j = Len(trigger_events_) + 1
        <4>1. ran[i][1] = c
          BY <3>2, <2>2
        <4>2. ran[i][2] < calls[c]
          BY <4>1, <2>3 DEF OInv
        <4>3. QED
          BY <4>2, <3>2, <2>2
      <3>3. QED
        BY <3>1, <3>2, <2>2
    <2>6. Issued(trigger_events_)'
      <3> SUFFICES ASSUME NEW i \in 1 .. Len(trigger_events_')
                   PROVE  /\ trigger_events_'[i][2] <= calls'[trigger_events_'[i][1]]
                          /\ cpc'[trigger_events_'[i][1]] = "push"
                             => trigger_events_'[i][2] < calls'[trigger_events_'[i][1]]
        BY DEF Issued
      <3>1. CASE i \in 1 .. Len(trigger_events_)
        BY <3>1, <2>2, <1>1, <1>3, EventEntries DEF OInv, Issued
      <3>2. CASE i = Len(trigger_events_) + 1
        BY <3>2, <2>2, <1>1
      <3>3. QED
        BY <3>1, <3>2, <2>2
    <2>7. QED
      BY <2>4, <2>5, <2>6, <1>1, <1>3 DEF OInv
  <1>5. CASE ~(Len(trigger_events_) < kMaxTriggetEvents)
    <2>1. trigger_events_' = trigger_events_
      BY <1>5 DEF LockAndPush
    <2>2. Issued(ran)' /\ Issued(trigger_events_)'
      BY <2>1, <1>1, <1>3 DEF OInv, Issued
    <2>3. QED
      BY <2>1, <2>2, <1>1 DEF OInv
  <1>6. QED
    BY <1>4, <1>5

LEMMA PopKeepsOrder ==
    ASSUME TInv, OInv, Pop
    PROVE  OInv'
  <1> DEFINE e == Head(trigger_events_)
  <1> USE DEF TInv, TypeOK
  <1>1. calls' = calls /\ cpc' = cpc
    BY DEF Pop, callVars
  <1>2. CASE trigger_events_ = <<>>
    <2>1. trigger_events_' = trigger_events_ /\ ran' = ran
      BY <1>2 DEF Pop
    <2>2. QED
      BY <1>1, <2>1 DEF OInv, Issued
  <1>3. CASE trigger_events_ # <<>>
    <2>1. ran' = Append(ran, e) /\ trigger_events_' = Tail(trigger_events_)
      BY <1>3 DEF Pop
    <2>2. /\ e \in Events /\ e = trigger_events_[1]
          /\ Len(trigger_events_) \in Nat \ {0}
          /\ Len(trigger_events_') = Len(trigger_events_) - 1
          /\ \A i \in 1 .. Len(trigger_events_') : trigger_events_'[i] = trigger_events_[i + 1]
      BY <2>1, <1>3, TailFacts
    <2>3. /\ Len(ran') = Len(ran) + 1 /\ Len(ran) \in Nat
          /\ \A i \in 1 .. Len(ran) : ran'[i] = ran[i]
          /\ ran'[Len(ran) + 1] = e
      BY <2>1, <2>2, AppendFacts, LenProperties
    <2>4. Ordered(ran')
      <3> SUFFICES ASSUME NEW i \in 1 .. Len(ran'), NEW j \in 1 .. Len(ran'), i < j,
                          ran'[i][1] = ran'[j][1]
                   PROVE  ran'[i][2] < ran'[j][2]
        BY DEF Ordered
      <3>1. i \in 1 .. Len(ran) /\ ran'[i] = ran[i] /\ 1 \in 1 .. Len(trigger_events_)
        BY <2>2, <2>3
      <3>2. CASE j \in 1 .. Len(ran)
        BY <3>1, <3>2, <2>3 DEF OInv, Ordered
      <3>3. CASE j = Len(ran) + 1
        <4>1. ran'[j] = trigger_events_[1] /\ ran[i][1] = trigger_events_[1][1]
          BY <3>1, <3>3, <2>2, <2>3
        <4>2. ran[i][2] < trigger_events_[1][2]
          BY <3>1, <4>1 DEF OInv, Before
        <4>3. QED
          BY <3>1, <4>1, <4>2
      <3>4. QED
        BY <3>2, <3>3, <2>3
    <2>5. Ordered(trigger_events_')
      <3> SUFFICES ASSUME NEW i \in 1 .. Len(trigger_events_'),
                          NEW j \in 1 .. Len(trigger_events_'), i < j,
                          trigger_events_'[i][1] = trigger_events_'[j][1]
                   PROVE  trigger_events_'[i][2] < trigger_events_'[j][2]
        BY DEF Ordered
      <3>1. /\ i + 1 \in 1 .. Len(trigger_events_) /\ j + 1 \in 1 .. Len(trigger_events_)
            /\ i + 1 < j + 1
            /\ trigger_events_'[i] = trigger_events_[i + 1]
            /\ trigger_events_'[j] = trigger_events_[j + 1]
        BY <2>2
      <3>2. QED
        BY <3>1 DEF OInv, Ordered
    <2>6. Before(ran', trigger_events_')
      <3> SUFFICES ASSUME NEW i \in 1 .. Len(ran'), NEW j \in 1 .. Len(trigger_events_'),
                          ran'[i][1] = trigger_events_'[j][1]
                   PROVE  ran'[i][2] < trigger_events_'[j][2]
        BY DEF Before
      <3>1. j + 1 \in 1 .. Len(trigger_events_) /\ 1 \in 1 .. Len(trigger_events_)
            /\ 1 < j + 1 /\ trigger_events_'[j] = trigger_events_[j + 1]
        BY <2>2
      <3>2. CASE i = Len(ran) + 1
        BY <3>1, <3>2, <2>2, <2>3 DEF OInv, Ordered
      <3>3. CASE i \in 1 .. Len(ran)
        BY <3>1, <3>3, <2>3 DEF OInv, Before
      <3>4. QED
        BY <3>2, <3>3, <2>3
    <2>7. Issued(ran)'
      <3> SUFFICES ASSUME NEW i \in 1 .. Len(ran')
                   PROVE  /\ ran'[i][2] <= calls[ran'[i][1]]
                          /\ cpc[ran'[i][1]] = "push" => ran'[i][2] < calls[ran'[i][1]]
        BY <1>1 DEF Issued
      <3>1. CASE i \in 1 .. Len(ran)
        <4>1. ran'[i] = ran[i]
          BY <3>1, <2>3
        <4>2. QED
          BY <3>1, <4>1 DEF OInv, Issued
      <3>2. CASE i = Len(ran) + 1
        <4>1. ran'[i] = trigger_events_[1] /\ 1 \in 1 .. Len(trigger_events_)
          BY <3>2, <2>2, <2>3
        <4>2. QED
          BY <4>1 DEF OInv, Issued
      <3>3. QED
        BY <3>1, <3>2, <2>3
    <2>8. Issued(trigger_events_)'
      <3> SUFFICES ASSUME NEW i \in 1 .. Len(trigger_events_')
                   PROVE  /\ trigger_events_'[i][2] <= calls'[trigger_events_'[i][1]]
                          /\ cpc'[trigger_events_'[i][1]] = "push"
                             => trigger_events_'[i][2] < calls'[trigger_events_'[i][1]]
        BY DEF Issued
      <3>1. i + 1 \in 1 .. Len(trigger_events_) /\ trigger_events_'[i] = trigger_events_[i + 1]
        BY <2>2
      <3>2. QED
        BY <1>1, <3>1 DEF OInv, Issued
    <2>9. QED
      BY <2>4, <2>5, <2>6, <2>7, <2>8 DEF OInv
  <1>4. QED
    BY <1>2, <1>3

LEMMA NextOInv == TInv /\ OInv /\ [Next]_vars => OInv'
  <1> SUFFICES ASSUME TInv, OInv, [Next]_vars PROVE OInv'
    OBVIOUS
  <1>1. ASSUME NEW c \in Callers, SizeTest(c) PROVE OInv'
    <2>1. /\ trigger_events_' = trigger_events_ /\ ran' = ran
          /\ calls' = [calls EXCEPT ![c] = @ + 1]
          /\ \A d \in Callers \ {c} : cpc'[d] = cpc[d]
      BY <1>1 DEF SizeTest, TInv, TypeOK
    <2>2. ASSUME NEW s \in Seq(Events), Issued(s) PROVE Issued(s)'
      <3> SUFFICES ASSUME NEW i \in 1 .. Len(s)
                   PROVE  /\ s[i][2] <= calls'[s[i][1]]
                          /\ cpc'[s[i][1]] = "push" => s[i][2] < calls'[s[i][1]]
        BY DEF Issued
      <3>1. s[i][1] \in Callers /\ s[i][2] \in Nat
        BY EventEntries
      <3>2. s[i][2] <= calls[s[i][1]] /\ (cpc[s[i][1]] = "push" => s[i][2] < calls[s[i][1]])
        BY <2>2 DEF Issued
      <3>3. calls[s[i][1]] \in Nat /\ calls \in [Callers -> Nat]
        BY <3>1, TaskSchedulerAssumption DEF TInv, TypeOK
      <3>4. CASE s[i][1] = c
        <4>1. calls'[s[i][1]] = calls[s[i][1]] + 1
          BY <2>1, <3>1, <3>3, <3>4
        <4>2. QED
          BY <4>1, <3>1, <3>2, <3>3
      <3>5. CASE s[i][1] # c
        BY <2>1, <3>1, <3>2, <3>3, <3>5
      <3>6. QED
        BY <3>4, <3>5
    <2>3. Issued(ran)' /\ Issued(trigger_events_)'
      BY <2>1, <2>2 DEF OInv, TInv, TypeOK, Issued
    <2>4. QED
      BY <2>1, <2>3 DEF OInv
  <1>2. ASSUME NEW c \in Callers, LockAndPush(c) PROVE OInv'
    BY <1>2, PushKeepsOrder
  <1>3. ASSUME NEW c \in Callers, WriteAndUnlock(c) PROVE OInv'
    <2>1. /\ trigger_events_' = trigger_events_ /\ ran' = ran /\ calls' = calls
          /\ cpc' = [cpc EXCEPT ![c] = "idle"]
      BY <1>3 DEF WriteAndUnlock, timerVars
    <2>2. ASSUME NEW s \in Seq(Events), Issued(s) PROVE Issued(s)'
      BY <2>1, <2>2, EventEntries DEF Issued, TInv, TypeOK
    <2>3. Issued(ran)' /\ Issued(trigger_events_)'
      BY <2>1, <2>2 DEF OInv, TInv, TypeOK, Issued
    <2>4. QED
      BY <2>1, <2>3 DEF OInv
  <1>4. CASE Pop
    BY <1>4, PopKeepsOrder
  <1>5. CASE UNCHANGED <<trigger_events_, ran, calls, cpc>>
    BY <1>5 DEF OInv, Issued
  <1>6. QED
    BY <1>1, <1>2, <1>3, <1>4, <1>5
    DEF Next, LoopStep, CallStep, vars, callVars, AddTimer, Expire, SetShutdown, WakeForStop,
        Begin, Test, CallbackReturns, MoreTriggerEvents, HandleTimerEvent,
        GetTimeRemaining, WaitWoken, WaitTimeout, WaitChannel, Wake, HandlersReturn

(* Callbacks of one caller run in the order of its calls, at most once.    *)
THEOREM CallOrder == Spec => []RunInCallOrder
  <1>1. TInv /\ OInv => RunInCallOrder
    BY LenProperties DEF TInv, TypeOK, OInv, Ordered, RunInCallOrder
  <1>2. QED
    BY <1>1, InitOInv, NextOInv, AlwaysTInv, PTL DEF Spec

-----------------------------------------------------------------------------
(* With a single caller nothing fills the buffer between its size test and *)
(* its push.                                                               *)

KInv ==
    OneCaller =>
        /\ AcceptedIsKept
        /\ \A c \in Callers :
              /\ cpc[c] = "push" => Len(trigger_events_) < kMaxTriggetEvents
              /\ cpc[c] = "write" => <<c, calls[c]>> \in Range(trigger_events_) \cup Range(ran)

LEMMA NextKInv == TInv /\ KInv /\ [Next]_vars => KInv'
  <1> SUFFICES ASSUME TInv, KInv, [Next]_vars, OneCaller' PROVE KInv'
    BY DEF KInv
  <1>0. OneCaller
    <2>1. \A c \in Callers : calls[c] > 0 => calls'[c] > 0
      <3>1. ASSUME NEW c \in Callers, SizeTest(c) PROVE calls' = [calls EXCEPT ![c] = @ + 1]
        BY <3>1 DEF SizeTest
      <3>2. calls' = calls \/ \E c \in Callers : calls' = [calls EXCEPT ![c] = @ + 1]
        BY <3>1
        DEF Next, LoopStep, CallStep, vars, callVars, LockAndPush, WriteAndUnlock, AddTimer,
            Expire, SetShutdown, WakeForStop, Begin, Test, Pop, CallbackReturns,
            MoreTriggerEvents, HandleTimerEvent, GetTimeRemaining, WaitWoken, WaitTimeout,
            WaitChannel, Wake, HandlersReturn
      <3>3. QED
        BY <3>2 DEF TInv, TypeOK
    <2>2. QED
      BY <2>1 DEF OneCaller
  <1>00. \A c, d \in Callers : cpc[c] # "idle" /\ calls[d] > 0 => c = d
    BY <1>0 DEF OneCaller, TInv, Counted
  <1> USE <1>0 DEF TInv, TypeOK, KInv, AcceptedIsKept
  <1>1. ASSUME NEW c \in Callers, SizeTest(c) PROVE KInv'
    <2>1. calls' = [calls EXCEPT ![c] = @ + 1] /\ calls'[c] > 0
      BY <1>1 DEF SizeTest
    <2>2. \A d \in Callers : d # c => calls'[d] = 0 /\ calls[d] = 0
      BY <2>1 DEF OneCaller
    <2>3. \A d \in Callers : d # c => cpc[d] = "idle"
      BY <2>2 DEF Counted
    <2>4. \A d \in Callers : cpc'[d] # "write"
      BY <1>1, <2>3 DEF SizeTest
    <2>5. ASSUME NEW d \in Callers, cpc'[d] = "push" PROVE Len(trigger_events_) < kMaxTriggetEvents
      BY <1>1, <2>3, <2>5 DEF SizeTest
    <2>6. QED
      BY <1>1, <2>4, <2>5 DEF SizeTest
  <1>2. ASSUME NEW c \in Callers, LockAndPush(c) PROVE KInv'
    <2>0. calls[c] \in Nat \ {0} /\ calls[c] <= MaxCalls[c]
      BY <1>2 DEF LockAndPush, Counted
    <2>1. <<c, calls[c]>> \in Events
      BY <2>0, EventOfCall
    <2>2. trigger_events_' = Append(trigger_events_, <<c, calls[c]>>)
      BY <1>2 DEF LockAndPush
    <2>3. Range(trigger_events_') = Range(trigger_events_) \cup {<<c, calls[c]>>}
      BY <2>1, <2>2, AppendFacts
    <2>4. /\ ran' = ran /\ calls' = calls /\ accepted' = accepted
          /\ cpc' = [cpc EXCEPT ![c] = "write"] /\ \A d \in Callers : cpc[d] # "idle" => d = c
      BY <1>2, <1>00, <2>0 DEF LockAndPush
    <2>5. QED
      BY <2>3, <2>4
  <1>3. ASSUME NEW c \in Callers, WriteAndUnlock(c) PROVE KInv'
    BY <1>3 DEF WriteAndUnlock, OneCaller
  <1>4. CASE Pop
    <2>1. CASE trigger_events_ = <<>>
      BY <1>4, <2>1 DEF Pop, callVars
    <2>2. CASE trigger_events_ # <<>>
      <3>1. /\ Head(trigger_events_) \in Events
            /\ Len(Tail(trigger_events_)) < Len(trigger_events_)
            /\ Len(trigger_events_) \in Nat /\ Len(Tail(trigger_events_)) \in Nat
            /\ Range(trigger_events_) = {Head(trigger_events_)} \cup Range(Tail(trigger_events_))
        BY <2>2, TailFacts, LenProperties
      <3>2. Range(Append(ran, Head(trigger_events_))) = Range(ran) \cup {Head(trigger_events_)}
        BY <3>1, AppendFacts
      <3>3. /\ ran' = Append(ran, Head(trigger_events_))
            /\ trigger_events_' = Tail(trigger_events_)
            /\ calls' = calls /\ cpc' = cpc /\ accepted' = accepted
        BY <1>4, <2>2 DEF Pop, callVars
      <3>4. Range(trigger_events_') \cup Range(ran') = Range(trigger_events_) \cup Range(ran)
        BY <3>1, <3>2, <3>3
      <3>5. Len(trigger_events_') < kMaxTriggetEvents
        BY <3>1, <3>3, TaskSchedulerAssumption
      <3>6. AcceptedIsKept'
        BY <3>3, <3>4
      <3>7. QED
        BY <3>3, <3>4, <3>5, <3>6
    <2>3. QED
      BY <2>1, <2>2
  <1>5. CASE UNCHANGED <<trigger_events_, ran, calls, cpc, accepted>>
    BY <1>5
  <1>6. QED
    BY <1>1, <1>2, <1>3, <1>4, <1>5
    DEF Next, LoopStep, CallStep, vars, callVars, AddTimer, Expire, SetShutdown, WakeForStop,
        Begin, Test, CallbackReturns, MoreTriggerEvents, HandleTimerEvent,
        GetTimeRemaining, WaitWoken, WaitTimeout, WaitChannel, Wake, HandlersReturn

(* A single caller never loses a callback it was told is accepted.         *)
THEOREM SoleCallerLosesNothing == Spec => []OneCallerLosesNothing
  <1>1. Init => KInv
    BY EmptySeq DEF Init, KInv, AcceptedIsKept
  <1>2. KInv => OneCallerLosesNothing
    BY DEF KInv, OneCallerLosesNothing
  <1>3. QED
    BY <1>1, <1>2, NextKInv, AlwaysTInv, PTL DEF Spec
=============================================================================
