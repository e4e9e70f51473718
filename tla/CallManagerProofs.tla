-------------------------- MODULE CallManagerProofs --------------------------
(***************************************************************************)
(* For any calls, devices, scenes and number of worker threads: the types  *)
(* of the server's state; every call entered in the map is recorded once;  *)
(* the two locks bring the server to a halt only with the address book     *)
(* being edited; a manager is in one call at a time, busy while it is and  *)
(* not longer.                                                             *)
(***************************************************************************)
EXTENDS CallManager, FiniteSetTheorems, TLAPS

Freeing == {"free_called", "free_caller"}
Inviting == {"init", "give_up", "leave_others", "take_caller", "take_called", "insert"}

(* What a thread's step says of the rest of its state. *)
ThreadOK(s) ==
    /\ s.record # None <=> s.at \in Freeing
    /\ s.at \in Inviting \cup {"find", "scan", "erase"} => s.call \in Calls
    /\ s.at = "scan" => s.device \in ManagerSet
    /\ s.at \in Inviting => s.device \in Devices

(* The owner of the map is ending a call, for a call of its own or as the timer. *)
OwnerOK ==
    mapOwner # None =>
        LET s == thread[mapOwner] IN
        /\ s.at \in Freeing
        /\ mapOwner # Timer => s.call \in Calls /\ s.device \in Devices

Typed == TypeOK /\ OwnerOK /\ \A t \in Threads : ThreadOK(thread[t])

(* Records are numbered as they were inserted, and the record the owner of *)
(* the map holds is a copy of one that is in the map.                      *)
Numbered ==
    /\ \A c \in Calls : _call_map[c] # None =>
            _call_map[c].call = c /\ _call_map[c].number \in 1 .. inserted[c]
    /\ \A t \in Threads : thread[t].record # None =>
            thread[t].record.number \in 1 .. inserted[thread[t].record.call]
    /\ \A u \in uploaded : u[2] \in 1 .. inserted[u[1]]
    /\ mapOwner # None =>
            /\ _call_map[thread[mapOwner].record.call] # None
            /\ _call_map[thread[mapOwner].record.call] = thread[mapOwner].record

IInv == Typed /\ Numbered /\ EachCallOnce

-----------------------------------------------------------------------------
LEMMA Constants ==
    /\ Timer \in Threads /\ Timer \notin Workers /\ Workers \subseteq Threads
    /\ Managers[1] \in ManagerSet /\ ManagerSet \subseteq Devices
    /\ \A d : NextManager(d) \in ManagerSet \cup {None}
    /\ None \notin Calls /\ None \notin Threads /\ None \notin Devices /\ None \notin Records
    /\ MaxEdits \in Nat
<1>1. Managers \in Seq(ManagerSet) /\ Managers # <<>>
  BY CallManagerAssumption
<1>2. Len(Managers) \in Nat \ {0}
  BY <1>1
<1>3. \A i \in 1 .. Len(Managers) : Managers[i] \in ManagerSet
  BY <1>1
<1>4. ASSUME NEW d PROVE NextManager(d) \in ManagerSet \cup {None}
  <2>1. CASE \E i \in 1 .. Len(Managers) - 1 : Managers[i] = d
    <3> DEFINE j == CHOOSE i \in 1 .. Len(Managers) - 1 : Managers[i] = d
    <3>1. j \in 1 .. Len(Managers) - 1
      BY <2>1
    <3>2. 1 + j \in 1 .. Len(Managers)
      BY <3>1, <1>2
    <3> HIDE DEF j
    <3>3. Managers[1 + j] \in ManagerSet
      BY <3>2, <1>3
    <3> QED
      BY <2>1, <3>3 DEF NextManager, j
  <2>2. CASE ~ \E i \in 1 .. Len(Managers) - 1 : Managers[i] = d
    BY <2>2 DEF NextManager
  <2> QED
    BY <2>1, <2>2
<1>5. Managers[1] \in ManagerSet
  BY <1>2, <1>3
<1>6. /\ Timer \in Threads /\ Timer \notin Workers /\ Workers \subseteq Threads
      /\ ManagerSet \subseteq Devices
  BY CallManagerAssumption DEF Threads, Devices
<1>7. /\ None \notin Calls /\ None \notin Threads /\ None \notin Devices /\ None \notin Records
      /\ MaxEdits \in Nat
  BY CallManagerAssumption
<1> QED
  BY <1>4, <1>5, <1>6, <1>7

LEMMA Scenery ==
    ASSUME TypeOK
    PROVE  /\ scene.from \in [Calls -> Devices]
           /\ scene.to \in [Calls -> Devices \cup {Centre}]
BY CallManagerAssumption DEF TypeOK

(* A thread that waits for work, and one that starts on a message. *)
LEMMA IdleTyped == Idle \in ThreadStates /\ ThreadOK(Idle)
BY Constants DEF Idle, Handling, ThreadStates, Steps, ThreadOK, Freeing, Inviting

LEMMA StartedTyped ==
    ASSUME NEW c \in Calls, NEW n \in BOOLEAN
    PROVE  /\ Handling("find", n, c, None) \in ThreadStates /\ ThreadOK(Handling("find", n, c, None))
           /\ Handling("erase", n, c, None) \in ThreadStates /\ ThreadOK(Handling("erase", n, c, None))
           /\ \A d \in Devices : /\ Handling("init", n, c, d) \in ThreadStates
                                /\ ThreadOK(Handling("init", n, c, d))
BY DEF Handling, ThreadStates, Steps, ThreadOK, Freeing, Inviting

LEMMA EndingTyped ==
    ASSUME NEW s \in ThreadStates, NEW r \in Records
    PROVE  Ending(s, r) \in ThreadStates /\ ThreadOK(Ending(s, r))
BY Constants DEF Ending, ThreadStates, Steps, ThreadOK, Freeing, Inviting

LEMMA InitTyped == Init => Typed
<1> SUFFICES ASSUME Init PROVE Typed
  OBVIOUS
<1> USE Constants DEF Init
<1>1. TypeOK
  BY IdleTyped DEF TypeOK
<1> QED
  BY <1>1, IdleTyped DEF Typed, OwnerOK

LEMMA InitOnce == Init => Numbered /\ EachCallOnce
<1> SUFFICES ASSUME Init PROVE Numbered /\ EachCallOnce
  OBVIOUS
<1>1. \A t \in Threads : thread[t].record = None
  BY DEF Init, Idle, Handling
<1>2. Numbered
  BY <1>1 DEF Init, Numbered
<1>3. EachCallOnce
  BY DEF Init, EachCallOnce
<1> QED
  BY <1>2, <1>3

-----------------------------------------------------------------------------
(* Types.  Each step moves one thread at most. *)

StateVars == <<scene, book, status, _call_map, mapOwner, edits, writer, inserted, uploaded,
               handled, disturbed, running>>

(* TypeOK without the threads. *)
SharedOK ==
    /\ scene \in Scenes /\ book \subseteq Devices
    /\ status \in [Devices -> {"offline", "online", "busy"}]
    /\ _call_map \in [Calls -> Records \cup {None}]
    /\ mapOwner \in Threads \cup {None}
    /\ edits \in 0 .. MaxEdits /\ writer \in {"none", "waiting"}
    /\ inserted \in [Calls -> Nat] /\ uploaded \subseteq Calls \X (Nat \ {0})
    /\ handled \in [Calls -> SUBSET {"invite", "repeat", "forwarded", "100", "200",
                                     "refused", "bye"}]
    /\ disturbed \subseteq ManagerSet /\ running \in BOOLEAN

LEMMA TypeParts == TypeOK <=> SharedOK /\ thread \in [Threads -> ThreadStates]
BY DEF TypeOK, SharedOK

LEMMA OneThreadMoves ==
    ASSUME Typed, SharedOK', OwnerOK',
           NEW t \in Threads, NEW s \in ThreadStates, ThreadOK(s),
           thread' = [thread EXCEPT ![t] = s]
    PROVE  Typed'
<1>1. thread' \in [Threads -> ThreadStates] /\ \A u \in Threads : ThreadOK(thread'[u])
  BY TypeParts DEF Typed
<1> QED
  BY <1>1 DEF Typed, TypeOK, SharedOK

(* The owner of the map stays, or the mover lets go or takes it. *)
LEMMA OwnerStays ==
    ASSUME Typed, NEW t \in Threads, NEW s, thread' = [thread EXCEPT ![t] = s],
           UNCHANGED <<mapOwner, _call_map>>, mapOwner # t
    PROVE  OwnerOK'
BY TypeParts DEF Typed, OwnerOK, SharedOK

LEMMA ThreadTyped ==
    ASSUME Typed, NEW t \in Threads
    PROVE  thread[t] \in ThreadStates /\ ThreadOK(thread[t]) /\ SharedOK
BY TypeParts DEF Typed

(* A thread that is not ending a call does not own the map. *)
LEMMA OnlyFreeingOwns ==
    ASSUME Typed, NEW t \in Threads, at(t) \notin Freeing
    PROVE  mapOwner # t
BY Constants DEF Typed, OwnerOK, at

(* A status that was changed by compare-and-swap. *)
LEMMA StatusTyped ==
    ASSUME SharedOK, NEW d \in Devices
    PROVE  /\ set_idle_status(d) \in [Devices -> {"offline", "online", "busy"}]
           /\ set_busy_status(d) \in [Devices -> {"offline", "online", "busy"}]
BY DEF SharedOK, set_idle_status, set_busy_status

LEMMA UsedByTyped == \A c : UsedBy(c) \subseteq ManagerSet
BY DEF UsedBy

(* A handler goes on to its next step, holding neither lock nor record.    *)
LEMMA HandlerGoesOn ==
    ASSUME Typed, SharedOK', NEW t \in Threads, at(t) \notin Freeing,
           NEW s \in ThreadStates, ThreadOK(s),
           thread' = [thread EXCEPT ![t] = s], UNCHANGED <<mapOwner, _call_map>>
    PROVE  Typed'
<1>1. mapOwner # t
  BY OnlyFreeingOwns
<1>2. OwnerOK'
  BY <1>1, OwnerStays
<1> QED
  BY <1>2, OneThreadMoves

LEMMA InviteTyped == ASSUME Typed, NEW t \in Threads, NEW c \in Calls, Invite(t, c) PROVE Typed'
<1> DEFINE s == thread'[t]
<1>1. SharedOK /\ thread \in [Threads -> ThreadStates] /\ at(t) \notin Freeing
  BY TypeParts DEF Typed, Invite, Freeing
<1>2. thread' = [thread EXCEPT ![t] = s]
  BY <1>1 DEF Invite
<1>4. scene.to[c] \in Devices \cup {Centre} /\ scene.from[c] \in Devices
  BY Scenery DEF Typed
<1>5. s \in ThreadStates /\ ThreadOK(s)
  <2> DEFINE d == scene.to[c]
  <2>1. CASE d = Centre
    <3>1. s = Handling("find", TRUE, c, None)
      BY <1>1, <2>1 DEF Invite
    <3> QED
      BY <3>1, StartedTyped
  <2>2. CASE d # Centre /\ d \in book
    <3>1. s = Handling("init", TRUE, c, d) /\ d \in Devices
      BY <1>1, <1>4, <2>2 DEF Invite
    <3> QED
      BY <3>1, StartedTyped
  <2>3. CASE d # Centre /\ d \notin book
    <3>1. s = Idle
      BY <1>1, <2>3 DEF Invite
    <3> QED
      BY <3>1, IdleTyped
  <2> QED
    BY <2>1, <2>2, <2>3
<1>6. SharedOK'
  BY <1>1, UsedByTyped DEF Invite, SharedOK
<1>7. UNCHANGED <<mapOwner, _call_map>>
  BY DEF Invite
<1> QED
  BY <1>1, <1>2, <1>5, <1>6, <1>7, HandlerGoesOn

LEMMA FindCallTyped == ASSUME Typed, NEW t \in Threads, FindCall(t) PROVE Typed'
<1> DEFINE s == thread'[t]
<1>1. /\ SharedOK /\ thread \in [Threads -> ThreadStates]
      /\ ThreadOK(thread[t]) /\ at(t) = "find" /\ at(t) \notin Freeing
  BY TypeParts DEF Typed, FindCall, Freeing
<1>2. thread' = [thread EXCEPT ![t] = s]
  BY <1>1 DEF FindCall
<1>3. \E d \in ManagerSet : \/ s = [thread[t] EXCEPT !.at = "init", !.device = d]
                            \/ s = [thread[t] EXCEPT !.at = "scan", !.device = d]
  BY <1>1, Constants DEF FindCall
<1>4. s \in ThreadStates /\ ThreadOK(s)
  BY <1>1, <1>3, Constants DEF at, ThreadStates, Steps, ThreadOK, Freeing, Inviting
<1>5. SharedOK' /\ UNCHANGED <<mapOwner, _call_map>>
  BY <1>1 DEF FindCall, SharedOK
<1> QED
  BY <1>1, <1>2, <1>4, <1>5, HandlerGoesOn

LEMMA TakeTyped == ASSUME Typed, NEW t \in Threads, Take(t) PROVE Typed'
<1> DEFINE s == [thread[t] EXCEPT !.at = "init"]
<1>1. /\ SharedOK /\ thread \in [Threads -> ThreadStates]
      /\ ThreadOK(thread[t]) /\ at(t) = "scan" /\ at(t) \notin Freeing
  BY TypeParts DEF Typed, Take, Freeing
<1>2. thread' = [thread EXCEPT ![t] = s]
  BY <1>1 DEF Take, Goto
<1>3. thread[t].device \in ManagerSet /\ thread[t].device \in Devices
  BY <1>1, Constants DEF ThreadOK, at
<1>4. s \in ThreadStates /\ ThreadOK(s)
  BY <1>1, <1>3, Constants DEF at, ThreadStates, Steps, ThreadOK, Freeing, Inviting
<1>5. SharedOK' /\ UNCHANGED <<mapOwner, _call_map>>
  BY <1>1, <1>3, StatusTyped DEF Take, SharedOK
<1> QED
  BY <1>1, <1>2, <1>4, <1>5, HandlerGoesOn

LEMMA SkipTyped == ASSUME Typed, NEW t \in Threads, Skip(t) PROVE Typed'
<1> DEFINE s == thread'[t]
<1>1. /\ SharedOK /\ thread \in [Threads -> ThreadStates]
      /\ ThreadOK(thread[t]) /\ at(t) = "scan" /\ at(t) \notin Freeing
  BY TypeParts DEF Typed, Skip, Freeing
<1>2. thread' = [thread EXCEPT ![t] = s]
  BY <1>1 DEF Skip
<1>3. s = Idle \/ \E d \in ManagerSet : s = [thread[t] EXCEPT !.device = d]
  <2> DEFINE next == NextManager(thread[t].device)
  <2>1. next \in ManagerSet \cup {None}
    BY Constants
  <2>2. s = IF next = None THEN Idle ELSE [thread[t] EXCEPT !.device = next]
    BY <1>1 DEF Skip
  <2> QED
    BY <2>1, <2>2
<1>4. s \in ThreadStates /\ ThreadOK(s)
  BY <1>1, <1>3, IdleTyped, Constants DEF at, ThreadStates, Steps, ThreadOK, Freeing, Inviting
<1>5. SharedOK' /\ UNCHANGED <<mapOwner, _call_map>>
  BY <1>1 DEF Skip, SharedOK
<1> QED
  BY <1>1, <1>2, <1>4, <1>5, HandlerGoesOn

LEMMA StartTyped == ASSUME Typed, NEW t \in Threads, Start(t) PROVE Typed'
<1> DEFINE s == thread'[t]
<1>1. /\ SharedOK /\ thread \in [Threads -> ThreadStates]
      /\ ThreadOK(thread[t]) /\ at(t) = "init" /\ at(t) \notin Freeing
  BY TypeParts DEF Typed, Start, Freeing
<1>2. thread' = [thread EXCEPT ![t] = s]
  BY <1>1 DEF Start
<1>3. s = Idle \/ \E step \in Inviting : s = [thread[t] EXCEPT !.at = step]
  BY <1>1 DEF Start, Inviting
<1>4. s \in ThreadStates /\ ThreadOK(s)
  BY <1>1, <1>3, IdleTyped, Constants DEF at, ThreadStates, Steps, ThreadOK, Freeing, Inviting
<1>5. SharedOK' /\ UNCHANGED <<mapOwner, _call_map>>
  BY <1>1 DEF Start, SharedOK
<1> QED
  BY <1>1, <1>2, <1>4, <1>5, HandlerGoesOn

LEMMA GiveUpTyped == ASSUME Typed, NEW t \in Threads, GiveUp(t) PROVE Typed'
<1>1. /\ SharedOK /\ thread \in [Threads -> ThreadStates]
      /\ ThreadOK(thread[t]) /\ at(t) = "give_up" /\ at(t) \notin Freeing
  BY TypeParts DEF Typed, GiveUp, Freeing
<1>2. thread[t].device \in Devices
  BY <1>1 DEF at, ThreadOK, Inviting
<1>3. SharedOK' /\ UNCHANGED <<mapOwner, _call_map>>
  BY <1>1, <1>2, StatusTyped DEF GiveUp, SharedOK
<1>4. thread' = [thread EXCEPT ![t] = Idle]
  BY DEF GiveUp
<1> QED
  BY <1>1, <1>3, <1>4, IdleTyped, HandlerGoesOn

LEMMA TakeCallerTyped == ASSUME Typed, NEW t \in Threads, TakeCaller(t) PROVE Typed'
<1> DEFINE step == IF thread[t].device \in ManagerSet THEN "take_called" ELSE "insert"
           s == [thread[t] EXCEPT !.at = step]
<1>1. /\ SharedOK /\ thread \in [Threads -> ThreadStates]
      /\ ThreadOK(thread[t]) /\ at(t) = "take_caller" /\ at(t) \notin Freeing
  BY TypeParts DEF Typed, TakeCaller, Freeing
<1>2. thread' = [thread EXCEPT ![t] = s]
  BY <1>1 DEF TakeCaller, Goto
<1>3. s \in ThreadStates /\ ThreadOK(s)
  BY <1>1, Constants DEF at, ThreadStates, Steps, ThreadOK, Freeing, Inviting
<1>4. thread[t].call \in Calls
  BY <1>1 DEF at, ThreadOK, Inviting
<1>5. scene.from[thread[t].call] \in Devices
  BY <1>4, Scenery DEF Typed
<1>6. SharedOK' /\ UNCHANGED <<mapOwner, _call_map>>
  BY <1>1, <1>5, StatusTyped DEF TakeCaller, SharedOK
<1> QED
  BY <1>1, <1>2, <1>3, <1>6, HandlerGoesOn

LEMMA TakeCalledTyped == ASSUME Typed, NEW t \in Threads, TakeCalled(t) PROVE Typed'
<1> DEFINE s == [thread[t] EXCEPT !.at = "insert"]
<1>1. /\ SharedOK /\ thread \in [Threads -> ThreadStates]
      /\ ThreadOK(thread[t]) /\ at(t) = "take_called" /\ at(t) \notin Freeing
  BY TypeParts DEF Typed, TakeCalled, Freeing
<1>2. thread' = [thread EXCEPT ![t] = s]
  BY <1>1 DEF TakeCalled, Goto
<1>3. s \in ThreadStates /\ ThreadOK(s) /\ thread[t].device \in Devices
  BY <1>1, Constants DEF at, ThreadStates, Steps, ThreadOK, Freeing, Inviting
<1>4. SharedOK' /\ UNCHANGED <<mapOwner, _call_map>>
  BY <1>1, <1>3, StatusTyped DEF TakeCalled, SharedOK
<1> QED
  BY <1>1, <1>2, <1>3, <1>4, HandlerGoesOn

LEMMA RefuseTyped == ASSUME Typed, NEW t \in Threads, NEW c \in Calls, Refuse(t, c) PROVE Typed'
<1> DEFINE s == Handling("erase", FALSE, c, None)
<1>1. SharedOK /\ thread \in [Threads -> ThreadStates] /\ at(t) \notin Freeing
  BY TypeParts DEF Typed, Refuse, Freeing
<1>2. s \in ThreadStates /\ ThreadOK(s)
  BY StartedTyped
<1>3. SharedOK' /\ UNCHANGED <<mapOwner, _call_map>>
  BY <1>1 DEF Refuse, SharedOK
<1>4. thread' = [thread EXCEPT ![t] = s]
  BY DEF Refuse
<1> QED
  BY <1>1, <1>2, <1>3, <1>4, HandlerGoesOn

LEMMA HangUpTyped == ASSUME Typed, NEW t \in Threads, NEW c \in Calls, HangUp(t, c) PROVE Typed'
<1> DEFINE s == Handling("erase", TRUE, c, None)
<1>1. SharedOK /\ thread \in [Threads -> ThreadStates] /\ at(t) \notin Freeing
  BY TypeParts DEF Typed, HangUp, Freeing
<1>2. s \in ThreadStates /\ ThreadOK(s)
  BY StartedTyped
<1>3. SharedOK' /\ UNCHANGED <<mapOwner, _call_map>>
  BY <1>1 DEF HangUp, SharedOK
<1>4. thread' = [thread EXCEPT ![t] = s]
  BY DEF HangUp
<1> QED
  BY <1>1, <1>2, <1>3, <1>4, HandlerGoesOn

(* The steps on the map and those that end a call. *)

LEMMA RecordsTyped ==
    ASSUME SharedOK, NEW c \in Calls, _call_map[c] # None
    PROVE  /\ _call_map[c] \in Records /\ _call_map[c].called \in Devices
           /\ _call_map[c].call \in Calls /\ _call_map[c].number \in Nat \ {0}
BY DEF SharedOK, Records

(* A thread that ends a call: its record, and the devices of that call. *)
LEMMA RecordHeld ==
    ASSUME Typed, NEW t \in Threads, at(t) \in Freeing
    PROVE  /\ thread[t].record \in Records /\ thread[t].record.called \in Devices
           /\ thread[t].record.call \in Calls /\ thread[t].record.number \in Nat \ {0}
           /\ scene.from[thread[t].record.call] \in Devices
<1>1. thread[t] \in ThreadStates /\ thread[t].record # None
  BY ThreadTyped DEF at, ThreadOK
<1>2. thread[t].record \in Records
  BY <1>1 DEF ThreadStates
<1> QED
  BY <1>2, Scenery DEF Typed, Records

LEMMA LeaveOthersTyped == ASSUME Typed, NEW t \in Threads, LeaveOthers(t) PROVE Typed'
<1>1. /\ SharedOK /\ thread \in [Threads -> ThreadStates] /\ ThreadOK(thread[t])
      /\ at(t) = "leave_others" /\ mapOwner = None
  BY TypeParts DEF Typed, LeaveOthers, MapIsFree
<1>2. thread[t].call \in Calls /\ thread[t].device \in Devices
  BY <1>1 DEF at, ThreadOK, Inviting
<1>3. SharedOK'
  BY <1>1 DEF LeaveOthers, SharedOK
<1>4. CASE Goto(t, "take_caller") /\ UNCHANGED mapOwner
  <2> DEFINE s == [thread[t] EXCEPT !.at = "take_caller"]
  <2>1. thread' = [thread EXCEPT ![t] = s]
    BY <1>1, <1>4 DEF Goto
  <2>2. s \in ThreadStates /\ ThreadOK(s)
    BY <1>1, <1>2, Constants DEF at, ThreadStates, Steps, ThreadOK, Freeing, Inviting
  <2>3. OwnerOK'
    BY <1>1, <1>4 DEF OwnerOK
  <2> QED
    BY <1>3, <2>1, <2>2, <2>3, OneThreadMoves
<1>5. ASSUME NEW c \in Calls, _call_map[c] # None, mapOwner' = t,
             thread' = [thread EXCEPT ![t] = Ending(@, _call_map[c])]
      PROVE  Typed'
  <2> DEFINE s == Ending(thread[t], _call_map[c])
  <2>1. thread' = [thread EXCEPT ![t] = s]
    BY <1>5
  <2>2. _call_map[c] \in Records /\ _call_map[c] # None
    BY <1>1, <1>5, RecordsTyped
  <2>3. s \in ThreadStates /\ ThreadOK(s)
    BY <1>1, <2>2, EndingTyped
  <2>5. OwnerOK'
    <3>1. thread'[t] = s /\ s.at = "free_called" /\ s.call = thread[t].call /\ s.device = thread[t].device
      BY <1>1, <2>1 DEF Ending
    <3> HIDE DEF s
    <3> QED
      BY <1>2, <1>5, <3>1 DEF OwnerOK, Freeing
  <2> QED
    BY <1>3, <2>1, <2>3, <2>5, OneThreadMoves
<1> QED
  BY <1>4, <1>5 DEF LeaveOthers

LEMMA InsertTyped == ASSUME Typed, NEW t \in Threads, Insert(t) PROVE Typed'
<1> DEFINE s == thread'[t]
           c == thread[t].call
<1>1. /\ SharedOK /\ thread \in [Threads -> ThreadStates] /\ ThreadOK(thread[t])
      /\ at(t) = "insert" /\ mapOwner' = None
  BY TypeParts DEF Typed, Insert, MapIsFree
<1>2. c \in Calls /\ thread[t].device \in Devices
  BY <1>1 DEF at, ThreadOK, Inviting
<1>3. thread' = [thread EXCEPT ![t] = s]
  BY <1>1 DEF Insert
<1>4. s = [thread[t] EXCEPT !.at = "erase"] \/ s = Idle
  BY <1>1 DEF Insert
<1>5. s \in ThreadStates /\ ThreadOK(s)
  BY <1>1, <1>2, <1>4, IdleTyped DEF at, ThreadStates, Steps, ThreadOK, Freeing, Inviting
<1>6. _call_map' \in [Calls -> Records \cup {None}] /\ inserted' \in [Calls -> Nat]
  <2> DEFINE new == [call |-> c, number |-> inserted[c] + 1, called |-> thread[t].device,
                     trying |-> FALSE, start |-> FALSE]
  <2>1. inserted[c] \in Nat /\ inserted[c] + 1 \in Nat \ {0}
    BY <1>1, <1>2 DEF SharedOK
  <2>2. new \in Records
    BY <1>2, <2>1 DEF Records
  <2>3. _call_map' \in {_call_map, [_call_map EXCEPT ![c] = new]}
    BY DEF Insert
  <2>4. inserted' \in {inserted, [inserted EXCEPT ![c] = inserted[c] + 1]}
    BY <1>1 DEF Insert, SharedOK
  <2> HIDE DEF new
  <2> QED
    BY <1>1, <2>1, <2>2, <2>3, <2>4 DEF SharedOK
<1>7. handled' \in [Calls -> SUBSET {"invite", "repeat", "forwarded", "100", "200", "refused", "bye"}]
  <2>1. handled' \in {handled, [handled EXCEPT ![c] = @ \cup {"forwarded"}]}
    BY <1>1 DEF Insert, SharedOK
  <2> QED
    BY <1>1, <1>2, <2>1 DEF SharedOK
<1>8. SharedOK'
  BY <1>1, <1>6, <1>7 DEF Insert, SharedOK
<1>9. OwnerOK'
  BY <1>1 DEF OwnerOK
<1> QED
  BY <1>3, <1>5, <1>8, <1>9, OneThreadMoves

LEMMA EraseRecordTyped == ASSUME Typed, NEW t \in Threads, EraseRecord(t) PROVE Typed'
<1> DEFINE s == thread'[t]
           c == thread[t].call
<1>1. /\ SharedOK /\ thread \in [Threads -> ThreadStates] /\ ThreadOK(thread[t])
      /\ at(t) = "erase" /\ mapOwner' = None
  BY TypeParts DEF Typed, EraseRecord, MapIsFree
<1>2. c \in Calls
  BY <1>1 DEF at, ThreadOK
<1>3. thread' = [thread EXCEPT ![t] = s]
  BY <1>1 DEF EraseRecord
<1>4. s \in ThreadStates /\ ThreadOK(s)
  <2>1. CASE _call_map[c] = None
    <3>1. s = Idle
      BY <1>1, <2>1 DEF EraseRecord
    <3> QED
      BY <3>1, IdleTyped
  <2>2. CASE _call_map[c] # None
    <3>1. _call_map[c] \in Records
      BY <1>1, <1>2, <2>2, RecordsTyped
    <3>2. s = Ending(thread[t], _call_map[c])
      BY <1>1, <2>2 DEF EraseRecord
    <3> QED
      BY <1>1, <3>1, <3>2, EndingTyped
  <2> QED
    BY <2>1, <2>2
<1>5. SharedOK'
  BY <1>1, <1>2 DEF EraseRecord, SharedOK
<1>6. OwnerOK'
  BY <1>1 DEF OwnerOK
<1> QED
  BY <1>3, <1>4, <1>5, <1>6, OneThreadMoves

LEMMA FreeCalledTyped == ASSUME Typed, NEW t \in Threads, FreeCalled(t) PROVE Typed'
<1> DEFINE s == [thread[t] EXCEPT !.at = "free_caller"]
<1>1. /\ SharedOK /\ thread \in [Threads -> ThreadStates] /\ ThreadOK(thread[t])
      /\ at(t) = "free_called" /\ at(t) \in Freeing
  BY TypeParts DEF Typed, FreeCalled, Freeing
<1>2. thread[t].record # None
  BY <1>1 DEF at, ThreadOK
<1>3. thread' = [thread EXCEPT ![t] = s]
  BY <1>1 DEF FreeCalled, Goto
<1>4. s \in ThreadStates /\ ThreadOK(s)
  BY <1>1, <1>2 DEF at, ThreadStates, Steps, ThreadOK, Freeing, Inviting
<1>5. SharedOK'
  BY <1>1, RecordHeld, StatusTyped DEF FreeCalled, SharedOK
<1>6. OwnerOK'
  <2>1. CASE mapOwner = t
    <3>1. thread'[t].at = "free_caller" /\ thread'[t].call = thread[t].call
          /\ thread'[t].device = thread[t].device
      BY <1>1, <1>3 DEF ThreadStates
    <3> QED
      BY <2>1, <3>1 DEF FreeCalled, Typed, OwnerOK, Freeing
  <2>2. CASE mapOwner # t
    BY <1>3, <2>2, OwnerStays DEF FreeCalled
  <2> QED
    BY <2>1, <2>2
<1> QED
  BY <1>3, <1>4, <1>5, <1>6, OneThreadMoves

LEMMA FreeCallerTyped == ASSUME Typed, NEW t \in Threads, FreeCaller(t) PROVE Typed'
<1> DEFINE s == thread'[t]
           r == thread[t].record
<1>1. /\ SharedOK /\ thread \in [Threads -> ThreadStates] /\ ThreadOK(thread[t])
      /\ at(t) = "free_caller" /\ at(t) \in Freeing
  BY TypeParts DEF Typed, FreeCaller, Freeing
<1>2. thread[t].reads \in BOOLEAN
  BY <1>1 DEF ThreadStates
<1>3. /\ r \in Records /\ r.call \in Calls /\ r.number \in Nat \ {0}
      /\ scene.from[r.call] \in Devices
  BY <1>1, RecordHeld
<1>4. thread' = [thread EXCEPT ![t] = s]
  BY <1>1 DEF FreeCaller
<1>5. s \in ThreadStates /\ ThreadOK(s)
  <2>1. CASE mapOwner = t /\ t # Timer
    <3> DEFINE n == Handling("take_caller", thread[t].reads, thread[t].call, thread[t].device)
    <3>1. thread[t].call \in Calls /\ thread[t].device \in Devices
      BY <2>1, Constants DEF Typed, OwnerOK
    <3>2. s = n
      BY <1>1, <2>1 DEF FreeCaller
    <3>3. n \in ThreadStates /\ ThreadOK(n)
      BY <1>2, <3>1 DEF Handling, ThreadStates, Steps, ThreadOK, Freeing, Inviting
    <3> QED
      BY <3>2, <3>3
  <2>2. CASE ~(mapOwner = t /\ t # Timer)
    <3>1. s = Idle
      BY <1>1, <2>2 DEF FreeCaller
    <3> QED
      BY <3>1, IdleTyped
  <2> QED
    BY <2>1, <2>2
<1>6. SharedOK'
  <2>1. status' \in [Devices -> {"offline", "online", "busy"}]
    BY <1>1, <1>3, StatusTyped DEF FreeCaller, SharedOK
  <2>2. uploaded' \subseteq Calls \X (Nat \ {0})
    <3>1. uploaded' = uploaded \cup {<<r.call, r.number>>}
      BY DEF FreeCaller
    <3>2. <<r.call, r.number>> \in Calls \X (Nat \ {0})
      BY <1>3
    <3> QED
      BY <1>1, <3>1, <3>2 DEF SharedOK
  <2>3. _call_map' \in [Calls -> Records \cup {None}]
    BY <1>1, <1>3 DEF FreeCaller, SharedOK
  <2> QED
    BY <1>1, <2>1, <2>2, <2>3 DEF FreeCaller, SharedOK
<1>7. OwnerOK'
  <2>1. CASE mapOwner = t
    BY <2>1 DEF FreeCaller, OwnerOK
  <2>2. CASE mapOwner # t
    BY <1>4, <2>2, OwnerStays DEF FreeCaller
  <2> QED
    BY <2>1, <2>2
<1> QED
  BY <1>4, <1>5, <1>6, <1>7, OneThreadMoves

LEMMA ExpireTyped == ASSUME Typed, NEW c \in Calls, Expire(c) PROVE Typed'
<1> DEFINE s == Ending(Idle, _call_map[c])
<1>1. SharedOK /\ thread \in [Threads -> ThreadStates]
  BY TypeParts DEF Typed
<1>2. _call_map[c] \in Records /\ _call_map[c] # None
  BY <1>1, RecordsTyped DEF Expire
<1>3. thread' = [thread EXCEPT ![Timer] = s]
  BY DEF Expire
<1>4. s \in ThreadStates /\ ThreadOK(s)
  BY <1>2, IdleTyped, EndingTyped
<1>5. SharedOK'
  BY <1>1, Constants DEF Expire, SharedOK
<1>6. OwnerOK'
  <2>1. thread'[Timer] = s
    BY <1>1, <1>3, Constants
  <2>2. s.at = "free_called"
    BY DEF Ending
  <2>3. mapOwner' = Timer
    BY DEF Expire
  <2> HIDE DEF s
  <2> QED
    BY <2>1, <2>2, <2>3, Constants DEF OwnerOK, Freeing
<1> QED
  BY <1>3, <1>4, <1>5, <1>6, Constants, OneThreadMoves

(* The steps of no thread. *)
LEMMA NoThreadMoves ==
    ASSUME Typed, SharedOK', UNCHANGED <<thread, mapOwner>>
    PROVE  Typed'
BY TypeParts DEF Typed, OwnerOK, TypeOK, SharedOK

LEMMA AnswerTyped ==
    ASSUME Typed, NEW t \in Threads, NEW c \in Calls, NEW kind \in {"100", "200"}, Answer(t, c, kind)
    PROVE  Typed'
<1>1. SharedOK
  BY TypeParts DEF Typed
<1>2. _call_map' \in [Calls -> Records \cup {None}]
  <2>1. CASE _call_map[c] = None
    BY <1>1, <2>1 DEF Answer, SharedOK
  <2>2. CASE _call_map[c] # None
    <3>1. _call_map[c] \in Records
      BY <1>1, <2>2, RecordsTyped
    <3>2. /\ [_call_map[c] EXCEPT !.trying = TRUE] \in Records
          /\ [_call_map[c] EXCEPT !.start = TRUE] \in Records
      BY <3>1 DEF Records
    <3>3. \/ _call_map' = [_call_map EXCEPT ![c] = [_call_map[c] EXCEPT !.trying = TRUE]]
          \/ _call_map' = [_call_map EXCEPT ![c] = [_call_map[c] EXCEPT !.start = TRUE]]
      BY <2>2 DEF Answer
    <3> QED
      BY <1>1, <3>2, <3>3 DEF SharedOK
  <2> QED
    BY <2>1, <2>2
<1>3. handled' \in [Calls -> SUBSET {"invite", "repeat", "forwarded", "100", "200", "refused", "bye"}]
  BY <1>1 DEF Answer, SharedOK
<1>4. SharedOK' /\ UNCHANGED <<thread, mapOwner>>
  BY <1>1, <1>2, <1>3 DEF Answer, SharedOK
<1> QED
  BY <1>4, NoThreadMoves

LEMMA FinitTyped == ASSUME Typed, Finit PROVE Typed'
<1>1. SharedOK
  BY TypeParts DEF Typed
<1>2. ASSUME NEW c \in Calls, _call_map[c] # None
      PROVE  <<c, _call_map[c].number>> \in Calls \X (Nat \ {0})
  BY <1>1, <1>2, RecordsTyped
<1>3. uploaded' \subseteq Calls \X (Nat \ {0})
  BY <1>1, <1>2 DEF Finit, SharedOK
<1>4. SharedOK' /\ UNCHANGED <<thread, mapOwner>>
  BY <1>1, <1>3 DEF Finit, SharedOK
<1> QED
  BY <1>4, NoThreadMoves

LEMMA DevicesTyped ==
    ASSUME Typed, \/ \E d \in Devices : Unregister(d) \/ Register(d)
                  \/ EditorAsks
                  \/ \E m \in ManagerSet : EditorEdits(m)
    PROVE  Typed'
<1>1. SharedOK
  BY TypeParts DEF Typed
<1>2. ASSUME NEW d \in Devices, Unregister(d) PROVE SharedOK' /\ UNCHANGED <<thread, mapOwner>>
  BY <1>1, <1>2 DEF Unregister, SharedOK
<1>3. ASSUME NEW d \in Devices, Register(d) PROVE SharedOK' /\ UNCHANGED <<thread, mapOwner>>
  BY <1>1, <1>3 DEF Register, SharedOK
<1>4. ASSUME EditorAsks PROVE SharedOK' /\ UNCHANGED <<thread, mapOwner>>
  BY <1>1, <1>4, Constants DEF EditorAsks, SharedOK
<1>5. ASSUME NEW m \in ManagerSet, EditorEdits(m) PROVE SharedOK' /\ UNCHANGED <<thread, mapOwner>>
  <2>1. m \in Devices
    BY Constants
  <2>2. status' \in [Devices -> {"offline", "online", "busy"}]
    BY <1>1, <1>5, <2>1 DEF EditorEdits, SharedOK
  <2>3. book' \subseteq Devices
    BY <1>1, <1>5, <2>1 DEF EditorEdits, SharedOK
  <2> QED
    BY <1>1, <1>5, <2>2, <2>3 DEF EditorEdits, SharedOK
<1> QED
  BY <1>2, <1>3, <1>4, <1>5, NoThreadMoves

LEMMA StutterTyped == ASSUME Typed, UNCHANGED vars PROVE Typed'
<1>1. SharedOK' /\ UNCHANGED <<thread, mapOwner>>
  BY TypeParts DEF Typed, SharedOK, vars
<1> QED
  BY <1>1, NoThreadMoves

LEMMA StepTyped == Typed /\ [Next]_vars => Typed'
<1> SUFFICES ASSUME Typed, [Next]_vars PROVE Typed'
  OBVIOUS
<1>1. ASSUME NEW t \in Workers, Receive(t) PROVE Typed'
  BY <1>1, Constants, InviteTyped, RefuseTyped, HangUpTyped, AnswerTyped DEF Receive
<1>2. ASSUME NEW t \in Threads, Proceed(t) PROVE Typed'
  BY <1>2, FindCallTyped, TakeTyped, SkipTyped, StartTyped, GiveUpTyped, LeaveOthersTyped,
     TakeCallerTyped, TakeCalledTyped, InsertTyped, EraseRecordTyped, FreeCalledTyped,
     FreeCallerTyped DEF Proceed
<1> QED
  BY <1>1, <1>2, ExpireTyped, FinitTyped, DevicesTyped, StutterTyped DEF Next

(* TypeOK: whatever the handlers do, a thread that ends a call holds its   *)
(* record, one that takes a manager has a manager, and devices, calls and  *)
(* locks have the states the code gives them.                              *)
THEOREM TypeCorrect == Spec => []TypeOK
<1>1. Init => Typed
  BY InitTyped
<1>2. Typed /\ [Next]_vars => Typed'
  BY StepTyped
<1>3. Typed => TypeOK
  BY DEF Typed
<1> QED
  BY <1>1, <1>2, <1>3, PTL DEF Spec

-----------------------------------------------------------------------------
(* Records.  A step that moves none keeps each of them where it is.        *)

LEMMA SamePlaces ==
    ASSUME EachCallOnce, UNCHANGED <<inserted, uploaded>>,
           \A c \in Calls : \A n \in 1 .. inserted[c] :
                (InMap(c, n)' <=> InMap(c, n)) /\ \A t \in Threads : Holds(t, c, n)' <=> Holds(t, c, n)
    PROVE  EachCallOnce'
<1> SUFFICES ASSUME NEW c \in Calls, NEW n \in 1 .. inserted[c] PROVE InOnePlace(c, n)'
  BY DEF EachCallOnce
<1>1. InOnePlace(c, n)
  BY DEF EachCallOnce
<1>2. (InMap(c, n)' <=> InMap(c, n)) /\ \A t \in Threads : Holds(t, c, n)' <=> Holds(t, c, n)
  OBVIOUS
<1> QED
  BY <1>1, <1>2 DEF InOnePlace

LEMMA Quiet ==
    ASSUME Typed, Numbered, EachCallOnce, \A t \in Threads : thread'[t].record = thread[t].record,
           UNCHANGED <<_call_map, mapOwner, inserted, uploaded>>
    PROVE  Numbered' /\ EachCallOnce'
<1>1. mapOwner # None => mapOwner \in Threads
  BY DEF Typed, TypeOK
<1>2. Numbered'
  BY <1>1 DEF Numbered
<1>3. EachCallOnce'
  BY SamePlaces DEF InMap, Holds
<1> QED
  BY <1>2, <1>3

(* A step of one thread that ends no call before or after it. *)
LEMMA QuietHandler ==
    ASSUME Typed, Typed', Numbered, EachCallOnce,
           NEW t \in Threads, NEW s, thread' = [thread EXCEPT ![t] = s],
           at(t) \notin Freeing, s.at \notin Freeing,
           UNCHANGED <<_call_map, mapOwner, inserted, uploaded>>
    PROVE  Numbered' /\ EachCallOnce'
<1>1. thread \in [Threads -> ThreadStates]
  BY DEF Typed, TypeOK
<1>2. thread[t].record = None
  BY DEF Typed, ThreadOK, at
<1>3. thread'[t] = s /\ ThreadOK(thread'[t])
  BY <1>1 DEF Typed
<1>4. s.record = None
  BY <1>3 DEF ThreadOK
<1>5. \A u \in Threads : thread'[u].record = thread[u].record
  BY <1>1, <1>2, <1>3, <1>4
<1> QED
  BY <1>5, Quiet

LEMMA ReceiveOnce ==
    ASSUME IInv, Typed', NEW t \in Workers, Receive(t)
    PROVE  Numbered' /\ EachCallOnce'
<1> USE DEF IInv
<1>0. t \in Threads
  BY Constants
<1>1. ASSUME NEW c \in Calls, Invite(t, c) PROVE Numbered' /\ EachCallOnce'
  <2> DEFINE s == IF scene.to[c] = Centre THEN Handling("find", TRUE, c, None)
                  ELSE IF scene.to[c] \in book THEN Handling("init", TRUE, c, scene.to[c])
                  ELSE Idle
  <2>2. thread' = [thread EXCEPT ![t] = s]
    BY <1>1 DEF Invite
  <2>3. s.at \notin Freeing
    BY DEF Handling, Idle, Freeing
  <2> HIDE DEF s
  <2>4. at(t) \notin Freeing /\ UNCHANGED <<_call_map, mapOwner, inserted, uploaded>>
    BY <1>1 DEF Invite, Freeing
  <2> QED
    BY <1>0, <2>2, <2>3, <2>4, QuietHandler
<1>2. ASSUME NEW c \in Calls, Refuse(t, c) PROVE Numbered' /\ EachCallOnce'
  <2>1. Handling("erase", FALSE, c, None).at \notin Freeing
    BY DEF Handling, Freeing
  <2>2. /\ at(t) \notin Freeing /\ UNCHANGED <<_call_map, mapOwner, inserted, uploaded>>
        /\ thread' = [thread EXCEPT ![t] = Handling("erase", FALSE, c, None)]
    BY <1>2 DEF Refuse, Freeing
  <2> QED
    BY <1>0, <2>1, <2>2, QuietHandler
<1>3. ASSUME NEW c \in Calls, HangUp(t, c) PROVE Numbered' /\ EachCallOnce'
  <2>1. Handling("erase", TRUE, c, None).at \notin Freeing
    BY DEF Handling, Freeing
  <2>2. /\ at(t) \notin Freeing /\ UNCHANGED <<_call_map, mapOwner, inserted, uploaded>>
        /\ thread' = [thread EXCEPT ![t] = Handling("erase", TRUE, c, None)]
    BY <1>3 DEF HangUp, Freeing
  <2> QED
    BY <1>0, <2>1, <2>2, QuietHandler
<1>4. ASSUME NEW c \in Calls, NEW kind \in {"100", "200"}, Answer(t, c, kind)
      PROVE  Numbered' /\ EachCallOnce'
  <2>1. /\ mapOwner = None /\ _call_map \in [Calls -> Records \cup {None}]
        /\ UNCHANGED <<thread, mapOwner, inserted, uploaded>>
    BY <1>4 DEF Answer, MapIsFree, Typed, TypeOK
  <2>2. ASSUME NEW d \in Calls
        PROVE  /\ _call_map'[d] = None <=> _call_map[d] = None
               /\ _call_map[d] # None => /\ _call_map'[d].call = _call_map[d].call
                                         /\ _call_map'[d].number = _call_map[d].number
    <3>1. CASE d # c \/ _call_map[c] = None
      BY <1>4, <2>1, <3>1 DEF Answer
    <3>2. CASE d = c /\ _call_map[c] # None
      <4>1. _call_map[c] \in Records
        BY <2>1, <3>2
      <4>2. \/ _call_map'[c] = [_call_map[c] EXCEPT !.trying = TRUE]
            \/ _call_map'[c] = [_call_map[c] EXCEPT !.start = TRUE]
        BY <1>4, <2>1, <3>2 DEF Answer
      <4>3. _call_map'[c] \in Records /\ _call_map'[c].call = _call_map[c].call
            /\ _call_map'[c].number = _call_map[c].number
        BY <4>1, <4>2 DEF Records
      <4> QED
        BY <3>2, <4>3, Constants
    <3> QED
      BY <3>1, <3>2
  <2>3. Numbered'
    BY <2>1, <2>2 DEF Numbered
  <2>4. EachCallOnce'
    BY <2>1, <2>2, SamePlaces DEF InMap, Holds
  <2> QED
    BY <2>3, <2>4
<1> QED
  BY <1>1, <1>2, <1>3, <1>4 DEF Receive

(* The steps of an INVITE before its record. *)
LEMMA InvitingOnce ==
    ASSUME IInv, Typed', NEW t \in Threads,
           \/ FindCall(t) \/ Take(t) \/ Skip(t) \/ Start(t) \/ GiveUp(t)
           \/ TakeCaller(t) \/ TakeCalled(t)
    PROVE  Numbered' /\ EachCallOnce'
<1> USE DEF IInv
<1>0. thread \in [Threads -> ThreadStates] /\ thread[t] \in ThreadStates
  BY DEF Typed, TypeOK
<1>1. ASSUME NEW s, thread' = [thread EXCEPT ![t] = s], s.at \notin Freeing, at(t) \notin Freeing,
             UNCHANGED <<_call_map, mapOwner, inserted, uploaded>>
      PROVE  Numbered' /\ EachCallOnce'
  BY <1>1, QuietHandler
<1>2. Idle.at \notin Freeing
  BY DEF Idle, Handling, Freeing
<1>3. ASSUME FindCall(t) PROVE Numbered' /\ EachCallOnce'
  <2>1. PICK d : \/ thread' = [thread EXCEPT ![t] = [thread[t] EXCEPT !.at = "init", !.device = d]]
                 \/ thread' = [thread EXCEPT ![t] = [thread[t] EXCEPT !.at = "scan", !.device = d]]
    BY <1>3 DEF FindCall
  <2>2. /\ [thread[t] EXCEPT !.at = "init", !.device = d].at \notin Freeing
        /\ [thread[t] EXCEPT !.at = "scan", !.device = d].at \notin Freeing
    BY <1>0 DEF ThreadStates, Freeing
  <2>3. at(t) \notin Freeing /\ UNCHANGED <<_call_map, mapOwner, inserted, uploaded>>
    BY <1>3 DEF FindCall, Freeing
  <2> QED
    BY <1>1, <2>1, <2>2, <2>3
<1>4. ASSUME NEW step, step \notin Freeing, Goto(t, step), at(t) \notin Freeing,
             UNCHANGED <<_call_map, mapOwner, inserted, uploaded>>
      PROVE  Numbered' /\ EachCallOnce'
  <2> DEFINE s == [thread[t] EXCEPT !.at = step]
  <2>1. thread' = [thread EXCEPT ![t] = s] /\ s.at = step
    BY <1>0, <1>4 DEF Goto, ThreadStates
  <2> HIDE DEF s
  <2> QED
    BY <1>1, <1>4, <2>1
<1>5. CASE Take(t) \/ TakeCaller(t) \/ TakeCalled(t)
  <2>1. /\ at(t) \notin Freeing /\ UNCHANGED <<_call_map, mapOwner, inserted, uploaded>>
        /\ Goto(t, "init") \/ Goto(t, "take_called") \/ Goto(t, "insert")
    BY <1>5 DEF Take, TakeCaller, TakeCalled, Freeing
  <2>2. "init" \notin Freeing /\ "take_called" \notin Freeing /\ "insert" \notin Freeing
    BY DEF Freeing
  <2> QED
    BY <1>4, <2>1, <2>2
<1>6. CASE Skip(t)
  <2> DEFINE next == NextManager(thread[t].device)
             s == IF next = None THEN Idle ELSE [thread[t] EXCEPT !.device = next]
  <2>1. thread' = [thread EXCEPT ![t] = s] /\ at(t) = "scan"
    BY <1>6 DEF Skip
  <2>2. [thread[t] EXCEPT !.device = next].at = "scan"
    BY <1>0, <2>1 DEF ThreadStates, at
  <2>3. at(t) \notin Freeing /\ s.at \notin Freeing
    BY <1>2, <2>1, <2>2 DEF Freeing
  <2> HIDE DEF s
  <2> QED
    BY <1>1, <1>6, <2>1, <2>3 DEF Skip
<1>7. CASE Start(t)
  <2>1. PICK s : /\ thread' = [thread EXCEPT ![t] = s]
                 /\ s = Idle \/ \E step \in Inviting : s = [thread[t] EXCEPT !.at = step]
    <3> DEFINE s == thread'[t]
    <3>1. thread' = [thread EXCEPT ![t] = s]
      BY <1>0, <1>7 DEF Start
    <3>2. s = Idle \/ \E step \in Inviting : s = [thread[t] EXCEPT !.at = step]
      BY <1>0, <1>7 DEF Start, Inviting
    <3> QED
      BY <3>1, <3>2
  <2>2. s.at \notin Freeing
    BY <1>0, <1>2, <2>1 DEF Inviting, Freeing, ThreadStates
  <2>3. at(t) \notin Freeing /\ UNCHANGED <<_call_map, mapOwner, inserted, uploaded>>
    BY <1>7 DEF Start, Freeing
  <2> QED
    BY <1>1, <2>1, <2>2, <2>3
<1>8. CASE GiveUp(t)
  BY <1>1, <1>2, <1>8 DEF GiveUp, Freeing
<1> QED
  BY <1>3, <1>5, <1>6, <1>7, <1>8

(* A thread that takes the map's lock to end a call holds a copy of its    *)
(* record: the record stays in the map.                                    *)
LEMMA OwnOnce ==
    ASSUME IInv, Typed', NEW t \in Threads, NEW c \in Calls, at(t) \notin Freeing, mapOwner = None,
           _call_map[c] # None, mapOwner' = t, UNCHANGED <<_call_map, inserted, uploaded>>,
           NEW s, thread' = [thread EXCEPT ![t] = s], s.record = _call_map[c]
    PROVE  Numbered' /\ EachCallOnce'
<1>1. /\ thread \in [Threads -> ThreadStates] /\ thread[t].record = None
      /\ _call_map[c] \in Records
  BY RecordsTyped DEF IInv, Typed, TypeOK, SharedOK, ThreadOK, at
<1>2. /\ thread'[t].record = _call_map[c]
      /\ \A u \in Threads \ {t} : thread'[u].record = thread[u].record
  BY <1>1
<1>3. _call_map[c].call = c /\ _call_map[c].number \in 1 .. inserted[c]
  BY DEF IInv, Numbered
<1>4. t # None
  BY Constants
<1>5. Numbered'
  BY <1>2, <1>3, <1>4 DEF IInv, Numbered
<1>6. EachCallOnce'
  <2>1. ASSUME NEW d \in Calls, NEW n \in 1 .. inserted[d]
        PROVE  (InMap(d, n)' <=> InMap(d, n)) /\ \A u \in Threads : Holds(u, d, n)' <=> Holds(u, d, n)
    <3>1. InMap(d, n)' <=> InMap(d, n)
      BY DEF InMap
    <3>2. ~Holds(t, d, n)' /\ ~Holds(t, d, n)
      BY <1>1 DEF Holds
    <3>3. \A u \in Threads \ {t} : Holds(u, d, n)' <=> Holds(u, d, n)
      BY <1>2, Constants DEF Holds
    <3> QED
      BY <3>1, <3>2, <3>3
  <2> QED
    BY <2>1, SamePlaces DEF IInv
<1> QED
  BY <1>5, <1>6

LEMMA LeaveOthersOnce ==
    ASSUME IInv, Typed', NEW t \in Threads, LeaveOthers(t)
    PROVE  Numbered' /\ EachCallOnce'
<1>1. /\ thread \in [Threads -> ThreadStates] /\ thread[t] \in ThreadStates
      /\ at(t) \notin Freeing /\ mapOwner = None
      /\ UNCHANGED <<_call_map, inserted, uploaded>>
  BY DEF IInv, Typed, TypeOK, LeaveOthers, MapIsFree, Freeing
<1>2. CASE Goto(t, "take_caller") /\ UNCHANGED mapOwner
  <2> DEFINE s == [thread[t] EXCEPT !.at = "take_caller"]
  <2>1. thread' = [thread EXCEPT ![t] = s] /\ s.at \notin Freeing
    BY <1>1, <1>2 DEF Goto, ThreadStates, Freeing
  <2> HIDE DEF s
  <2> QED
    BY <1>1, <1>2, <2>1, QuietHandler DEF IInv
<1>3. ASSUME NEW c \in Calls, _call_map[c] # None, mapOwner' = t,
             thread' = [thread EXCEPT ![t] = Ending(@, _call_map[c])]
      PROVE  Numbered' /\ EachCallOnce'
  <2>1. Ending(thread[t], _call_map[c]).record = _call_map[c]
    BY DEF Ending
  <2> QED
    BY <1>1, <1>3, <2>1, OwnOnce
<1> QED
  BY <1>2, <1>3 DEF LeaveOthers

LEMMA ExpireOnce ==
    ASSUME IInv, Typed', NEW c \in Calls, Expire(c)
    PROVE  Numbered' /\ EachCallOnce'
<1>1. /\ at(Timer) \notin Freeing /\ mapOwner = None /\ mapOwner' = Timer
      /\ _call_map[c] # None /\ UNCHANGED <<_call_map, inserted, uploaded>>
      /\ thread' = [thread EXCEPT ![Timer] = Ending(Idle, _call_map[c])]
  BY DEF Expire, MapIsFree, Freeing
<1>2. Ending(Idle, _call_map[c]).record = _call_map[c]
  BY DEF Ending
<1> QED
  BY <1>1, <1>2, Constants, OwnOnce

(* A record that leaves for the map is the next of its call: nobody holds  *)
(* one with its number.                                                    *)
LEMMA InsertOnce ==
    ASSUME IInv, Typed', NEW t \in Threads, Insert(t)
    PROVE  Numbered' /\ EachCallOnce'
<1> DEFINE c == thread[t].call
           s == IF "no_address" \in scene.may THEN [thread[t] EXCEPT !.at = "erase"] ELSE Idle
           m == inserted[c] + 1
           new == [call |-> c, number |-> m, called |-> thread[t].device,
                   trying |-> FALSE, start |-> FALSE]
<1>1. /\ thread \in [Threads -> ThreadStates] /\ thread[t] \in ThreadStates
      /\ at(t) \notin Freeing /\ mapOwner = None /\ c \in Calls
      /\ inserted \in [Calls -> Nat] /\ _call_map \in [Calls -> Records \cup {None}]
  BY DEF IInv, Typed, TypeOK, Insert, MapIsFree, Freeing, ThreadOK, Inviting, at
<1>2. thread' = [thread EXCEPT ![t] = s] /\ UNCHANGED <<mapOwner, uploaded>>
  BY DEF Insert
<1>3. s.at \notin Freeing
  BY <1>1 DEF Idle, Handling, Freeing, ThreadStates
<1>4. CASE _call_map[c] # None
  <2>1. _call_map' = _call_map /\ inserted' = inserted
    BY <1>1, <1>4 DEF Insert
  <2> HIDE DEF s
  <2> QED
    BY <1>1, <1>2, <1>3, <2>1, QuietHandler DEF IInv
<1>5. CASE _call_map[c] = None
  <2>1. inserted' = [inserted EXCEPT ![c] = m] /\ _call_map' = [_call_map EXCEPT ![c] = new]
    BY <1>5 DEF Insert
  <2>2. thread[t].record = None /\ thread'[t].record = None
    <3>1. thread'[t] = s /\ ThreadOK(thread'[t])
      BY <1>1, <1>2 DEF Typed
    <3> HIDE DEF s
    <3> QED
      BY <1>1, <1>3, <3>1 DEF IInv, Typed, ThreadOK, at
  <2>3. \A u \in Threads : thread'[u].record = thread[u].record
    BY <1>1, <1>2, <2>2
  <2>4. m \in Nat /\ m \notin 1 .. inserted[c] /\ 1 .. m = 1 .. inserted[c] \cup {m}
    BY <1>1
  <2>5. new.call = c /\ new.number = m
    OBVIOUS
  <2> HIDE DEF s, m, new
  <2>6. \A d \in Calls : 1 .. inserted[d] \subseteq 1 .. inserted'[d]
    BY <1>1, <2>1, <2>4
  <2>7. \A u \in Threads : thread[u].record # None => thread[u].record.call \in Calls
    BY <1>1 DEF ThreadStates, Records
  <2>8. Numbered'
    <3>1. \A d \in Calls : _call_map'[d] # None =>
                _call_map'[d].call = d /\ _call_map'[d].number \in 1 .. inserted'[d]
      <4>1. ASSUME NEW d \in Calls, _call_map'[d] # None
            PROVE  _call_map'[d].call = d /\ _call_map'[d].number \in 1 .. inserted'[d]
        <5>1. CASE d = c
          BY <1>1, <2>1, <2>4, <2>5, <5>1
        <5>2. CASE d # c
          BY <1>1, <2>1, <4>1, <5>2 DEF IInv, Numbered
        <5> QED
          BY <5>1, <5>2
      <4> QED
        BY <4>1
    <3>2. \A u \in Threads : thread'[u].record # None =>
                thread'[u].record.number \in 1 .. inserted'[thread'[u].record.call]
      BY <2>3, <2>6, <2>7 DEF IInv, Numbered
    <3>3. \A u \in uploaded' : u[2] \in 1 .. inserted'[u[1]]
      <4>1. \A u \in uploaded : u[1] \in Calls
        BY DEF IInv, Typed, TypeOK
      <4> QED
        BY <1>2, <2>6, <4>1 DEF IInv, Numbered
    <3> QED
      BY <1>1, <1>2, <3>1, <3>2, <3>3 DEF Numbered
  <2>9. EachCallOnce'
    <3> SUFFICES ASSUME NEW d \in Calls, NEW n \in 1 .. inserted'[d] PROVE InOnePlace(d, n)'
      BY DEF EachCallOnce
    <3>1. \A u \in Threads : Holds(u, d, n)' <=> Holds(u, d, n)
      BY <1>2, <2>3 DEF Holds
    <3>2. CASE d # c
      <4>1. InOnePlace(d, n)
        BY <1>1, <2>1, <3>2 DEF IInv, EachCallOnce
      <4>2. InMap(d, n)' <=> InMap(d, n)
        BY <1>1, <2>1, <3>2 DEF InMap
      <4> QED
        BY <1>2, <3>1, <4>1, <4>2 DEF InOnePlace
    <3>3. CASE d = c /\ n \in 1 .. inserted[c]
      <4>1. InOnePlace(d, n)
        BY <3>3 DEF IInv, EachCallOnce
      <4>2. ~InMap(d, n) /\ ~InMap(d, n)'
        BY <1>1, <1>5, <2>1, <2>4, <2>5, <3>3 DEF InMap
      <4> QED
        BY <1>2, <3>1, <4>1, <4>2 DEF InOnePlace
    <3>4. CASE d = c /\ n = m
      <4>1. InMap(d, n)'
        <5>1. _call_map'[c] = new
          BY <1>1, <2>1
        <5>2. new # None
          <6>1. thread[t].device \in Devices
            BY DEF IInv, Typed, ThreadOK, at, Insert, Inviting
          <6>2. m \in Nat \ {0}
            BY <1>1 DEF m
          <6>3. new \in Records
            BY <1>1, <6>1, <6>2 DEF new, Records
          <6> QED
            BY <6>3, Constants
        <5> QED
          BY <2>5, <3>4, <5>1, <5>2 DEF InMap
      <4>2. \A u \in Threads : ~Holds(u, d, n)
        BY <2>4, <3>4 DEF IInv, Numbered, Holds
      <4>3. <<d, n>> \notin uploaded
        <5>1. <<d, n>>[1] = c /\ <<d, n>>[2] = m
          BY <3>4
        <5> QED
          BY <2>4, <5>1 DEF IInv, Numbered
      <4> QED
        BY <1>2, <3>1, <4>1, <4>2, <4>3 DEF InOnePlace
    <3>5. d = c => n \in 1 .. inserted[c] \/ n = m
      BY <1>1, <2>1, <2>4
    <3> QED
      BY <3>2, <3>3, <3>4, <3>5
  <2> QED
    BY <2>8, <2>9
<1> QED
  BY <1>4, <1>5

(* A record that is taken out of the map is held by the thread alone. *)
LEMMA EraseRecordOnce ==
    ASSUME IInv, Typed', NEW t \in Threads, EraseRecord(t)
    PROVE  Numbered' /\ EachCallOnce'
<1> DEFINE c == thread[t].call
           r == _call_map[c]
           s == IF r = None THEN Idle ELSE Ending(thread[t], r)
<1>1. /\ thread \in [Threads -> ThreadStates] /\ thread[t] \in ThreadStates
      /\ at(t) \notin Freeing /\ mapOwner = None /\ mapOwner' = None /\ c \in Calls
      /\ _call_map \in [Calls -> Records \cup {None}]
      /\ thread[t].record = None
  BY DEF IInv, Typed, TypeOK, EraseRecord, MapIsFree, Freeing, ThreadOK, at
<1>2. /\ thread' = [thread EXCEPT ![t] = s] /\ UNCHANGED <<mapOwner, uploaded, inserted>>
      /\ _call_map' = [_call_map EXCEPT ![c] = None]
  BY DEF EraseRecord
<1>3. s.record = r
  BY DEF Idle, Handling, Ending
<1>4. /\ thread'[t].record = r
      /\ \A u \in Threads \ {t} : thread'[u].record = thread[u].record
      /\ _call_map'[c] = None /\ \A d \in Calls \ {c} : _call_map'[d] = _call_map[d]
  <2> HIDE DEF s
  <2> QED
    BY <1>1, <1>2, <1>3
<1>5. r # None => r.call = c /\ r.number \in 1 .. inserted[c]
  BY <1>1 DEF IInv, Numbered
<1> HIDE DEF s, r, c
<1>6. Numbered'
  BY <1>1, <1>2, <1>4, <1>5 DEF IInv, Numbered
<1>7. EachCallOnce'
  <2> SUFFICES ASSUME NEW d \in Calls, NEW n \in 1 .. inserted[d] PROVE InOnePlace(d, n)'
    BY <1>2 DEF EachCallOnce
  <2>1. InOnePlace(d, n)
    BY DEF IInv, EachCallOnce
  <2>2. \A u \in Threads \ {t} : Holds(u, d, n)' <=> Holds(u, d, n)
    BY <1>1, <1>4, Constants DEF Holds
  <2>3. ~Holds(t, d, n)
    BY <1>1 DEF Holds
  <2>4. CASE d = c /\ r # None /\ r.number = n
    <3>1. Holds(t, d, n)' /\ ~InMap(d, n)' /\ InMap(d, n)
      BY <1>1, <1>4, <1>5, <2>4, Constants DEF Holds, InMap, r
    <3> QED
      BY <1>2, <2>1, <2>2, <3>1 DEF InOnePlace
  <2>5. CASE ~(d = c /\ r # None /\ r.number = n)
    <3>1. ~Holds(t, d, n)'
      BY <1>4, <1>5, <2>5 DEF Holds
    <3>2. InMap(d, n)' <=> InMap(d, n)
      BY <1>4, <2>5 DEF InMap, r
    <3> QED
      BY <1>2, <2>1, <2>2, <2>3, <3>1, <3>2 DEF InOnePlace
  <2> QED
    BY <2>4, <2>5
<1> QED
  BY <1>6, <1>7

LEMMA FreeCalledOnce ==
    ASSUME IInv, Typed', NEW t \in Threads, FreeCalled(t)
    PROVE  Numbered' /\ EachCallOnce'
<1>1. thread \in [Threads -> ThreadStates]
  BY DEF IInv, Typed, TypeOK
<1>2. \A u \in Threads : thread'[u].record = thread[u].record
  BY <1>1 DEF FreeCalled, Goto, ThreadStates
<1> QED
  BY <1>2, Quiet DEF FreeCalled, IInv

(* The record that is uploaded was held by the thread, or, under the map's *)
(* lock, was in the map and leaves it.                                     *)
LEMMA FreeCallerOnce ==
    ASSUME IInv, Typed', NEW t \in Threads, FreeCaller(t)
    PROVE  Numbered' /\ EachCallOnce'
<1> DEFINE r == thread[t].record
           s == IF mapOwner = t /\ t # Timer
                THEN Handling("take_caller", thread[t].reads, thread[t].call, thread[t].device)
                ELSE Idle
<1>1. /\ thread \in [Threads -> ThreadStates] /\ at(t) \in Freeing
      /\ _call_map \in [Calls -> Records \cup {None}] /\ mapOwner \in Threads \cup {None}
      /\ uploaded' = uploaded \cup {<<r.call, r.number>>} /\ UNCHANGED inserted
  BY DEF IInv, Typed, TypeOK, FreeCaller, Freeing, at
<1>2. thread' = [thread EXCEPT ![t] = s]
  BY DEF FreeCaller
<1>3. /\ r # None /\ r.call \in Calls /\ r.number \in 1 .. inserted[r.call]
  BY <1>1, RecordHeld, Constants DEF IInv, Numbered
<1>4. s.record = None
  BY DEF Idle, Handling
<1>5. /\ thread'[t].record = None
      /\ \A u \in Threads \ {t} : thread'[u].record = thread[u].record
  <2> HIDE DEF s
  <2> QED
    BY <1>1, <1>2, <1>4
<1>6. CASE mapOwner # t
  <2>1. _call_map' = _call_map /\ mapOwner' = mapOwner
    BY <1>6 DEF FreeCaller
  <2>2. mapOwner # None => thread'[mapOwner].record = thread[mapOwner].record
    BY <1>1, <1>5, <1>6
  <2> HIDE DEF s
  <2>3. Numbered'
    <3>1. \A u \in uploaded' : u[2] \in 1 .. inserted'[u[1]]
      BY <1>1, <1>3 DEF IInv, Numbered
    <3> QED
      BY <1>1, <1>5, <2>1, <2>2, <3>1 DEF IInv, Numbered
  <2>4. EachCallOnce'
    <3> SUFFICES ASSUME NEW d \in Calls, NEW n \in 1 .. inserted[d] PROVE InOnePlace(d, n)'
      BY <1>1 DEF EachCallOnce
    <3>1. InOnePlace(d, n)
      BY DEF IInv, EachCallOnce
    <3>2. ~Holds(t, d, n)' /\ (InMap(d, n)' <=> InMap(d, n))
          /\ \A u \in Threads \ {t} : Holds(u, d, n)' <=> Holds(u, d, n)
      BY <1>5, <2>1 DEF Holds, InMap
    <3>3. CASE d = r.call /\ n = r.number
      <4>1. Holds(t, d, n) /\ <<d, n>> \in uploaded'
        BY <1>1, <1>3, <1>6, <3>3 DEF Holds
      <4> QED
        BY <3>1, <3>2, <4>1 DEF InOnePlace
    <3>4. CASE ~(d = r.call /\ n = r.number)
      <4>1. ~Holds(t, d, n) /\ (<<d, n>> \in uploaded' <=> <<d, n>> \in uploaded)
        BY <1>1, <3>4 DEF Holds
      <4> QED
        BY <3>1, <3>2, <4>1 DEF InOnePlace
    <3> QED
      BY <3>3, <3>4
  <2> QED
    BY <2>3, <2>4
<1>7. CASE mapOwner = t
  <2>1. _call_map' = [_call_map EXCEPT ![r.call] = None] /\ mapOwner' = None
    BY <1>7 DEF FreeCaller
  <2>2. _call_map[r.call] = r
    BY <1>7, Constants DEF IInv, Numbered
  <2> HIDE DEF s
  <2>3. Numbered'
    <3>1. \A u \in uploaded' : u[2] \in 1 .. inserted'[u[1]]
      BY <1>1, <1>3 DEF IInv, Numbered
    <3> QED
      BY <1>1, <1>3, <1>5, <2>1, <3>1 DEF IInv, Numbered
  <2>4. EachCallOnce'
    <3> SUFFICES ASSUME NEW d \in Calls, NEW n \in 1 .. inserted[d] PROVE InOnePlace(d, n)'
      BY <1>1 DEF EachCallOnce
    <3>1. InOnePlace(d, n)
      BY DEF IInv, EachCallOnce
    <3>2. /\ ~Holds(t, d, n)' /\ ~Holds(t, d, n)
          /\ \A u \in Threads \ {t} : Holds(u, d, n)' <=> Holds(u, d, n)
      BY <1>5, <1>7, <2>1, Constants DEF Holds
    <3>3. CASE d = r.call /\ n = r.number
      <4>1. InMap(d, n) /\ ~InMap(d, n)' /\ <<d, n>> \in uploaded'
        BY <1>1, <1>3, <2>1, <2>2, <3>3 DEF InMap
      <4> QED
        BY <3>1, <3>2, <4>1 DEF InOnePlace
    <3>4. CASE ~(d = r.call /\ n = r.number)
      <4>1. (InMap(d, n)' <=> InMap(d, n)) /\ (<<d, n>> \in uploaded' <=> <<d, n>> \in uploaded)
        BY <1>1, <1>3, <2>1, <2>2, <3>4 DEF InMap
      <4> QED
        BY <3>1, <3>2, <4>1 DEF InOnePlace
    <3> QED
      BY <3>3, <3>4
  <2> QED
    BY <2>3, <2>4
<1> QED
  BY <1>6, <1>7

(* What the server leaves in the map when it stops is uploaded. *)
LEMMA FinitOnce ==
    ASSUME IInv, Typed', Finit
    PROVE  Numbered' /\ EachCallOnce'
<1>1. /\ \A t \in Threads : thread[t].record = None
      /\ mapOwner = None
  BY DEF IInv, Typed, TypeOK, OwnerOK, ThreadOK, Finit, Freeing, at
<1>2. /\ UNCHANGED <<thread, mapOwner, inserted>> /\ _call_map' = [c \in Calls |-> None]
      /\ uploaded' = uploaded \cup
            {<<c, _call_map[c].number>> : c \in {c \in Calls : _call_map[c] # None}}
  BY DEF Finit
<1>3. Numbered'
  <2>1. \A u \in uploaded' : u[2] \in 1 .. inserted'[u[1]]
    BY <1>2 DEF IInv, Numbered
  <2> QED
    BY <1>1, <1>2, <2>1 DEF IInv, Numbered
<1>4. EachCallOnce'
  <2> SUFFICES ASSUME NEW c \in Calls, NEW n \in 1 .. inserted[c] PROVE InOnePlace(c, n)'
    BY <1>2 DEF EachCallOnce
  <2>1. InOnePlace(c, n)
    BY DEF IInv, EachCallOnce
  <2>2. \A t \in Threads : ~Holds(t, c, n) /\ ~Holds(t, c, n)'
    BY <1>1, <1>2 DEF Holds
  <2>3. ~InMap(c, n)' /\ (<<c, n>> \in uploaded' <=> InMap(c, n) \/ <<c, n>> \in uploaded)
    BY <1>2 DEF InMap
  <2> QED
    BY <2>1, <2>2, <2>3 DEF InOnePlace
<1> QED
  BY <1>3, <1>4

LEMMA StepOnce == IInv /\ [Next]_vars => IInv'
<1> SUFFICES ASSUME IInv, [Next]_vars PROVE Numbered' /\ EachCallOnce'
  BY StepTyped DEF IInv
<1>1. Typed'
  BY StepTyped DEF IInv
<1>2. ASSUME NEW t \in Threads, Proceed(t) PROVE Numbered' /\ EachCallOnce'
  BY <1>1, <1>2, InvitingOnce, LeaveOthersOnce, InsertOnce, EraseRecordOnce, FreeCalledOnce,
     FreeCallerOnce DEF Proceed
<1>3. CASE \/ \E d \in Devices : Unregister(d) \/ Register(d)
           \/ EditorAsks
           \/ \E m \in ManagerSet : EditorEdits(m)
           \/ UNCHANGED vars
  <2>1. UNCHANGED <<thread, _call_map, mapOwner, inserted, uploaded>>
    BY <1>3 DEF Unregister, Register, EditorAsks, EditorEdits, vars
  <2> QED
    BY <2>1, Quiet DEF IInv
<1> QED
  BY <1>1, <1>2, <1>3, ReceiveOnce, ExpireOnce, FinitOnce DEF Next

(* EachCallOnce: every call that is entered in the map is in one place, in *)
(* the map, with the thread that ends it or among the uploaded, whichever  *)
(* BYEs, refusals, timeouts, new calls of a manager and stop of the server *)
(* meet, for any number of worker threads.                                 *)
THEOREM CallsRecorded == Spec => []EachCallOnce
<1>1. Init => IInv
  BY InitTyped, InitOnce DEF IInv
<1>2. IInv /\ [Next]_vars => IInv'
  BY StepOnce
<1>3. IInv => EachCallOnce
  BY DEF IInv
<1> QED
  BY <1>1, <1>2, <1>3, PTL DEF Spec

-----------------------------------------------------------------------------
(* A thread that waits for work holds no lock on the book. *)
Rested == \A t \in Threads : at(t) = "idle" => ~thread[t].reads

LEMMA StepRested ==
    ASSUME Typed, Rested, [Next]_vars
    PROVE  Rested'
<1>0. thread \in [Threads -> ThreadStates] /\ Workers \subseteq Threads /\ Timer \in Threads
  BY TypeParts, Constants DEF Typed
<1>1. ASSUME NEW t \in Threads, NEW s, thread' = [thread EXCEPT ![t] = s],
             s.at = "idle" => ~s.reads
      PROVE  Rested'
  BY <1>0, <1>1 DEF Rested, at
<1>2. Idle.reads = FALSE
  BY DEF Idle, Handling
<1>3. ASSUME NEW t \in Workers, Receive(t) PROVE Rested'
  <2>1. PICK c \in Calls : \/ Invite(t, c) \/ Refuse(t, c) \/ HangUp(t, c)
                           \/ \E kind \in {"100", "200"} : Answer(t, c, kind)
    BY <1>3 DEF Receive
  <2>2. CASE \E kind \in {"100", "200"} : Answer(t, c, kind)
    BY <2>2 DEF Answer, Rested, at
  <2>3. CASE Invite(t, c)
    <3> DEFINE s == IF scene.to[c] = Centre THEN Handling("find", TRUE, c, None)
                    ELSE IF scene.to[c] \in book THEN Handling("init", TRUE, c, scene.to[c])
                    ELSE Idle
    <3>1. thread' = [thread EXCEPT ![t] = s]
      BY <2>3 DEF Invite
    <3>2. s.at = "idle" => ~s.reads
      BY <1>2 DEF Handling
    <3> QED
      BY <1>0, <1>1, <3>1, <3>2
  <2>4. CASE Refuse(t, c) \/ HangUp(t, c)
    <3> DEFINE s(n) == Handling("erase", n, c, None)
    <3>1. thread' = [thread EXCEPT ![t] = s(FALSE)] \/ thread' = [thread EXCEPT ![t] = s(TRUE)]
      BY <2>4 DEF Refuse, HangUp
    <3>2. \A n \in BOOLEAN : s(n).at # "idle"
      BY DEF Handling
    <3> HIDE DEF s
    <3> QED
      BY <1>0, <1>1, <3>1, <3>2
  <2> QED
    BY <2>1, <2>2, <2>3, <2>4
<1>4. ASSUME NEW t \in Threads, Proceed(t) PROVE Rested'
  <2> DEFINE s == thread'[t]
  <2>0. thread[t] \in ThreadStates
    BY <1>0
  <2>1. CASE FindCall(t) \/ Skip(t) \/ Start(t) \/ GiveUp(t)
    <3>1. thread' = [thread EXCEPT ![t] = s] /\ thread[t].at # "idle"
      BY <1>0, <2>1 DEF FindCall, Skip, Start, GiveUp, at
    <3>2. \/ s = Idle
          \/ \E step \in Steps \ {"idle"} : \E d :
                 s = [thread[t] EXCEPT !.at = step, !.device = d]
          \/ \E step \in Steps \ {"idle"} : s = [thread[t] EXCEPT !.at = step]
          \/ \E d : s = [thread[t] EXCEPT !.device = d]
      <4>1. CASE FindCall(t)
        BY <1>0, <4>1 DEF FindCall, Steps
      <4>2. CASE Skip(t) \/ GiveUp(t)
        BY <1>0, <4>2 DEF Skip, GiveUp
      <4>3. CASE Start(t)
        BY <1>0, <4>3 DEF Start, Steps
      <4> QED
        BY <2>1, <4>1, <4>2, <4>3
    <3>3. s = Idle \/ s.at # "idle"
      BY <2>0, <3>1, <3>2 DEF ThreadStates
    <3> QED
      BY <1>1, <1>2, <3>1, <3>3
  <2>2. CASE Take(t) \/ TakeCaller(t) \/ TakeCalled(t) \/ FreeCalled(t)
    <3>1. \E step \in Steps \ {"idle"} : thread' = [thread EXCEPT ![t].at = step]
      BY <2>2 DEF Take, TakeCaller, TakeCalled, FreeCalled, Goto, Steps
    <3>2. thread' = [thread EXCEPT ![t] = s] /\ s.at # "idle"
      BY <1>0, <2>0, <3>1 DEF ThreadStates
    <3> QED
      BY <1>1, <3>2
  <2>3. CASE LeaveOthers(t)
    <3>1. \/ \E step \in Steps \ {"idle"} : thread' = [thread EXCEPT ![t].at = step]
          \/ \E r : thread' = [thread EXCEPT ![t] = Ending(thread[t], r)]
      BY <1>0, <2>3 DEF LeaveOthers, Goto, Steps
    <3>2. \A r : Ending(thread[t], r).at # "idle"
      BY DEF Ending
    <3>3. thread' = [thread EXCEPT ![t] = s] /\ s.at # "idle"
      BY <1>0, <2>0, <3>1, <3>2 DEF ThreadStates
    <3> QED
      BY <1>1, <3>3
  <2>4. CASE Insert(t)
    <3>1. \/ thread' = [thread EXCEPT ![t].at = "erase"]
          \/ thread' = [thread EXCEPT ![t] = Idle]
      BY <1>0, <2>4 DEF Insert
    <3>2. thread' = [thread EXCEPT ![t] = s] /\ (s = Idle \/ s.at # "idle")
      BY <1>0, <2>0, <3>1 DEF ThreadStates
    <3> QED
      BY <1>1, <1>2, <3>2
  <2>5. CASE EraseRecord(t) \/ FreeCaller(t)
    <3>1. \/ \E r : thread' = [thread EXCEPT ![t] = Ending(thread[t], r)]
          \/ \E step \in Steps \ {"idle"} : \E n, c, d :
                 thread' = [thread EXCEPT ![t] = Handling(step, n, c, d)]
          \/ thread' = [thread EXCEPT ![t] = Idle]
      BY <1>0, <2>5 DEF EraseRecord, FreeCaller, Steps
    <3>2. \/ \E r : s = Ending(thread[t], r)
          \/ \E step \in Steps \ {"idle"} : \E n, c, d : s = Handling(step, n, c, d)
          \/ s = Idle
      BY <1>0, <3>1
    <3>3. thread' = [thread EXCEPT ![t] = s]
      BY <1>0, <3>1
    <3>4. /\ \A r : Ending(thread[t], r).at # "idle"
          /\ \A step \in Steps \ {"idle"} : \A n, c, d : Handling(step, n, c, d).at # "idle"
      BY DEF Ending, Handling
    <3> HIDE DEF s
    <3>5. s = Idle \/ s.at # "idle"
      BY <3>2, <3>4
    <3> QED
      BY <1>1, <1>2, <3>3, <3>5
  <2> QED
    BY <1>4, <2>1, <2>2, <2>3, <2>4, <2>5 DEF Proceed
<1>5. ASSUME NEW c \in Calls, Expire(c) PROVE Rested'
  <2> DEFINE s == Ending(Idle, _call_map[c])
  <2>1. thread' = [thread EXCEPT ![Timer] = s]
    BY <1>5 DEF Expire
  <2>2. s.at # "idle"
    BY DEF Ending
  <2> HIDE DEF s
  <2> QED
    BY <1>0, <1>1, <2>1, <2>2
<1>6. CASE \/ Finit \/ EditorAsks \/ (\E m \in ManagerSet : EditorEdits(m))
           \/ (\E d \in Devices : Unregister(d) \/ Register(d)) \/ UNCHANGED vars
  <2>1. UNCHANGED thread
    BY <1>6 DEF Finit, EditorAsks, EditorEdits, Unregister, Register, vars
  <2> QED
    BY <2>1 DEF Rested, at
<1> QED
  BY <1>3, <1>4, <1>5, <1>6 DEF Next

LEMMA RestedHalts ==
    ASSUME Typed, Rested
    PROVE  HaltsOnlyByEditing
<1> SUFFICES ASSUME \A t \in Threads : at(t) = "idle" \/ Waits(t),
                    NEW u \in Threads, at(u) # "idle", ~Caught,
                    ~(writer = "waiting" /\ \A t \in Threads : ~Reads(t))
             PROVE  FALSE
  BY DEF HaltsOnlyByEditing
<1>1. writer \in {"none", "waiting"} /\ mapOwner \in Threads \cup {None}
  BY DEF Typed, TypeOK
<1>2. CASE writer = "waiting"
  <2>1. PICK t \in Threads : Reads(t)
    BY <1>2
  <2>2. ~Waits(t)
    BY <1>2, <2>1 DEF Caught
  <2>3. at(t) = "idle"
    BY <2>2
  <2>4. ~thread[t].reads
    BY <2>3 DEF Rested
  <2> QED
    BY <2>1, <2>3, <2>4, Zenon DEF Reads
<1>3. CASE writer = "none"
  <2>1. Waits(u) /\ CanRead
    BY <1>3 DEF CanRead
  <2>2. mapOwner \in Threads
    BY <1>1, <1>3, <2>1 DEF Waits, MapIsFree, CanRead
  <2>3. at(mapOwner) \in Freeing
    BY <2>2, Constants DEF Typed, OwnerOK, at
  <2>4. ~Waits(mapOwner) /\ at(mapOwner) # "idle"
    BY <1>3, <2>3 DEF Waits, Freeing, CanRead
  <2> QED
    BY <2>2, <2>4
<1> QED
  BY <1>1, <1>2, <1>3

(* HaltsOnlyByEditing: the lock of the map and the lock of the book bring  *)
(* all threads to a halt only when the book's editor waits, with any       *)
(* number of workers: whoever owns the map is ending a call, which only    *)
(* the editor can keep waiting.                                            *)
THEOREM HaltNeedsEditor == Spec => []HaltsOnlyByEditing
<1>1. Init => Typed /\ Rested
  BY InitTyped DEF Init, Idle, Handling, Rested, at
<1>2. Typed /\ Rested /\ [Next]_vars => (Typed /\ Rested)'
  BY StepTyped, StepRested
<1>3. Typed /\ Rested => HaltsOnlyByEditing
  BY RestedHalts
<1> QED
  BY <1>1, <1>2, <1>3, PTL DEF Spec

-----------------------------------------------------------------------------
(* Managers.  t serves an INVITE of c, be it that it ends another call in  *)
(* the middle of it.                                                       *)
Serves(t, c) ==
    /\ thread[t].call = c
    /\ at(t) \in Inviting \cup {"find", "scan"} \/ (mapOwner = t /\ t # Timer)

(* A call whose INVITE was not repeated is served by one thread, until it  *)
(* is in the map; managers that call or are dialled are disturbed.         *)
Known ==
    \A c \in Calls :
        /\ "invite" \notin handled[c] => inserted[c] = 0 /\ \A t \in Threads : ~Serves(t, c)
        /\ "invite" \in handled[c] => ManagerSet \cap {scene.from[c], scene.to[c]} \subseteq disturbed
        /\ "repeat" \notin handled[c] =>
              \A t \in Threads : Serves(t, c) =>
                  inserted[c] = 0 /\ \A u \in Threads : Serves(u, c) => u = t

(* A manager that is not disturbed is there, and no call that uses it was  *)
(* repeated.                                                               *)
Unrepeated ==
    \A m \in ManagerSet \ disturbed :
        /\ m \in book /\ status[m] # "offline"
        /\ \A c \in Calls : _call_map[c] # None /\ _call_map[c].called = m => "repeat" \notin handled[c]
        /\ \A t \in Threads :
              at(t) \in Inviting /\ thread[t].device = m => "repeat" \notin handled[thread[t].call]

(* Who has no device yet, and who ends another call has no manager. *)
DeviceOK(t, s, owner) ==
    /\ s.at \in {"idle", "find"} => s.device = None
    /\ s.at = "leave_others" \/ (owner = t /\ t # Timer) => s.device \notin ManagerSet

Roles == Known /\ Unrepeated /\ \A t \in Threads : DeviceOK(t, thread[t], mapOwner)

(* InUse by its parts: the calls, and the threads. *)
ByCall(m, c) ==
    /\ _call_map[c] # None /\ _call_map[c].called = m
    /\ ~ \E t \in Threads : mapOwner = t /\ at(t) = "free_caller" /\ thread[t].record.call = c
ByThread(m, t) ==
    \/ thread[t].device = m /\ at(t) \in Inviting
    \/ at(t) = "free_called" /\ mapOwner # t /\ thread[t].record.called = m

Used(m) == (\E c \in Calls : ByCall(m, c)) \/ (\E t \in Threads : ByThread(m, t))
Sole(m) ==
    /\ \A c, d \in Calls : ByCall(m, c) /\ ByCall(m, d) => c = d
    /\ \A t, u \in Threads : ByThread(m, t) /\ ByThread(m, u) => t = u
    /\ \A c \in Calls, t \in Threads : ~(ByCall(m, c) /\ ByThread(m, t))
FitOf(m) ==
    /\ Sole(m)
    /\ Used(m) => status[m] = "busy"
    /\ running /\ status[m] = "busy" => Used(m)
Fit == \A m \in ManagerSet \ disturbed : FitOf(m)

MInv == IInv /\ Roles /\ Fit

LEMMA InitManagers == Init => Roles /\ Fit
<1> SUFFICES ASSUME Init PROVE Roles /\ Fit
  OBVIOUS
<1>1. \A t \in Threads : /\ thread[t].at = "idle" /\ thread[t].device = None
                         /\ thread[t].call = None
  BY DEF Init, Idle, Handling
<1>2. \A t \in Threads : at(t) = "idle"
  BY <1>1 DEF at
<1>3. Known
  BY <1>2, Constants DEF Init, Known, Serves, Inviting
<1>4. Unrepeated
  BY <1>2, Constants DEF Init, Unrepeated, Inviting
<1>5. \A t \in Threads : DeviceOK(t, thread[t], mapOwner)
  BY <1>1, Constants DEF Init, DeviceOK
<1>6. ASSUME NEW m \in ManagerSet PROVE FitOf(m)
  <2>1. status[m] = "online" /\ \A c \in Calls : ~ByCall(m, c)
    BY Constants DEF Init, ByCall
  <2>2. \A t \in Threads : ~ByThread(m, t)
    BY <1>2 DEF ByThread, Inviting
  <2> QED
    BY <2>1, <2>2 DEF FitOf, Sole, Used
<1> QED
  BY <1>3, <1>4, <1>5, <1>6 DEF Roles, Fit

(* A call that is known was invited. *)
LEMMA Invited ==
    ASSUME IInv, Known, NEW c \in Calls
    PROVE  /\ _call_map[c] # None =>
                  /\ "invite" \in handled[c]
                  /\ \A t \in Threads : Serves(t, c) => "repeat" \in handled[c]
           /\ \A t \in Threads : Serves(t, c) => "invite" \in handled[c]
           /\ \A t \in Threads : thread[t].record # None /\ thread[t].record.call = c
                  => "invite" \in handled[c]
           /\ "invite" \in handled[c] =>
                  ManagerSet \cap {scene.from[c], scene.to[c]} \subseteq disturbed
<1>1. inserted[c] \in Nat
  BY DEF IInv, Typed, TypeOK
<1>2. _call_map[c] # None => inserted[c] # 0
  BY <1>1 DEF IInv, Numbered
<1>3. \A t \in Threads : thread[t].record # None /\ thread[t].record.call = c => inserted[c] # 0
  BY <1>1 DEF IInv, Numbered
<1> QED
  BY <1>2, <1>3 DEF Known

(* The frame: a step of one thread that begins no INVITE and no call.      *)
LEMMA RolesKept ==
    ASSUME Typed, Roles, NEW t \in Threads, NEW s, thread' = [thread EXCEPT ![t] = s],
           UNCHANGED <<scene, inserted, handled, book>>, disturbed \subseteq disturbed',
           \A u \in Threads \ {t} : mapOwner' = u <=> mapOwner = u,
           \A c \in Calls : Serves(t, c)' => Serves(t, c),
           \A m \in ManagerSet \ disturbed' : status'[m] # "offline",
           \A c \in Calls : _call_map'[c] # None =>
               _call_map[c] # None /\ _call_map'[c].called = _call_map[c].called,
           s.at \in Inviting /\ s.device \in ManagerSet \ disturbed' => "repeat" \notin handled[s.call],
           DeviceOK(t, s, mapOwner')
    PROVE  Roles'
<1>1. thread \in [Threads -> ThreadStates]
  BY TypeParts DEF Typed
<1>2. \A u \in Threads \ {t} : thread'[u] = thread[u]
  BY <1>1
<1>3. \A u \in Threads, c \in Calls : Serves(u, c)' => Serves(u, c)
  BY <1>2 DEF Serves, at
<1>4. Known'
  BY <1>3 DEF Roles, Known
<1>5. Unrepeated'
  <2> SUFFICES ASSUME NEW m \in ManagerSet \ disturbed' PROVE
          /\ m \in book' /\ status'[m] # "offline"
          /\ \A c \in Calls : _call_map'[c] # None /\ _call_map'[c].called = m => "repeat" \notin handled'[c]
          /\ \A u \in Threads :
              thread'[u].at \in Inviting /\ thread'[u].device = m => "repeat" \notin handled'[thread'[u].call]
    BY DEF Unrepeated, at
  <2>1. m \in ManagerSet \ disturbed
    OBVIOUS
  <2>2. thread'[t] = s
    BY <1>1
  <2>3. ASSUME NEW u \in Threads, thread'[u].at \in Inviting, thread'[u].device = m
        PROVE  "repeat" \notin handled'[thread'[u].call]
    <3>1. CASE u = t
      BY <2>2, <2>3, <3>1
    <3>2. CASE u # t
      BY <1>2, <2>1, <2>3, <3>2 DEF Roles, Unrepeated, at
    <3> QED
      BY <3>1, <3>2
  <2> QED
    BY <2>1, <2>3 DEF Roles, Unrepeated
<1>6. \A u \in Threads : DeviceOK(u, thread'[u], mapOwner')
  <2>1. thread'[t] = s
    BY <1>1
  <2> QED
    BY <1>2, <2>1 DEF Roles, DeviceOK
<1> QED
  BY <1>4, <1>5, <1>6 DEF Roles

(* The steps of an INVITE up to the map, but for the first. *)
LEMMA InvitingRoles ==
    ASSUME IInv, Roles, NEW t \in Threads,
           Take(t) \/ Skip(t) \/ Start(t) \/ GiveUp(t) \/ TakeCaller(t) \/ TakeCalled(t)
    PROVE  Roles'
<1> DEFINE s == thread'[t]
<1>1. /\ thread \in [Threads -> ThreadStates] /\ thread[t] \in ThreadStates
      /\ status \in [Devices -> {"offline", "online", "busy"}] /\ SharedOK
      /\ at(t) \in Inviting \cup {"scan"} /\ at(t) \notin Freeing /\ ThreadOK(thread[t])
  BY TypeParts DEF IInv, Typed, SharedOK, Take, Skip, Start, GiveUp, TakeCaller, TakeCalled,
     Inviting, Freeing
<1>2. mapOwner # t
  BY <1>1, OnlyFreeingOwns DEF IInv
<1>3. /\ UNCHANGED <<scene, inserted, handled, book, mapOwner, _call_map>>
      /\ disturbed \subseteq disturbed'
  BY DEF Take, Skip, Start, GiveUp, TakeCaller, TakeCalled
<1>4. /\ thread' = [thread EXCEPT ![t] = s]
      /\ s.at \in Inviting \cup {"scan", "idle"}
      /\ s = Idle \/ (s.call = thread[t].call /\ (s.device = thread[t].device \/ s.at = "scan"))
  <2>1. CASE Take(t) \/ TakeCaller(t) \/ TakeCalled(t)
    <3>1. \E step \in Inviting : thread' = [thread EXCEPT ![t].at = step]
      BY <2>1 DEF Take, TakeCaller, TakeCalled, Goto, Inviting
    <3> QED
      BY <1>1, <3>1 DEF ThreadStates
  <2>2. CASE Skip(t) \/ GiveUp(t)
    <3>1. \/ thread' = [thread EXCEPT ![t] = Idle]
          \/ at(t) = "scan" /\ \E d : thread' = [thread EXCEPT ![t].device = d]
      BY <1>1, <2>2 DEF Skip, GiveUp
    <3>2. Idle.at = "idle"
      BY DEF Idle, Handling
    <3> QED
      BY <1>1, <3>1, <3>2 DEF ThreadStates, at
  <2>3. CASE Start(t)
    <3>1. \/ thread' = [thread EXCEPT ![t] = Idle]
          \/ \E step \in Inviting : thread' = [thread EXCEPT ![t].at = step]
      BY <1>1, <2>3 DEF Start, Inviting
    <3>2. Idle.at = "idle"
      BY DEF Idle, Handling
    <3> QED
      BY <1>1, <3>1, <3>2 DEF ThreadStates
  <2> QED
    BY <2>1, <2>2, <2>3
<1>5. /\ Idle.at = "idle" /\ Idle.device = None /\ Idle.call = None
      /\ None \notin ManagerSet /\ None \notin Calls
  BY Constants DEF Idle, Handling
<1>6. \A c \in Calls : Serves(t, c)' => Serves(t, c)
  BY <1>1, <1>2, <1>3, <1>4, <1>5 DEF Serves, at, Inviting
<1>7. thread[t].call \in Calls /\ (at(t) # "scan" => thread[t].device \in Devices)
      /\ (at(t) = "scan" => thread[t].device \in ManagerSet)
  BY <1>1 DEF ThreadOK, at, Inviting
<1>8. \A m \in ManagerSet \ disturbed' : status'[m] # "offline"
  <2>1. \A m \in ManagerSet \ disturbed' : status[m] # "offline" /\ m \in Devices
    BY <1>3, Constants DEF Roles, Unrepeated
  <2>2. \E d : status' = set_idle_status(d) \/ status' = set_busy_status(d) \/ status' = status
    BY DEF Take, Skip, Start, GiveUp, TakeCaller, TakeCalled
  <2> QED
    BY <1>1, <2>1, <2>2 DEF set_idle_status, set_busy_status
<1>9. s.at \in Inviting /\ s.device \in ManagerSet \ disturbed' => "repeat" \notin handled[s.call]
  <2> SUFFICES ASSUME s.at \in Inviting, s.device \in ManagerSet \ disturbed'
               PROVE  "repeat" \notin handled[s.call]
    OBVIOUS
  <2>1. s.call = thread[t].call /\ s.device = thread[t].device
    BY <1>4, <1>5 DEF Inviting
  <2>2. CASE Take(t)
    BY <2>1, <2>2 DEF Take
  <2>3. CASE ~Take(t) /\ at(t) \in Inviting
    BY <1>3, <2>1, <2>3 DEF Roles, Unrepeated
  <2>4. CASE ~Take(t) /\ at(t) \notin Inviting
    <3>1. Skip(t)
      BY <2>4 DEF Start, GiveUp, TakeCaller, TakeCalled, Inviting
    <3>2. s = Idle \/ s.at = "scan"
      BY <1>1, <3>1 DEF Skip, at, ThreadStates
    <3> QED
      BY <1>5, <3>2 DEF Inviting
  <2> QED
    BY <2>2, <2>3, <2>4
<1>10. DeviceOK(t, s, mapOwner')
  <2>1. s.at = "leave_others" => Start(t) /\ s.device \notin ManagerSet
    BY <1>1, <1>5 DEF Take, Skip, Start, GiveUp, TakeCaller, TakeCalled, Goto, ThreadStates, at
  <2>2. s.at = "idle" => s = Idle
    BY <1>1, <1>4 DEF Take, Skip, Start, GiveUp, TakeCaller, TakeCalled, Goto, ThreadStates, at
  <2> QED
    BY <1>2, <1>3, <1>4, <1>5, <2>1, <2>2 DEF DeviceOK, Inviting
<1>11. \A u \in Threads \ {t} : mapOwner' = u <=> mapOwner = u
  BY <1>3
<1> QED
  BY <1>3, <1>4, <1>6, <1>8, <1>9, <1>10, <1>11, RolesKept DEF IInv

(* A call that has a manager already was repeated. *)
LEMMA FindCallRoles ==
    ASSUME IInv, Roles, NEW t \in Threads, FindCall(t)
    PROVE  Roles'
<1> DEFINE s == thread'[t]
<1>1. /\ thread \in [Threads -> ThreadStates] /\ thread[t] \in ThreadStates
      /\ at(t) = "find" /\ ThreadOK(thread[t]) /\ mapOwner = None
  BY TypeParts DEF IInv, Typed, FindCall, MapIsFree
<1>2. /\ UNCHANGED <<scene, inserted, handled, book, mapOwner, _call_map, disturbed, status>>
      /\ thread' = [thread EXCEPT ![t] = s]
      /\ s.at \in {"init", "scan"} /\ s.call = thread[t].call
      /\ s.at = "init" => _call_map[thread[t].call] # None /\ s.device = _call_map[thread[t].call].called
  BY <1>1 DEF FindCall, ThreadStates
<1>3. thread[t].call \in Calls /\ Serves(t, thread[t].call)
  BY <1>1 DEF ThreadOK, at, Serves
<1>4. s.at \in Inviting /\ s.device \in ManagerSet \ disturbed' => "repeat" \notin handled[s.call]
  BY <1>2, <1>3 DEF Roles, Unrepeated, Inviting
<1>5. \A c \in Calls : Serves(t, c)' => Serves(t, c)
  BY <1>1, <1>2 DEF Serves, at
<1>6. DeviceOK(t, s, mapOwner')
  BY <1>1, <1>2, Constants DEF DeviceOK
<1>7. \A m \in ManagerSet \ disturbed' : status'[m] # "offline"
  BY <1>2 DEF Roles, Unrepeated
<1> QED
  BY <1>2, <1>4, <1>5, <1>6, <1>7, RolesKept DEF IInv

(* The ends of calls. *)
LEMMA LeaveOthersRoles ==
    ASSUME IInv, Roles, NEW t \in Threads, LeaveOthers(t)
    PROVE  Roles'
<1> DEFINE s == thread'[t]
<1>1. /\ thread \in [Threads -> ThreadStates] /\ thread[t] \in ThreadStates
      /\ at(t) = "leave_others" /\ mapOwner = None
      /\ thread[t].device \notin ManagerSet
  BY TypeParts DEF IInv, Typed, LeaveOthers, MapIsFree, Roles, DeviceOK, at
<1>2. /\ UNCHANGED <<scene, inserted, handled, book, _call_map, disturbed, status>>
      /\ thread' = [thread EXCEPT ![t] = s]
      /\ s.at \in {"take_caller", "free_called"}
      /\ s.call = thread[t].call /\ s.device = thread[t].device
      /\ mapOwner' \in {None, t}
  BY <1>1 DEF LeaveOthers, Ending, Goto, ThreadStates
<1>3. \A c \in Calls : Serves(t, c)' => Serves(t, c)
  BY <1>1, <1>2 DEF Serves, at, Inviting
<1>4. DeviceOK(t, s, mapOwner')
  BY <1>1, <1>2 DEF DeviceOK
<1>5. \A u \in Threads \ {t} : mapOwner' = u <=> mapOwner = u
  BY <1>1, <1>2, Constants
<1>6. \A m \in ManagerSet \ disturbed' : status'[m] # "offline"
  BY <1>2 DEF Roles, Unrepeated
<1> QED
  BY <1>1, <1>2, <1>3, <1>4, <1>5, <1>6, RolesKept DEF IInv

LEMMA ExpireRoles ==
    ASSUME IInv, Roles, NEW c \in Calls, Expire(c)
    PROVE  Roles'
<1> DEFINE s == thread'[Timer]
<1>1. thread \in [Threads -> ThreadStates] /\ mapOwner = None /\ Timer \in Threads
  BY TypeParts, Constants DEF IInv, Typed, Expire, MapIsFree
<1>2. /\ UNCHANGED <<scene, inserted, handled, book, _call_map, disturbed, status>>
      /\ thread' = [thread EXCEPT ![Timer] = s]
      /\ s.at = "free_called" /\ s.call = None /\ mapOwner' = Timer
  BY <1>1 DEF Expire, Ending, Idle, Handling
<1>3. \A d \in Calls : ~Serves(Timer, d)'
  BY <1>2, Constants DEF Serves
<1>4. DeviceOK(Timer, s, mapOwner') /\ s.at \notin Inviting
  BY <1>2 DEF DeviceOK, Inviting
<1>5. \A u \in Threads \ {Timer} : mapOwner' = u <=> mapOwner = u
  BY <1>1, <1>2, Constants
<1>6. \A m \in ManagerSet \ disturbed' : status'[m] # "offline"
  BY <1>2 DEF Roles, Unrepeated
<1> QED
  BY <1>1, <1>2, <1>3, <1>4, <1>5, <1>6, RolesKept DEF IInv

LEMMA EndingRoles ==
    ASSUME IInv, Roles, NEW t \in Threads, EraseRecord(t) \/ FreeCalled(t) \/ FreeCaller(t)
    PROVE  Roles'
<1> DEFINE s == thread'[t]
<1>1. /\ thread \in [Threads -> ThreadStates] /\ thread[t] \in ThreadStates /\ SharedOK
      /\ at(t) \in {"erase", "free_called", "free_caller"} /\ ThreadOK(thread[t])
      /\ at(t) = "erase" => mapOwner # t
  BY TypeParts, Constants DEF IInv, Typed, EraseRecord, FreeCalled, FreeCaller, MapIsFree
<1>2. UNCHANGED <<scene, inserted, handled, book, disturbed>>
  BY DEF EraseRecord, FreeCalled, FreeCaller
<1>3. mapOwner' = mapOwner \/ (mapOwner = t /\ mapOwner' = None)
  BY DEF EraseRecord, FreeCalled, FreeCaller
<1>4. /\ thread' = [thread EXCEPT ![t] = s]
      /\ \/ s = Idle /\ mapOwner' # t
         \/ /\ s.at \in Freeing /\ s.call = thread[t].call /\ s.device = thread[t].device
            /\ mapOwner' = mapOwner
         \/ /\ s.at = "take_caller" /\ s.call = thread[t].call /\ s.device = thread[t].device
            /\ mapOwner = t /\ mapOwner' = None /\ t # Timer
  BY <1>1, Constants DEF EraseRecord, FreeCalled, FreeCaller, Goto, Ending, Handling, ThreadStates,
     Freeing
<1>5. /\ Idle.at = "idle" /\ Idle.device = None /\ Idle.call = None
      /\ None \notin ManagerSet /\ None \notin Calls /\ None # t
  BY Constants DEF Idle, Handling
<1>6. \A c \in Calls : Serves(t, c)' => Serves(t, c)
  BY <1>1, <1>4, <1>5 DEF Serves, at, Inviting, Freeing
<1>7. DeviceOK(t, thread[t], mapOwner)
  BY DEF Roles
<1>8. DeviceOK(t, s, mapOwner')
  BY <1>1, <1>4, <1>5, <1>7 DEF DeviceOK, Freeing
<1>9. s.at \in Inviting => s.device \notin ManagerSet
  BY <1>4, <1>5, <1>7 DEF DeviceOK, Freeing, Inviting
<1>10. \A c \in Calls : _call_map'[c] # None =>
           _call_map[c] # None /\ _call_map'[c].called = _call_map[c].called
  BY <1>1 DEF SharedOK, EraseRecord, FreeCalled, FreeCaller
<1>11. \A m \in ManagerSet \ disturbed' : status'[m] # "offline"
  <2>1. \A m \in ManagerSet \ disturbed' : status[m] # "offline" /\ m \in Devices
    BY <1>2, Constants DEF Roles, Unrepeated
  <2>2. \E d : status' = set_idle_status(d) \/ status' = status
    BY DEF EraseRecord, FreeCalled, FreeCaller
  <2> QED
    BY <1>1, <2>1, <2>2 DEF SharedOK, set_idle_status
<1>12. \A u \in Threads \ {t} : mapOwner' = u <=> mapOwner = u
  BY <1>3, Constants
<1> QED
  BY <1>2, <1>4, <1>6, <1>8, <1>9, <1>10, <1>11, <1>12, RolesKept DEF IInv

(* The first step of a message. *)
LEMMA InviteRoles ==
    ASSUME IInv, Roles, NEW t \in Workers, NEW c \in Calls, Invite(t, c)
    PROVE  Roles'
<1> DEFINE s == thread'[t]
<1>1. /\ thread \in [Threads -> ThreadStates] /\ t \in Threads
      /\ at(t) = "idle" /\ mapOwner # t /\ thread[t].device = None
      /\ handled \in [Calls -> SUBSET {"invite", "repeat", "forwarded", "100", "200",
                                       "refused", "bye"}]
  <2>1. t \in Threads /\ at(t) = "idle" /\ at(t) \notin Freeing
    BY Constants DEF Invite, Freeing
  <2> QED
    BY <2>1, OnlyFreeingOwns DEF IInv, Typed, TypeOK, Roles, DeviceOK, at
<1>2. /\ UNCHANGED <<scene, inserted, book, mapOwner, _call_map, status>>
      /\ thread' = [thread EXCEPT ![t] = s]
      /\ \/ s.at = "idle" /\ s.device = None /\ s.call = None
         \/ s.at = "find" /\ s.device = None /\ s.call = c
         \/ s.at = "init" /\ s.device = scene.to[c] /\ s.call = c
  BY <1>1 DEF Invite, Handling, Idle
<1>3. /\ "invite" \in handled'[c] /\ handled[c] \subseteq handled'[c]
      /\ "invite" \in handled[c] => "repeat" \in handled'[c]
      /\ "invite" \notin handled[c] => handled'[c] = handled[c] \cup {"invite"}
      /\ \A d \in Calls \ {c} : handled'[d] = handled[d]
  BY <1>1 DEF Invite
<1>4. /\ disturbed \subseteq disturbed'
      /\ ManagerSet \cap {scene.from[c], scene.to[c]} \subseteq disturbed'
      /\ "invite" \in handled[c] => UsedBy(c) \subseteq disturbed'
  BY DEF Invite
<1>5. \A u \in Threads \ {t} : thread'[u] = thread[u]
  BY <1>1, <1>2
<1>6. \A u \in Threads, d \in Calls : Serves(u, d)' => Serves(u, d) \/ (u = t /\ d = c)
  BY <1>1, <1>2, <1>5, Constants DEF Serves, at, Inviting
<1>7. Known'
  <2> SUFFICES ASSUME NEW d \in Calls PROVE
        /\ "invite" \notin handled'[d] => inserted'[d] = 0 /\ \A u \in Threads : ~Serves(u, d)'
        /\ "invite" \in handled'[d] =>
              ManagerSet \cap {scene'.from[d], scene'.to[d]} \subseteq disturbed'
        /\ "repeat" \notin handled'[d] =>
              \A u \in Threads : Serves(u, d)' =>
                  inserted'[d] = 0 /\ \A v \in Threads : Serves(v, d)' => v = u
    BY DEF Known
  <2>1. CASE d = c
    BY <1>2, <1>3, <1>4, <1>6, <2>1 DEF Roles, Known
  <2>2. CASE d # c
    BY <1>2, <1>3, <1>4, <1>6, <2>2 DEF Roles, Known
  <2> QED
    BY <2>1, <2>2
<1>8. Unrepeated'
  <2> SUFFICES ASSUME NEW m \in ManagerSet \ disturbed' PROVE
          /\ m \in book' /\ status'[m] # "offline"
          /\ \A d \in Calls : _call_map'[d] # None /\ _call_map'[d].called = m => "repeat" \notin handled'[d]
          /\ \A u \in Threads :
              thread'[u].at \in Inviting /\ thread'[u].device = m => "repeat" \notin handled'[thread'[u].call]
    BY DEF Unrepeated, at
  <2>1. m \in ManagerSet \ disturbed /\ ("invite" \in handled[c] => m \notin UsedBy(c))
        /\ m # scene.to[c]
    BY <1>4
  <2>2. ASSUME NEW d \in Calls, _call_map'[d] # None, _call_map'[d].called = m
        PROVE  "repeat" \notin handled'[d]
    <3>1. d # c \/ "invite" \notin handled[c]
      BY <1>2, <2>1, <2>2 DEF UsedBy
    <3>2. "repeat" \notin handled[d]
      BY <1>2, <2>1, <2>2 DEF Roles, Unrepeated
    <3> QED
      BY <1>3, <3>1, <3>2
  <2>3. ASSUME NEW u \in Threads, thread'[u].at \in Inviting, thread'[u].device = m
        PROVE  "repeat" \notin handled'[thread'[u].call]
    <3>1. u # t
      BY <1>2, <2>1, <2>3, Constants DEF Inviting
    <3>2. thread'[u] = thread[u] /\ thread[u].call \in Calls
      BY <1>5, <2>3, <3>1 DEF IInv, Typed, ThreadOK
    <3>3. "repeat" \notin handled[thread[u].call]
      BY <2>1, <2>3, <3>2 DEF Roles, Unrepeated, at
    <3>4. thread[u].call = c => "invite" \notin handled[c]
      BY <2>1, <2>3, <3>2 DEF UsedBy
    <3> QED
      BY <1>3, <3>2, <3>3, <3>4
  <2> QED
    BY <1>2, <2>1, <2>2, <2>3 DEF Roles, Unrepeated
<1>9. \A u \in Threads : DeviceOK(u, thread'[u], mapOwner')
  <2>1. DeviceOK(t, s, mapOwner')
    BY <1>1, <1>2 DEF DeviceOK
  <2> QED
    BY <1>2, <1>5, <2>1 DEF Roles, DeviceOK
<1> QED
  BY <1>7, <1>8, <1>9 DEF Roles

(* Messages other than INVITE touch only what they are themselves. *)
LEMMA MessageRoles ==
    ASSUME IInv, Roles, NEW t \in Workers, NEW c \in Calls,
           Refuse(t, c) \/ HangUp(t, c) \/ \E kind \in {"100", "200"} : Answer(t, c, kind)
    PROVE  Roles'
<1> DEFINE s == thread'[t]
<1>1. /\ thread \in [Threads -> ThreadStates] /\ t \in Threads
      /\ at(t) = "idle" /\ mapOwner # t /\ SharedOK
  <2>1. t \in Threads /\ at(t) = "idle" /\ at(t) \notin Freeing
    BY Constants DEF Refuse, HangUp, Answer, Freeing
  <2> QED
    BY <2>1, OnlyFreeingOwns, TypeParts DEF IInv, Typed
<1>2. UNCHANGED <<scene, inserted, book, mapOwner, status, disturbed>>
  BY DEF Refuse, HangUp, Answer
<1>3. /\ thread' = [thread EXCEPT ![t] = s]
      /\ s = thread[t] \/ (s.at = "erase" /\ s.device = None)
  BY <1>1 DEF Refuse, HangUp, Answer, Handling
<1>4. \A d \in Calls : /\ "invite" \in handled'[d] <=> "invite" \in handled[d]
                       /\ "repeat" \in handled'[d] <=> "repeat" \in handled[d]
  <2>1. \E kind \in {"100", "200", "refused", "bye"} :
            handled' = [handled EXCEPT ![c] = @ \cup {kind}]
    BY DEF Refuse, HangUp, Answer
  <2> QED
    BY <1>1, <2>1 DEF SharedOK
<1>5. \A d \in Calls : _call_map'[d] # None =>
          _call_map[d] # None /\ _call_map'[d].called = _call_map[d].called
  <2>1. \/ _call_map' = _call_map
        \/ /\ _call_map[c] # None
           /\ \/ _call_map' = [_call_map EXCEPT ![c] = [@ EXCEPT !.trying = TRUE]]
              \/ _call_map' = [_call_map EXCEPT ![c] = [@ EXCEPT !.start = TRUE]]
    BY DEF Refuse, HangUp, Answer
  <2>2. _call_map \in [Calls -> Records \cup {None}]
    BY <1>1 DEF SharedOK
  <2>3. \A r \in Records : /\ [r EXCEPT !.trying = TRUE].called = r.called
                           /\ [r EXCEPT !.start = TRUE].called = r.called
    BY DEF Records
  <2> QED
    BY <2>1, <2>2, <2>3
<1>6. \A u \in Threads \ {t} : thread'[u] = thread[u]
  BY <1>1, <1>3
<1>7. \A u \in Threads, d \in Calls : Serves(u, d)' => Serves(u, d)
  BY <1>1, <1>2, <1>3, <1>6 DEF Serves, at, Inviting
<1>8. Known'
  BY <1>2, <1>4, <1>7 DEF Roles, Known
<1>9. Unrepeated'
  <2> SUFFICES ASSUME NEW m \in ManagerSet \ disturbed PROVE
          /\ m \in book /\ status[m] # "offline"
          /\ \A d \in Calls : _call_map'[d] # None /\ _call_map'[d].called = m => "repeat" \notin handled'[d]
          /\ \A u \in Threads :
              thread'[u].at \in Inviting /\ thread'[u].device = m => "repeat" \notin handled'[thread'[u].call]
    BY <1>2 DEF Unrepeated, at
  <2>1. ASSUME NEW u \in Threads, thread'[u].at \in Inviting, thread'[u].device = m
        PROVE  "repeat" \notin handled'[thread'[u].call]
    <3>1. thread'[u] = thread[u] /\ thread[u].call \in Calls
      BY <1>1, <1>3, <1>6, <2>1 DEF Inviting, IInv, Typed, ThreadOK
    <3> QED
      BY <1>4, <2>1, <3>1 DEF Roles, Unrepeated, at
  <2> QED
    BY <1>4, <1>5, <2>1 DEF Roles, Unrepeated
<1>10. \A u \in Threads : DeviceOK(u, thread'[u], mapOwner')
  <2>1. DeviceOK(t, s, mapOwner')
    BY <1>1, <1>2, <1>3 DEF DeviceOK, Roles
  <2> QED
    BY <1>2, <1>6, <2>1 DEF Roles, DeviceOK
<1> QED
  BY <1>8, <1>9, <1>10 DEF Roles

(* The call enters the map, and its INVITE is done. *)
LEMMA InsertRoles ==
    ASSUME IInv, Roles, NEW t \in Threads, Insert(t)
    PROVE  Roles'
<1> DEFINE s == thread'[t]
           c == thread[t].call
<1>1. /\ thread \in [Threads -> ThreadStates] /\ thread[t] \in ThreadStates /\ SharedOK
      /\ at(t) = "insert" /\ mapOwner = None /\ c \in Calls /\ thread[t].device \in Devices
  BY TypeParts DEF IInv, Typed, Insert, MapIsFree, ThreadOK, at, Inviting
<1>2. /\ UNCHANGED <<scene, book, mapOwner, status, disturbed>>
      /\ \A d \in Calls \ {c} : inserted'[d] = inserted[d]
      /\ \A d \in Calls \ {c} : _call_map'[d] = _call_map[d]
      /\ _call_map[c] # None => _call_map'[c] = _call_map[c]
      /\ _call_map[c] = None => _call_map'[c].called = thread[t].device
  BY <1>1 DEF Insert, SharedOK
<1>3. \A d \in Calls : /\ "invite" \in handled'[d] <=> "invite" \in handled[d]
                       /\ "repeat" \in handled'[d] <=> "repeat" \in handled[d]
  BY <1>1 DEF SharedOK, Insert
<1>4. /\ thread' = [thread EXCEPT ![t] = s]
      /\ \/ s.at = "idle" /\ s.device = None
         \/ s.at = "erase"
  BY <1>1 DEF Insert, ThreadStates, Idle, Handling
<1>5. \A u \in Threads \ {t} : thread'[u] = thread[u]
  BY <1>1, <1>4
<1>6. \A u \in Threads, d \in Calls : Serves(u, d)' => Serves(u, d) /\ u # t
  BY <1>1, <1>2, <1>4, <1>5, Constants DEF Serves, at, Inviting
<1>7. Serves(t, c)
  BY <1>1 DEF Serves, Inviting
<1>8. Known'
  BY <1>2, <1>3, <1>6, <1>7 DEF Roles, Known
<1>9. Unrepeated'
  <2> SUFFICES ASSUME NEW m \in ManagerSet \ disturbed PROVE
          /\ m \in book /\ status[m] # "offline"
          /\ \A d \in Calls : _call_map'[d] # None /\ _call_map'[d].called = m => "repeat" \notin handled'[d]
          /\ \A u \in Threads :
              thread'[u].at \in Inviting /\ thread'[u].device = m => "repeat" \notin handled'[thread'[u].call]
    BY <1>2 DEF Unrepeated, at
  <2>1. ASSUME NEW u \in Threads, thread'[u].at \in Inviting, thread'[u].device = m
        PROVE  "repeat" \notin handled'[thread'[u].call]
    <3>1. thread'[u] = thread[u] /\ thread[u].call \in Calls
      BY <1>4, <1>5, <2>1 DEF Inviting, IInv, Typed, ThreadOK
    <3> QED
      BY <1>3, <2>1, <3>1 DEF Roles, Unrepeated, at
  <2>2. ASSUME NEW d \in Calls, _call_map'[d] # None, _call_map'[d].called = m
        PROVE  "repeat" \notin handled'[d]
    <3>1. CASE d = c /\ _call_map[c] = None
      <4>1. thread[t].device = m
        BY <1>2, <2>2, <3>1
      <4> QED
        BY <1>1, <1>3, <3>1, <4>1 DEF Roles, Unrepeated, Inviting
    <3>2. CASE ~(d = c /\ _call_map[c] = None)
      BY <1>2, <1>3, <2>2, <3>2 DEF Roles, Unrepeated
    <3> QED
      BY <3>1, <3>2
  <2> QED
    BY <2>1, <2>2 DEF Roles, Unrepeated
<1>10. \A u \in Threads : DeviceOK(u, thread'[u], mapOwner')
  <2>1. DeviceOK(t, s, mapOwner')
    BY <1>1, <1>2, <1>4, Constants DEF DeviceOK
  <2> QED
    BY <1>2, <1>5, <2>1 DEF Roles, DeviceOK
<1> QED
  BY <1>8, <1>9, <1>10 DEF Roles

LEMMA QuietRoles ==
    ASSUME IInv, Roles,
           \/ Finit \/ EditorAsks \/ (\E m \in ManagerSet : EditorEdits(m))
           \/ (\E d \in Devices : Unregister(d) \/ Register(d)) \/ UNCHANGED vars
    PROVE  Roles'
<1>1. /\ UNCHANGED <<scene, thread, mapOwner, inserted, handled>>
      /\ disturbed \subseteq disturbed'
      /\ \A c \in Calls : _call_map'[c] # None => _call_map'[c] = _call_map[c]
  BY DEF Finit, EditorAsks, EditorEdits, Unregister, Register, vars
<1>2. \A m \in ManagerSet \ disturbed' : m \in book' /\ status'[m] # "offline"
  <2> SUFFICES ASSUME NEW m \in ManagerSet \ disturbed' PROVE m \in book' /\ status'[m] # "offline"
    OBVIOUS
  <2>1. m \in book /\ status[m] # "offline"
    BY <1>1 DEF Roles, Unrepeated
  <2>2. status \in [Devices -> {"offline", "online", "busy"}] /\ m \in Devices
    BY Constants DEF IInv, Typed, TypeOK
  <2>3. CASE Finit \/ EditorAsks \/ UNCHANGED vars
    BY <2>1, <2>3 DEF Finit, EditorAsks, vars
  <2>4. CASE \E n \in ManagerSet : EditorEdits(n)
    <3>1. PICK n \in ManagerSet : EditorEdits(n)
      BY <2>4
    <3>2. n # m /\ book' \in {book \ {n}, book \cup {n}}
      BY <3>1 DEF EditorEdits
    <3>3. status'[m] = status[m]
      BY <2>2, <3>1, <3>2 DEF EditorEdits
    <3> QED
      BY <2>1, <3>2, <3>3
  <2>5. CASE \E d \in Devices : Unregister(d)
    <3>1. PICK d \in Devices : Unregister(d)
      BY <2>5
    <3>2. d # m /\ book' = book /\ status'[m] = status[m]
      BY <2>2, <3>1 DEF Unregister
    <3> QED
      BY <2>1, <3>2
  <2>6. CASE \E d \in Devices : Register(d)
    BY <2>1, <2>2, <2>6 DEF Register
  <2> QED
    BY <2>3, <2>4, <2>5, <2>6
<1>3. \A u \in Threads, d \in Calls : Serves(u, d)' <=> Serves(u, d)
  BY <1>1 DEF Serves, at
<1>4. Known'
  BY <1>1, <1>3 DEF Roles, Known
<1>5. Unrepeated'
  BY <1>1, <1>2 DEF Roles, Unrepeated, at
<1>6. \A u \in Threads : DeviceOK(u, thread'[u], mapOwner')
  BY <1>1 DEF Roles
<1> QED
  BY <1>4, <1>5, <1>6 DEF Roles

LEMMA StepRoles == IInv /\ Roles /\ [Next]_vars => Roles'
<1> SUFFICES ASSUME IInv, Roles, [Next]_vars PROVE Roles'
  OBVIOUS
<1>1. ASSUME NEW t \in Workers, Receive(t) PROVE Roles'
  BY <1>1, InviteRoles, MessageRoles DEF Receive
<1>2. ASSUME NEW t \in Threads, Proceed(t) PROVE Roles'
  BY <1>2, InvitingRoles, FindCallRoles, LeaveOthersRoles, EndingRoles, InsertRoles DEF Proceed
<1> QED
  BY <1>1, <1>2, ExpireRoles, QuietRoles DEF Next

-----------------------------------------------------------------------------
(* How the uses of a manager change. *)
LEMMA SameUses ==
    ASSUME NEW m, FitOf(m), running' => running, status'[m] = status[m],
           \A c \in Calls : ByCall(m, c)' <=> ByCall(m, c),
           \A t \in Threads : ByThread(m, t)' <=> ByThread(m, t)
    PROVE  FitOf(m)'
<1>1. Sole(m)' <=> Sole(m)
  BY DEF Sole
<1>2. Used(m)' <=> Used(m)
  BY DEF Used
<1> QED
  BY <1>1, <1>2 DEF FitOf

LEMMA UseEnds ==
    ASSUME NEW m, FitOf(m), status'[m] # "busy",
           \A c \in Calls : ByCall(m, c)' => ByCall(m, c),
           \A t \in Threads : ByThread(m, t)' => ByThread(m, t),
           \/ \E c \in Calls : ByCall(m, c) /\ ~ByCall(m, c)'
           \/ \E t \in Threads : ByThread(m, t) /\ ~ByThread(m, t)'
    PROVE  FitOf(m)'
<1>1. Sole(m)
  BY DEF FitOf
<1>2. (\A c \in Calls : ~ByCall(m, c)') /\ (\A t \in Threads : ~ByThread(m, t)')
  BY <1>1 DEF Sole
<1>3. Sole(m)' /\ ~Used(m)'
  BY <1>2 DEF Sole, Used
<1> QED
  BY <1>3 DEF FitOf

(* A handler's step changes its own use at most. *)
LEMMA HandlerUses ==
    ASSUME Typed, NEW t \in Threads, NEW s, at(t) \notin Freeing, s.at \notin Freeing,
           thread' = [thread EXCEPT ![t] = s], UNCHANGED <<mapOwner, _call_map>>, NEW m
    PROVE  /\ \A c \in Calls : ByCall(m, c)' <=> ByCall(m, c)
           /\ \A u \in Threads \ {t} : ByThread(m, u)' <=> ByThread(m, u)
           /\ ByThread(m, t) <=> thread[t].device = m /\ at(t) \in Inviting
           /\ ByThread(m, t)' <=> s.device = m /\ s.at \in Inviting
<1>1. mapOwner # t
  BY OnlyFreeingOwns
<1>2. thread'[t] = s /\ \A u \in Threads \ {t} : thread'[u] = thread[u]
  BY TypeParts DEF Typed
<1> QED
  BY <1>1, <1>2 DEF ByCall, ByThread, at, Freeing

LEMMA HandlerFits ==
    ASSUME Typed, Fit, NEW t \in Threads, NEW s, at(t) \notin Freeing, s.at \notin Freeing,
           thread' = [thread EXCEPT ![t] = s], UNCHANGED <<mapOwner, _call_map, running>>,
           disturbed \subseteq disturbed',
           \A m \in ManagerSet \ disturbed' :
               /\ status'[m] = status[m]
               /\ s.device = m /\ s.at \in Inviting <=> thread[t].device = m /\ at(t) \in Inviting
    PROVE  Fit'
<1> SUFFICES ASSUME NEW m \in ManagerSet \ disturbed' PROVE FitOf(m)'
  BY DEF Fit
<1>1. FitOf(m)
  BY DEF Fit
<1>2. \A u \in Threads : ByThread(m, u)' <=> ByThread(m, u)
  BY HandlerUses
<1>3. \A c \in Calls : ByCall(m, c)' <=> ByCall(m, c)
  BY HandlerUses
<1> QED
  BY <1>1, <1>2, <1>3, SameUses

LEMMA ReceiveFits ==
    ASSUME MInv, NEW t \in Workers, Receive(t)
    PROVE  Fit'
<1>1. PICK c \in Calls : \/ Invite(t, c) \/ Refuse(t, c) \/ HangUp(t, c)
                         \/ \E kind \in {"100", "200"} : Answer(t, c, kind)
  BY DEF Receive
<1> DEFINE s == thread'[t]
<1>2. /\ thread \in [Threads -> ThreadStates] /\ t \in Threads /\ SharedOK /\ Typed
      /\ at(t) = "idle" /\ at(t) \notin Freeing
  BY <1>1, Constants, TypeParts DEF Invite, Refuse, HangUp, Answer, Freeing, MInv, IInv, Typed
<1>3. /\ UNCHANGED <<mapOwner, status, running>> /\ disturbed \subseteq disturbed'
  BY <1>1 DEF Invite, Refuse, HangUp, Answer
<1>4. CASE Invite(t, c)
  <2>1. /\ UNCHANGED _call_map
        /\ thread' = [thread EXCEPT ![t] = s]
        /\ s.at \in {"idle", "find", "init"}
        /\ s.at = "init" => s.device = scene.to[c] \/ s.device = None
    BY <1>2, <1>4 DEF Invite, Handling, Idle
  <2>2. ManagerSet \cap {scene.to[c]} \subseteq disturbed'
    BY <1>4 DEF Invite
  <2> QED
    BY <1>2, <1>3, <2>1, <2>2, HandlerFits, Constants DEF Inviting, Freeing, MInv
<1>5. CASE Refuse(t, c) \/ HangUp(t, c)
  <2>1. UNCHANGED _call_map /\ thread' = [thread EXCEPT ![t] = s] /\ s.at = "erase"
    BY <1>2, <1>5 DEF Refuse, HangUp, Handling
  <2> QED
    BY <1>2, <1>3, <2>1, HandlerFits DEF Inviting, Freeing, MInv
<1>6. CASE \E kind \in {"100", "200"} : Answer(t, c, kind)
  <2>1. UNCHANGED <<thread, disturbed>>
    BY <1>6 DEF Answer
  <2>2. \/ _call_map' = _call_map
        \/ /\ _call_map[c] # None
           /\ \/ _call_map' = [_call_map EXCEPT ![c] = [@ EXCEPT !.trying = TRUE]]
              \/ _call_map' = [_call_map EXCEPT ![c] = [@ EXCEPT !.start = TRUE]]
    BY <1>6 DEF Answer
  <2>3. \A r \in Records : /\ [r EXCEPT !.trying = TRUE] \in Records
                           /\ [r EXCEPT !.start = TRUE] \in Records
                           /\ [r EXCEPT !.trying = TRUE].called = r.called
                           /\ [r EXCEPT !.start = TRUE].called = r.called
    BY DEF Records
  <2>4. \A d \in Calls : /\ _call_map'[d] # None <=> _call_map[d] # None
                         /\ _call_map[d] # None => _call_map'[d].called = _call_map[d].called
    <3>1. _call_map \in [Calls -> Records \cup {None}] /\ None \notin Records
      BY <1>2, Constants DEF SharedOK
    <3>2. CASE _call_map' = _call_map
      BY <3>2
    <3>3. ASSUME NEW r \in Records, r.called = _call_map[c].called, _call_map[c] # None,
                 _call_map' = [_call_map EXCEPT ![c] = r]
          PROVE  \A d \in Calls : /\ _call_map'[d] # None <=> _call_map[d] # None
                                  /\ _call_map[d] # None => _call_map'[d].called = _call_map[d].called
      BY <3>1, <3>3
    <3>4. _call_map[c] # None => _call_map[c] \in Records
      BY <3>1
    <3> QED
      BY <2>2, <2>3, <3>2, <3>3, <3>4
  <2>5. ASSUME NEW m \in ManagerSet \ disturbed PROVE FitOf(m)'
    <3>1. \A d \in Calls : ByCall(m, d)' <=> ByCall(m, d)
      BY <1>3, <2>1, <2>4 DEF ByCall, at
    <3>2. \A u \in Threads : ByThread(m, u)' <=> ByThread(m, u)
      BY <1>3, <2>1 DEF ByThread, at
    <3> QED
      BY <1>3, <3>1, <3>2, SameUses DEF MInv, Fit
  <2> QED
    BY <2>1, <2>5 DEF Fit
<1> QED
  BY <1>1, <1>4, <1>5, <1>6

LEMMA TakeFits ==
    ASSUME MInv, NEW t \in Threads, Take(t)
    PROVE  Fit'
<1> DEFINE s == thread'[t]
           d == thread[t].device
<1>1. /\ thread \in [Threads -> ThreadStates] /\ thread[t] \in ThreadStates /\ SharedOK /\ Typed
      /\ at(t) = "scan" /\ at(t) \notin Freeing /\ d \in Devices
  BY TypeParts, Constants DEF MInv, IInv, Typed, Take, ThreadOK, at, Freeing
<1>2. /\ UNCHANGED <<mapOwner, _call_map, running>> /\ disturbed \subseteq disturbed'
      /\ thread' = [thread EXCEPT ![t] = s] /\ s.at = "init" /\ s.device = d
      /\ status[d] = "online" /\ status' = [status EXCEPT ![d] = "busy"]
  BY <1>1 DEF Take, Goto, set_busy_status, ThreadStates
<1> SUFFICES ASSUME NEW m \in ManagerSet \ disturbed' PROVE FitOf(m)'
  BY DEF Fit
<1>3. FitOf(m)
  BY <1>2 DEF MInv, Fit
<1>4. /\ \A c \in Calls : ByCall(m, c)' <=> ByCall(m, c)
      /\ \A u \in Threads \ {t} : ByThread(m, u)' <=> ByThread(m, u)
      /\ ~ByThread(m, t) /\ (ByThread(m, t)' <=> m = d)
  BY <1>1, <1>2, HandlerUses DEF Freeing, Inviting
<1>5. CASE m = d
  <2>1. ~Used(m)
    BY <1>2, <1>3, <1>5 DEF FitOf
  <2>2. (\A c \in Calls : ~ByCall(m, c)') /\ (\A u \in Threads \ {t} : ~ByThread(m, u)')
    BY <1>4, <2>1 DEF Used
  <2>3. Sole(m)' /\ Used(m)'
    BY <1>4, <1>5, <2>2 DEF Sole, Used
  <2>4. status'[m] = "busy"
    BY <1>1, <1>2, <1>5 DEF SharedOK
  <2> QED
    BY <2>3, <2>4 DEF FitOf
<1>6. CASE m # d
  <2>1. status'[m] = status[m]
    BY <1>1, <1>2, <1>6 DEF SharedOK
  <2>2. \A u \in Threads : ByThread(m, u)' <=> ByThread(m, u)
    BY <1>4, <1>6
  <2> QED
    BY <1>2, <1>3, <1>4, <2>1, <2>2, SameUses
<1> QED
  BY <1>5, <1>6

LEMMA GiveUpFits ==
    ASSUME MInv, NEW t \in Threads, GiveUp(t)
    PROVE  Fit'
<1> DEFINE d == thread[t].device
<1>1. /\ thread \in [Threads -> ThreadStates] /\ SharedOK /\ Typed
      /\ at(t) = "give_up" /\ at(t) \notin Freeing /\ d \in Devices
  BY TypeParts DEF MInv, IInv, Typed, GiveUp, ThreadOK, at, Freeing, Inviting
<1>2. /\ UNCHANGED <<mapOwner, _call_map, running, disturbed>>
      /\ thread' = [thread EXCEPT ![t] = Idle] /\ status' = set_idle_status(d)
  BY DEF GiveUp
<1> SUFFICES ASSUME NEW m \in ManagerSet \ disturbed PROVE FitOf(m)'
  BY <1>2 DEF Fit
<1>3. FitOf(m)
  BY DEF MInv, Fit
<1>4. Idle.at = "idle"
  BY DEF Idle, Handling
<1>5. /\ \A c \in Calls : ByCall(m, c)' <=> ByCall(m, c)
      /\ \A u \in Threads \ {t} : ByThread(m, u)' <=> ByThread(m, u)
      /\ (ByThread(m, t) <=> m = d) /\ ~ByThread(m, t)'
  BY <1>1, <1>2, <1>4, HandlerUses DEF Freeing, Inviting
<1>6. CASE m = d
  <2>1. status[m] = "busy"
    BY <1>3, <1>5, <1>6 DEF FitOf, Used
  <2>2. status'[m] = "online"
    BY <1>1, <1>2, <1>6, <2>1 DEF SharedOK, set_idle_status
  <2> QED
    BY <1>3, <1>5, <1>6, <2>2, UseEnds
<1>7. CASE m # d
  <2>1. status'[m] = status[m]
    BY <1>1, <1>2, <1>7 DEF SharedOK, set_idle_status
  <2>2. \A u \in Threads : ByThread(m, u)' <=> ByThread(m, u)
    BY <1>5, <1>7
  <2> QED
    BY <1>2, <1>3, <1>5, <2>1, <2>2, SameUses
<1> QED
  BY <1>6, <1>7

LEMMA FindCallFits ==
    ASSUME MInv, NEW t \in Threads, FindCall(t)
    PROVE  Fit'
<1> DEFINE s == thread'[t]
           c == thread[t].call
<1>1. /\ thread \in [Threads -> ThreadStates] /\ thread[t] \in ThreadStates /\ Typed
      /\ at(t) = "find" /\ at(t) \notin Freeing /\ c \in Calls
  BY TypeParts DEF MInv, IInv, Typed, FindCall, ThreadOK, at, Freeing
<1>2. /\ UNCHANGED <<mapOwner, _call_map, running, disturbed, status>>
      /\ thread' = [thread EXCEPT ![t] = s]
      /\ s.at \in {"init", "scan"}
      /\ s.at = "init" => _call_map[c] # None /\ s.device = _call_map[c].called
  BY <1>1 DEF FindCall, ThreadStates
<1>3. Serves(t, c)
  BY <1>1 DEF Serves
<1>4. s.at = "init" => s.device \notin ManagerSet \ disturbed
  BY <1>1, <1>2, <1>3, Invited DEF MInv, Roles, Unrepeated
<1> QED
  BY <1>1, <1>2, <1>4, HandlerFits DEF Inviting, Freeing, MInv

LEMMA InvitingFits ==
    ASSUME MInv, NEW t \in Threads, Skip(t) \/ Start(t) \/ TakeCaller(t) \/ TakeCalled(t)
    PROVE  Fit'
<1> DEFINE s == thread'[t]
           d == thread[t].device
           c == thread[t].call
<1>1. /\ thread \in [Threads -> ThreadStates] /\ thread[t] \in ThreadStates /\ Typed /\ SharedOK
      /\ at(t) \in Inviting \cup {"scan"} /\ at(t) \notin Freeing /\ ThreadOK(thread[t])
  BY TypeParts DEF MInv, IInv, Typed, Skip, Start, TakeCaller, TakeCalled, Inviting, Freeing
<1>2. /\ UNCHANGED <<mapOwner, _call_map, running, disturbed>>
      /\ c \in Calls /\ d \in Devices
  BY <1>1, Constants DEF Skip, Start, TakeCaller, TakeCalled, ThreadOK, at, Inviting
<1>3. Idle.at = "idle" /\ Idle.device = None /\ None \notin ManagerSet
  BY Constants DEF Idle, Handling
<1>4. CASE Skip(t)
  <2>1. \/ thread' = [thread EXCEPT ![t] = Idle]
        \/ \E n : thread' = [thread EXCEPT ![t].device = n]
    BY <1>4 DEF Skip
  <2>2. /\ thread' = [thread EXCEPT ![t] = s] /\ s.at \in {"idle", "scan"}
        /\ at(t) = "scan" /\ status' = status
    BY <1>1, <1>3, <1>4, <2>1 DEF Skip, ThreadStates, at
  <2> QED
    BY <1>1, <1>2, <2>2, HandlerFits DEF Inviting, Freeing, MInv
<1>5. CASE Start(t)
  <2>1. \/ thread' = [thread EXCEPT ![t] = Idle] /\ d \notin ManagerSet
        \/ \E step \in Inviting : thread' = [thread EXCEPT ![t].at = step]
    BY <1>1, <1>5 DEF Start, Inviting
  <2>2. /\ thread' = [thread EXCEPT ![t] = s]
        /\ \/ s.at = "idle" /\ d \notin ManagerSet
           \/ s.at \in Inviting /\ s.device = d
        /\ at(t) \in Inviting /\ status' = status
    BY <1>1, <1>3, <1>5, <2>1 DEF Start, ThreadStates, at, Inviting
  <2> QED
    BY <1>1, <1>2, <2>2, HandlerFits DEF Inviting, Freeing, MInv
<1>6. CASE TakeCaller(t)
  <2>1. \E step \in Inviting : thread' = [thread EXCEPT ![t].at = step]
    BY <1>6 DEF TakeCaller, Goto, Inviting
  <2>2. /\ thread' = [thread EXCEPT ![t] = s] /\ s.at \in Inviting /\ s.device = d
        /\ at(t) = "take_caller" /\ status' = set_busy_status(scene.from[c])
    BY <1>1, <1>6, <2>1 DEF TakeCaller, ThreadStates, at
  <2>3. Serves(t, c)
    BY <2>2 DEF Serves, Inviting
  <2>4. ManagerSet \cap {scene.from[c]} \subseteq disturbed
    BY <1>2, <2>3, Invited DEF MInv, Roles
  <2>5. \A m \in ManagerSet \ disturbed : status'[m] = status[m]
    BY <1>1, <2>2, <2>4, Constants DEF set_busy_status, SharedOK
  <2> QED
    BY <1>1, <1>2, <2>2, <2>5, HandlerFits DEF Inviting, Freeing, MInv
<1>7. CASE TakeCalled(t)
  <2>1. thread' = [thread EXCEPT ![t].at = "insert"]
    BY <1>7 DEF TakeCalled, Goto
  <2>2. /\ thread' = [thread EXCEPT ![t] = s] /\ s.at = "insert" /\ s.device = d
        /\ at(t) = "take_called" /\ status' = set_busy_status(d)
    BY <1>1, <1>7, <2>1 DEF TakeCalled, ThreadStates, at
  <2>3. ASSUME NEW m \in ManagerSet \ disturbed PROVE status'[m] = status[m]
    <3>1. m = d => ByThread(m, t)
      BY <2>2 DEF ByThread, Inviting
    <3>2. m = d => status[m] = "busy"
      BY <3>1 DEF MInv, Fit, FitOf, Used
    <3> QED
      BY <1>1, <2>2, <3>2, Constants DEF set_busy_status, SharedOK
  <2> QED
    BY <1>1, <1>2, <2>2, <2>3, HandlerFits DEF Inviting, Freeing, MInv
<1> QED
  BY <1>4, <1>5, <1>6, <1>7

(* The manager passes from the handler to the call. *)
LEMMA InsertFits ==
    ASSUME MInv, NEW t \in Threads, Insert(t)
    PROVE  Fit'
<1> DEFINE s == thread'[t]
           d == thread[t].device
           c == thread[t].call
<1>1. /\ thread \in [Threads -> ThreadStates] /\ thread[t] \in ThreadStates /\ Typed /\ SharedOK
      /\ at(t) = "insert" /\ at(t) \notin Freeing /\ mapOwner = None /\ c \in Calls
  BY TypeParts DEF MInv, IInv, Typed, Insert, MapIsFree, ThreadOK, at, Freeing, Inviting
<1>2. /\ UNCHANGED <<mapOwner, running, disturbed, status>>
      /\ thread' = [thread EXCEPT ![t] = s] /\ s.at \in {"idle", "erase"}
      /\ \A e \in Calls \ {c} : _call_map'[e] = _call_map[e]
      /\ _call_map[c] # None => _call_map'[c] = _call_map[c]
      /\ _call_map[c] = None => _call_map'[c].called = d /\ _call_map'[c] # None
  <2>1. \/ thread' = [thread EXCEPT ![t] = Idle]
        \/ thread' = [thread EXCEPT ![t].at = "erase"]
    BY <1>1 DEF Insert
  <2>2. thread' = [thread EXCEPT ![t] = s] /\ s.at \in {"idle", "erase"}
    BY <1>1, <2>1 DEF ThreadStates, Idle, Handling
  <2>3. _call_map'[c] # None
    <3> DEFINE r == [call |-> c, number |-> inserted[c] + 1,
                     called |-> d, trying |-> FALSE, start |-> FALSE]
    <3>1. d \in Devices /\ inserted[c] \in Nat
      BY <1>1 DEF ThreadOK, Typed, Inviting, at, SharedOK
    <3>2. inserted[c] + 1 \in Nat \ {0}
      BY <3>1
    <3>3. r \in Records
      BY <1>1, <3>1, <3>2 DEF Records
    <3>4. _call_map[c] = None => _call_map' = [_call_map EXCEPT ![c] = r]
      BY DEF Insert
    <3> HIDE DEF r
    <3> QED
      BY <1>1, <3>3, <3>4, Constants DEF Insert, SharedOK
  <2> QED
    BY <1>1, <2>2, <2>3 DEF Insert, SharedOK
<1> SUFFICES ASSUME NEW m \in ManagerSet \ disturbed PROVE FitOf(m)'
  BY <1>2 DEF Fit
<1>3. FitOf(m)
  BY DEF MInv, Fit
<1>4. \A u \in Threads \ {t} : thread'[u] = thread[u]
  BY <1>1, <1>2
<1>5. /\ \A u \in Threads \ {t} : ByThread(m, u)' <=> ByThread(m, u)
      /\ ~ByThread(m, t)' /\ (ByThread(m, t) <=> m = d)
      /\ \A e \in Calls : ByCall(m, e) <=> _call_map[e] # None /\ _call_map[e].called = m
      /\ \A e \in Calls : ByCall(m, e)' <=> _call_map'[e] # None /\ _call_map'[e].called = m
  BY <1>1, <1>2, <1>4, Constants DEF ByThread, ByCall, at, Inviting, Freeing
<1>6. CASE m = d
  <2>1. Serves(t, c) /\ "repeat" \notin handled[c]
    BY <1>1, <1>6 DEF Serves, MInv, Roles, Unrepeated, Inviting
  <2>2. _call_map[c] = None
    BY <1>1, <2>1, Invited DEF MInv, Roles
  <2>3. /\ \A e \in Calls : ~ByCall(m, e)
        /\ \A u \in Threads \ {t} : ~ByThread(m, u)
        /\ status[m] = "busy"
    BY <1>3, <1>5, <1>6 DEF FitOf, Sole, Used
  <2>4. /\ \A e \in Calls : ByCall(m, e)' <=> e = c
        /\ \A u \in Threads : ~ByThread(m, u)'
    BY <1>2, <1>5, <1>6, <2>2, <2>3
  <2>5. Sole(m)' /\ Used(m)'
    BY <1>1, <2>4 DEF Sole, Used
  <2> QED
    BY <1>2, <2>3, <2>5 DEF FitOf
<1>7. CASE m # d
  <2>1. \A e \in Calls : ByCall(m, e)' <=> ByCall(m, e)
    BY <1>2, <1>5, <1>7
  <2>2. \A u \in Threads : ByThread(m, u)' <=> ByThread(m, u)
    BY <1>5, <1>7
  <2> QED
    BY <1>2, <1>3, <2>1, <2>2, SameUses
<1> QED
  BY <1>6, <1>7

(* And from the call to the thread that took the record out of the map. *)
LEMMA EraseRecordFits ==
    ASSUME MInv, NEW t \in Threads, EraseRecord(t)
    PROVE  Fit'
<1> DEFINE s == thread'[t]
           c == thread[t].call
           r == _call_map[c]
<1>1. /\ thread \in [Threads -> ThreadStates] /\ thread[t] \in ThreadStates /\ Typed /\ SharedOK
      /\ at(t) = "erase" /\ mapOwner = None /\ c \in Calls /\ t # None
  BY TypeParts, Constants DEF MInv, IInv, Typed, EraseRecord, MapIsFree, ThreadOK, at
<1>2. /\ UNCHANGED <<mapOwner, running, disturbed, status>>
      /\ thread' = [thread EXCEPT ![t] = s]
      /\ r = None => s.at = "idle" /\ s.device = None
      /\ r # None => s.at = "free_called" /\ s.record = r
      /\ \A e \in Calls \ {c} : _call_map'[e] = _call_map[e]
      /\ _call_map'[c] = None
  BY <1>1 DEF EraseRecord, SharedOK, Idle, Handling, Ending
<1> SUFFICES ASSUME NEW m \in ManagerSet \ disturbed PROVE FitOf(m)'
  BY <1>2 DEF Fit
<1>3. FitOf(m)
  BY DEF MInv, Fit
<1>4. \A u \in Threads \ {t} : thread'[u] = thread[u]
  BY <1>1, <1>2
<1> HIDE DEF s
<1>5. /\ \A u \in Threads \ {t} : ByThread(m, u)' <=> ByThread(m, u)
      /\ ~ByThread(m, t) /\ (ByThread(m, t)' <=> r # None /\ r.called = m)
      /\ \A e \in Calls : ByCall(m, e) <=> _call_map[e] # None /\ _call_map[e].called = m
      /\ \A e \in Calls : ByCall(m, e)' <=> _call_map'[e] # None /\ _call_map'[e].called = m
  BY <1>1, <1>2, <1>4, Constants DEF ByThread, ByCall, at, Inviting, s
<1>6. CASE ByCall(m, c)
  <2>1. /\ \A e \in Calls : ByCall(m, e) <=> e = c
        /\ \A u \in Threads : ~ByThread(m, u)
        /\ status[m] = "busy"
    BY <1>1, <1>3, <1>6 DEF FitOf, Sole, Used
  <2>2. /\ \A e \in Calls : ~ByCall(m, e)'
        /\ \A u \in Threads : ByThread(m, u)' <=> u = t
    BY <1>1, <1>2, <1>5, <1>6, <2>1
  <2>3. Sole(m)' /\ Used(m)'
    BY <2>2 DEF Sole, Used
  <2> QED
    BY <1>2, <2>1, <2>3 DEF FitOf
<1>7. CASE ~ByCall(m, c)
  <2>1. \A e \in Calls : ByCall(m, e)' <=> ByCall(m, e)
    BY <1>1, <1>2, <1>5, <1>7
  <2>2. \A u \in Threads : ByThread(m, u)' <=> ByThread(m, u)
    BY <1>1, <1>5, <1>7
  <2> QED
    BY <1>2, <1>3, <2>1, <2>2, SameUses
<1> QED
  BY <1>6, <1>7

(* A call that ends under the map's lock stays in the map until its called *)
(* device is free.                                                         *)
LEMMA LockedFits ==
    ASSUME MInv, NEW t \in Threads,
           LeaveOthers(t) \/ (t = Timer /\ \E c \in Calls : Expire(c))
    PROVE  Fit'
<1> DEFINE s == thread'[t]
<1>1. /\ thread \in [Threads -> ThreadStates] /\ thread[t] \in ThreadStates
      /\ mapOwner = None /\ t # None /\ at(t) \in {"idle", "leave_others"}
      /\ at(t) = "idle" \/ thread[t].device \notin ManagerSet
  BY TypeParts, Constants DEF MInv, IInv, Typed, LeaveOthers, Expire, MapIsFree, Roles, DeviceOK, at
<1>2. /\ UNCHANGED <<_call_map, running, disturbed, status>>
      /\ thread' = [thread EXCEPT ![t] = s]
      /\ \/ s.at = "take_caller" /\ s.device = thread[t].device /\ mapOwner' = None
            /\ at(t) = "leave_others"
         \/ s.at = "free_called" /\ mapOwner' = t
  BY <1>1 DEF LeaveOthers, Expire, Goto, Ending, ThreadStates
<1> SUFFICES ASSUME NEW m \in ManagerSet \ disturbed PROVE FitOf(m)'
  BY <1>2 DEF Fit
<1>3. \A u \in Threads \ {t} : thread'[u] = thread[u]
  BY <1>1, <1>2
<1>4. \A u \in Threads : ByThread(m, u)' <=> ByThread(m, u)
  <2>1. ~ByThread(m, t) /\ ~ByThread(m, t)'
    BY <1>1, <1>2 DEF ByThread, at, Inviting
  <2>2. ASSUME NEW u \in Threads \ {t} PROVE ByThread(m, u)' <=> ByThread(m, u)
    <3>1. mapOwner # u /\ mapOwner' # u
      BY <1>1, <1>2, <2>2, Constants
    <3> QED
      BY <1>3, <3>1 DEF ByThread, at
  <2> QED
    BY <2>1, <2>2
<1>5. \A c \in Calls : ByCall(m, c)' <=> ByCall(m, c)
  <2>1. ~ \E u \in Threads : mapOwner = u /\ at(u) = "free_caller"
    BY <1>1, Constants
  <2>2. ~ \E u \in Threads : mapOwner' = u /\ at(u)' = "free_caller"
    BY <1>1, <1>2, Constants DEF at
  <2> QED
    BY <1>2, <2>1, <2>2 DEF ByCall, at
<1> QED
  BY <1>2, <1>4, <1>5, SameUses DEF MInv, Fit

LEMMA FreeCalledFits ==
    ASSUME MInv, NEW t \in Threads, FreeCalled(t)
    PROVE  Fit'
<1> DEFINE s == thread'[t]
           r == thread[t].record
<1>1. /\ thread \in [Threads -> ThreadStates] /\ thread[t] \in ThreadStates /\ SharedOK
      /\ at(t) = "free_called" /\ r # None
  BY TypeParts DEF MInv, IInv, Typed, FreeCalled, ThreadOK, at, Freeing
<1>2. /\ UNCHANGED <<_call_map, mapOwner, running, disturbed>>
      /\ thread' = [thread EXCEPT ![t] = s]
      /\ s.at = "free_caller" /\ s.device = thread[t].device /\ s.record = r
      /\ status' = IF r.called \in book THEN set_idle_status(r.called) ELSE status
  BY <1>1 DEF FreeCalled, Goto, ThreadStates
<1>3. r.call \in Calls
  BY <1>1 DEF ThreadStates, Records
<1> SUFFICES ASSUME NEW m \in ManagerSet \ disturbed PROVE FitOf(m)'
  BY <1>2 DEF Fit
<1>4. FitOf(m) /\ m \in book /\ m \in Devices
  BY Constants DEF MInv, Fit, Roles, Unrepeated
<1>5. \A u \in Threads \ {t} : thread'[u] = thread[u]
  BY <1>1, <1>2
<1>6. /\ \A u \in Threads \ {t} : ByThread(m, u)' <=> ByThread(m, u)
      /\ ByThread(m, t) <=> mapOwner # t /\ r.called = m
      /\ ~ByThread(m, t)'
  BY <1>1, <1>2, <1>5 DEF ByThread, at, Inviting
<1>7. ASSUME NEW c \in Calls
      PROVE  ByCall(m, c)' <=> ByCall(m, c) /\ ~(mapOwner = t /\ r.call = c)
  <2> DEFINE Freed == \E u \in Threads :
                 mapOwner = u /\ thread[u].at = "free_caller" /\ thread[u].record.call = c
             Freed2 == \E u \in Threads :
                 mapOwner = u /\ thread'[u].at = "free_caller" /\ thread'[u].record.call = c
  <2>1. thread'[t] = s /\ thread[t].at # "free_caller"
    BY <1>1, <1>2 DEF at
  <2>2. Freed2 <=> Freed \/ (mapOwner = t /\ r.call = c)
    <3>1. CASE mapOwner = t
      BY <1>2, <2>1, <3>1
    <3>2. CASE mapOwner # t
      BY <1>5, <3>2
    <3> QED
      BY <3>1, <3>2
  <2>3. /\ ByCall(m, c) <=> _call_map[c] # None /\ _call_map[c].called = m /\ ~Freed
        /\ ByCall(m, c)' <=> _call_map[c] # None /\ _call_map[c].called = m /\ ~Freed2
    BY <1>2 DEF ByCall, at
  <2> QED
    BY <2>2, <2>3
<1>8. mapOwner = t => (ByCall(m, r.call) <=> r.called = m)
  <2>1. mapOwner = t => _call_map[r.call] = r
    BY <1>1, Constants DEF MInv, IInv, Numbered
  <2> QED
    BY <1>1, <2>1 DEF ByCall
<1>9. CASE r.called = m
  <2>1. \/ \E c \in Calls : ByCall(m, c) /\ ~ByCall(m, c)'
        \/ \E u \in Threads : ByThread(m, u) /\ ~ByThread(m, u)'
    BY <1>3, <1>6, <1>7, <1>8, <1>9
  <2>2. status'[m] # "busy"
    BY <1>1, <1>2, <1>4, <1>9 DEF SharedOK, set_idle_status
  <2>3. \A u \in Threads : ByThread(m, u)' => ByThread(m, u)
    BY <1>6
  <2> QED
    BY <1>4, <1>7, <2>1, <2>2, <2>3, UseEnds
<1>10. CASE r.called # m
  <2>1. \A c \in Calls : ByCall(m, c)' <=> ByCall(m, c)
    BY <1>7, <1>8, <1>10
  <2>2. \A u \in Threads : ByThread(m, u)' <=> ByThread(m, u)
    BY <1>6, <1>10
  <2>3. status'[m] = status[m]
    BY <1>1, <1>2, <1>4, <1>10 DEF SharedOK, set_idle_status
  <2> QED
    BY <1>2, <1>4, <2>1, <2>2, <2>3, SameUses
<1> QED
  BY <1>9, <1>10

LEMMA FreeCallerFits ==
    ASSUME MInv, NEW t \in Threads, FreeCaller(t)
    PROVE  Fit'
<1> DEFINE s == thread'[t]
           r == thread[t].record
<1>1. /\ thread \in [Threads -> ThreadStates] /\ thread[t] \in ThreadStates /\ SharedOK /\ Typed
      /\ at(t) = "free_caller" /\ r # None /\ t # None
  BY TypeParts, Constants DEF MInv, IInv, Typed, FreeCaller, ThreadOK, at, Freeing
<1>2. r.call \in Calls /\ r.call # None
  BY <1>1, Constants DEF ThreadStates, Records
<1>3. /\ UNCHANGED <<running, disturbed>>
      /\ thread' = [thread EXCEPT ![t] = s]
      /\ s.at = "idle" \/ (s.at = "take_caller" /\ s.device = thread[t].device /\ mapOwner = t /\ t # Timer)
      /\ mapOwner' = IF mapOwner = t THEN None ELSE mapOwner
      /\ _call_map' = IF mapOwner = t THEN [_call_map EXCEPT ![r.call] = None] ELSE _call_map
      /\ \/ status' = status
         \/ status' = set_idle_status(scene.from[r.call])
  BY <1>1 DEF FreeCaller, Handling, Idle
<1>4. ManagerSet \cap {scene.from[r.call]} \subseteq disturbed
  BY <1>1, <1>2, Invited DEF MInv, Roles
<1> SUFFICES ASSUME NEW m \in ManagerSet \ disturbed PROVE FitOf(m)'
  BY <1>3 DEF Fit
<1>5. status'[m] = status[m]
  BY <1>1, <1>3, <1>4, Constants DEF SharedOK, set_idle_status
<1>6. \A u \in Threads \ {t} : thread'[u] = thread[u]
  BY <1>1, <1>3
<1>7. \A u \in Threads \ {t} : mapOwner' = u <=> mapOwner = u
  BY <1>3, Constants
<1>8. \A u \in Threads : ByThread(m, u)' <=> ByThread(m, u)
  <2>1. mapOwner = t /\ t # Timer => thread[t].device \notin ManagerSet
    BY DEF MInv, Roles, DeviceOK
  <2>2. s.at = "idle" \/ (s.at = "take_caller" /\ s.device \notin ManagerSet)
    BY <1>3, <2>1
  <2>3. ~ByThread(m, t) /\ ~ByThread(m, t)'
    <3>1. s.at = "idle" \/ s.device # m
      BY <2>2
    <3> QED
      BY <1>1, <2>2, <3>1 DEF ByThread, at, Inviting
  <2> QED
    BY <1>6, <1>7, <2>3 DEF ByThread, at
<1>9. ASSUME NEW c \in Calls PROVE ByCall(m, c)' <=> ByCall(m, c)
  <2>1. CASE mapOwner = t
    <3>1. ByCall(m, c) <=> _call_map[c] # None /\ _call_map[c].called = m /\ r.call # c
      BY <1>1, <2>1 DEF ByCall
    <3>2. mapOwner' \notin Threads
      BY <1>3, <2>1, Constants
    <3>3. ByCall(m, c)' <=> _call_map'[c] # None /\ _call_map'[c].called = m
      BY <3>2 DEF ByCall
    <3>4. _call_map'[c] = IF c = r.call THEN None ELSE _call_map[c]
      BY <1>1, <1>3, <2>1 DEF SharedOK
    <3> QED
      BY <3>1, <3>3, <3>4
  <2>2. CASE mapOwner # t
    BY <1>3, <1>6, <2>2 DEF ByCall, at
  <2> QED
    BY <2>1, <2>2
<1> QED
  BY <1>3, <1>5, <1>8, <1>9, SameUses DEF MInv, Fit

LEMMA QuietFits ==
    ASSUME MInv,
           \/ Finit \/ EditorAsks \/ (\E m \in ManagerSet : EditorEdits(m))
           \/ (\E d \in Devices : Unregister(d) \/ Register(d)) \/ UNCHANGED vars
    PROVE  Fit'
<1>1. UNCHANGED <<thread, mapOwner>> /\ disturbed \subseteq disturbed'
  BY DEF Finit, EditorAsks, EditorEdits, Unregister, Register, vars
<1>2. status \in [Devices -> {"offline", "online", "busy"}] /\ ManagerSet \subseteq Devices
  BY Constants DEF MInv, IInv, Typed, TypeOK
<1> SUFFICES ASSUME NEW m \in ManagerSet \ disturbed' PROVE FitOf(m)'
  BY DEF Fit
<1>3. FitOf(m) /\ status[m] # "offline" /\ m \in Devices
  BY <1>1, <1>2 DEF MInv, Fit, Roles, Unrepeated
<1>4. CASE Finit
  <2>1. \A t \in Threads : ~ByThread(m, t)'
    BY <1>1, <1>4 DEF Finit, ByThread, at, Inviting
  <2>2. \A c \in Calls : ~ByCall(m, c)'
    BY <1>4 DEF Finit, ByCall
  <2>3. Sole(m)' /\ ~Used(m)' /\ ~running'
    BY <1>4, <2>1, <2>2 DEF Sole, Used, Finit
  <2> QED
    BY <2>3 DEF FitOf
<1>5. CASE ~Finit
  <2>1. UNCHANGED <<_call_map, running>>
    BY <1>5 DEF EditorAsks, EditorEdits, Unregister, Register, vars
  <2>2. status'[m] = status[m]
    BY <1>2, <1>3, <1>5 DEF EditorAsks, EditorEdits, Unregister, Register, vars
  <2>3. /\ \A c \in Calls : ByCall(m, c)' <=> ByCall(m, c)
        /\ \A t \in Threads : ByThread(m, t)' <=> ByThread(m, t)
    BY <1>1, <2>1 DEF ByCall, ByThread, at
  <2> QED
    BY <1>3, <2>1, <2>2, <2>3, SameUses
<1> QED
  BY <1>4, <1>5

LEMMA StepFits == MInv /\ [Next]_vars => MInv'
<1> SUFFICES ASSUME MInv, [Next]_vars PROVE Fit'
  BY StepOnce, StepRoles DEF MInv
<1>1. ASSUME NEW t \in Workers, Receive(t) PROVE Fit'
  BY <1>1, ReceiveFits
<1>2. ASSUME NEW t \in Threads, Proceed(t) PROVE Fit'
  BY <1>2, TakeFits, GiveUpFits, FindCallFits, InvitingFits, InsertFits, EraseRecordFits,
     LockedFits, FreeCalledFits, FreeCallerFits DEF Proceed
<1>3. ASSUME NEW c \in Calls, Expire(c) PROVE Fit'
  BY <1>3, LockedFits, Constants
<1> QED
  BY <1>1, <1>2, <1>3, QuietFits DEF Next

(* InUse, whose parts these are. *)
LEMMA InUseParts ==
    ASSUME Typed, Roles, NEW m \in ManagerSet
    PROVE  InUse(m) = {c \in Calls : ByCall(m, c)} \cup {t \in Threads : ByThread(m, t)}
<1>1. ASSUME NEW t \in Threads
      PROVE  ByThread(m, t) <=>
               \/ thread[t].device = m /\ at(t) \notin {"scan", "erase", "free_called", "free_caller"}
               \/ at(t) = "free_called" /\ mapOwner # t /\ thread[t].record.called = m
  <2>1. at(t) \in {"idle", "find"} => thread[t].device # m
    BY Constants DEF Roles, DeviceOK, at
  <2>2. at(t) \in Steps
    BY ThreadTyped DEF ThreadStates, at
  <2> QED
    BY <2>1, <2>2 DEF ByThread, Inviting, Steps
<1>2. \A x : x \in InUse(m) <=> (x \in Calls /\ ByCall(m, x)) \/ (x \in Threads /\ ByThread(m, x))
  BY <1>1 DEF InUse, ByCall
<1> QED
  BY <1>2

LEMMA FitMeans ==
    ASSUME MInv, NEW m \in ManagerSet \ disturbed
    PROVE  /\ Cardinality(InUse(m)) <= 1 /\ (InUse(m) # {} => status[m] = "busy")
           /\ running /\ status[m] = "busy" => InUse(m) # {}
<1>1. InUse(m) = {c \in Calls : ByCall(m, c)} \cup {t \in Threads : ByThread(m, t)}
  BY InUseParts DEF MInv, IInv
<1>2. FitOf(m)
  BY DEF MInv, Fit
<1>3. InUse(m) # {} <=> Used(m)
  BY <1>1 DEF Used
<1>4. InUse(m) = {} \/ \E x : InUse(m) = {x}
  BY <1>1, <1>2 DEF FitOf, Sole
<1>5. Cardinality(InUse(m)) <= 1
  <2>1. Cardinality(InUse(m)) \in {0, 1}
    BY <1>4, FS_EmptySet, FS_Singleton
  <2> QED
    BY <2>1
<1> QED
  BY <1>2, <1>3, <1>5 DEF FitOf

LEMMA AlwaysMInv == Spec => []MInv
<1>1. Init => MInv
  BY InitTyped, InitOnce, InitManagers DEF MInv, IInv
<1>2. MInv /\ [Next]_vars => MInv'
  BY StepFits
<1> QED
  BY <1>1, <1>2, PTL DEF Spec

(* OneCallPerManager: whatever handlers, timeouts and ends of calls meet,  *)
(* the compare-and-swap gives a manager to one call, and the manager stays *)
(* busy until that call's devices are freed.                               *)
THEOREM ManagerServesOne == Spec => []OneCallPerManager
<1>1. MInv => OneCallPerManager
  BY FitMeans DEF OneCallPerManager
<1> QED
  BY <1>1, AlwaysMInv, PTL

(* BusyHasCall: no way an INVITE or a call ends leaves its manager busy.   *)
THEOREM NoManagerLeftBusy == Spec => []BusyHasCall
<1>1. MInv => BusyHasCall
  BY FitMeans DEF BusyHasCall
<1> QED
  BY <1>1, AlwaysMInv, PTL
=============================================================================
