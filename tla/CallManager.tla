----------------------------- MODULE CallManager -----------------------------
(***************************************************************************)
(* Calls on the SIP platform (sipSvrDemo/Demo): the worker threads of      *)
(* service_sip_t, call_manager_t with its timeout thread, the devices of   *)
(* addr_book_mgr_t with their status, and the web service that edits the   *)
(* address book.  A phone that calls the centre's number gets the first    *)
(* idle manager, who is busy until the call ends and its record is handed  *)
(* to event_upload_t.                                                      *)
(*                                                                         *)
(* The address book's lock is ReadWriteLock with one writer: a reader      *)
(* enters unless the writer waits (ReadersWriters says what else it        *)
(* promises).  Messages are taken in any order, as the pool takes them;    *)
(* a call is "old" whenever the timeout thread finds it so.  An analog     *)
(* station is offline when the door station it is redirected to is.        *)
(***************************************************************************)
EXTENDS Integers, Sequences, FiniteSets

CONSTANTS
    Calls, Workers, Timer,
    Managers,   \* _mgr_center_list, by priority
    Phones,
    Centre,     \* get_mgr_phone_num: the number all managers share
    Scenes,     \* who calls whom, and what else may happen to whom
    MaxEdits,   \* bound: how often the address book is edited
    None

Threads == Workers \cup {Timer}
ManagerSet == {Managers[i] : i \in 1 .. Len(Managers)}
Devices == ManagerSet \cup Phones

Records == [call : Calls, number : Nat \ {0}, called : Devices, trying : BOOLEAN, start : BOOLEAN]

ASSUME CallManagerAssumption ==
    /\ Timer \notin Workers /\ MaxEdits \in Nat
    /\ Managers \in Seq(ManagerSet) \ {<<>>} /\ ManagerSet \cap Phones = {}
    /\ None \notin Calls \cup Threads \cup Devices \cup {Centre} /\ Centre \notin Devices
    /\ None \notin Records
    /\ \A s \in Scenes :
        /\ s.from \in [Calls -> Devices] /\ s.to \in [Calls -> Devices \cup {Centre}]
        /\ s.may \subseteq {"repeat", "leave", "edit", "no_address"}
        /\ s.whom \subseteq Calls \cup Devices

VARIABLES
    scene,        \* chosen for good
    book,         \* _addressbook_map
    status,       \* device_t::_status
    _call_map,
    mapOwner,     \* who holds _call_map_lock from one step to the next
    edits, writer, \* how often the book was edited, and whether the book's editor waits for the write lock
    thread,       \* what each thread is doing, and whether its handler reads the book
    inserted,     \* how many records each call was given
    uploaded,     \* the records handed to event_upload_t
    handled,      \* the messages of each call that were taken
    disturbed,    \* managers something unusual happened to (history)
    running

vars == <<scene, book, status, _call_map, mapOwner, edits, writer, thread, inserted, uploaded,
          handled, disturbed, running>>

(* A thread with no call to end, one that ends a call, one that waits. *)
Handling(step, reads, call, device) ==
    [at |-> step, reads |-> reads, call |-> call, device |-> device, record |-> None]
Ending(s, record) ==
    [at |-> "free_called", reads |-> s.reads, call |-> s.call, device |-> s.device, record |-> record]
Idle == Handling("idle", FALSE, None, None)

Init ==
    /\ scene \in Scenes
    /\ book = Devices
    /\ status = [d \in Devices |-> "online"]
    /\ _call_map = [c \in Calls |-> None]
    /\ mapOwner = None
    /\ edits = 0 /\ writer = "none"
    /\ thread = [t \in Threads |-> Idle]
    /\ inserted = [c \in Calls |-> 0]
    /\ uploaded = {}
    /\ handled = [c \in Calls |-> {}]
    /\ disturbed = {}
    /\ running = TRUE

-----------------------------------------------------------------------------
(* device_t: each change of status is one compare-and-swap. *)

set_idle_status(d) == IF status[d] = "busy" THEN [status EXCEPT ![d] = "online"] ELSE status
set_busy_status(d) == IF status[d] = "online" THEN [status EXCEPT ![d] = "busy"] ELSE status
is_online_status(d) == status[d] # "offline"

(* The two locks. *)
CanRead == writer = "none"
MapIsFree == mapOwner = None

at(t) == thread[t].at
Reads(t) == thread[t].reads \/ at(t) = "free_caller"   \* the book, once or nested
Goto(t, step) == thread' = [thread EXCEPT ![t].at = step]

(* A manager a call was given: in its record, or to a worker. *)
UsedBy(c) ==
    {d \in ManagerSet :
        \/ _call_map[c] # None /\ _call_map[c].called = d
        \/ \E t \in Threads : thread[t].call = c /\ thread[t].device = d}

NextManager(d) ==
    IF \E i \in 1 .. Len(Managers) - 1 : Managers[i] = d
    THEN Managers[1 + CHOOSE i \in 1 .. Len(Managers) - 1 : Managers[i] = d]
    ELSE None

-----------------------------------------------------------------------------
(* handle_invite: the address book is read until the call is in the map. *)

Invite(t, c) ==
    LET again == "invite" \in handled[c]
        direct == scene.to[c] # Centre
    IN
    /\ running /\ at(t) = "idle" /\ CanRead
    /\ again => "repeat" \in scene.may /\ c \in scene.whom /\ "repeat" \notin handled[c]
    /\ handled' = [handled EXCEPT ![c] = @ \cup {IF again THEN "repeat" ELSE "invite"}]
    /\ thread' = [thread EXCEPT ![t] =
            IF ~direct
            THEN Handling("find", TRUE, c, None)
            ELSE IF scene.to[c] \in book
            THEN Handling("init", TRUE, c, scene.to[c])
            ELSE Idle]
    /\ disturbed' = disturbed \cup (IF again THEN UsedBy(c) ELSE {})
                              \cup (ManagerSet \cap {scene.from[c], scene.to[c]})
    /\ UNCHANGED <<scene, book, status, _call_map, mapOwner, edits, writer, inserted, uploaded, running>>

(* get_idle_manager_center: a call that is known keeps its manager. *)
FindCall(t) ==
    LET record == _call_map[thread[t].call] IN
    /\ at(t) = "find" /\ MapIsFree
    /\ thread' = [thread EXCEPT ![t] =
            IF record # None /\ record.called \in ManagerSet \cap book
            THEN [@ EXCEPT !.at = "init", !.device = record.called]
            ELSE [@ EXCEPT !.at = "scan", !.device = Managers[1]]]
    /\ UNCHANGED <<scene, book, status, _call_map, mapOwner, edits, writer, inserted, uploaded,
                   handled, disturbed, running>>

(* A slip in get_idle_manager_center: the result of set_busy_status is not looked at. *)
TakeUntested(t) ==
    /\ at(t) = "scan"
    /\ thread[t].device \in book /\ is_online_status(thread[t].device)
    /\ status' = set_busy_status(thread[t].device)
    /\ Goto(t, "init")
    /\ disturbed' = disturbed \cup {m \in {thread[t].device} : "repeat" \in handled[thread[t].call]}
    /\ UNCHANGED <<scene, book, _call_map, mapOwner, edits, writer, inserted, uploaded, handled, running>>

Take(t) ==
    /\ at(t) = "scan"
    /\ thread[t].device \in book /\ status[thread[t].device] = "online"
    /\ status' = set_busy_status(thread[t].device)
    /\ Goto(t, "init")
    /\ disturbed' = disturbed \cup {m \in {thread[t].device} : "repeat" \in handled[thread[t].call]}
    /\ UNCHANGED <<scene, book, _call_map, mapOwner, edits, writer, inserted, uploaded, handled, running>>

Skip(t) ==
    LET next == NextManager(thread[t].device) IN
    /\ at(t) = "scan"
    /\ thread[t].device \notin book \/ status[thread[t].device] # "online"
    /\ thread' = [thread EXCEPT ![t] = IF next = None THEN Idle ELSE [@ EXCEPT !.device = next]]
    /\ UNCHANGED <<scene, book, status, _call_map, mapOwner, edits, writer, inserted, uploaded,
                   handled, disturbed, running>>

(* init_call, up to the map: what it does depends on who are managers. *)
Start(t) ==
    LET from == scene.from[thread[t].call]
        to == thread[t].device
    IN
    /\ at(t) = "init"
    /\ thread' = [thread EXCEPT ![t] =
            IF from \notin book \/ ~is_online_status(from) \/ ~is_online_status(to)
            THEN [@ EXCEPT !.at = "give_up"]
            ELSE IF from \in ManagerSet
            THEN [@ EXCEPT !.at = IF to \in ManagerSet THEN "take_caller" ELSE "leave_others"]
            ELSE IF to \in ManagerSet
            THEN [@ EXCEPT !.at = "insert"]
            ELSE Idle]
    /\ UNCHANGED <<scene, book, status, _call_map, mapOwner, edits, writer, inserted, uploaded,
                   handled, disturbed, running>>

(* A slip in handle_invite: the manager of a failed INVITE stays busy. *)
GiveUpOnly(t) ==
    /\ at(t) = "give_up"
    /\ thread' = [thread EXCEPT ![t] = Idle]
    /\ UNCHANGED <<scene, book, status, _call_map, mapOwner, edits, writer, inserted, uploaded,
                   handled, disturbed, running>>

GiveUp(t) ==
    /\ at(t) = "give_up"
    /\ status' = set_idle_status(thread[t].device)
    /\ thread' = [thread EXCEPT ![t] = Idle]
    /\ UNCHANGED <<scene, book, _call_map, mapOwner, edits, writer, inserted, uploaded,
                   handled, disturbed, running>>

(* check_phone_in_call: a manager who calls leaves the call it is in; the  *)
(* map stays locked until that call has ended.                             *)
LeaveOthers(t) ==
    LET from == scene.from[thread[t].call]
        with == {c \in Calls : _call_map[c] # None /\ from \in {scene.from[c], _call_map[c].called}}
    IN
    /\ at(t) = "leave_others" /\ MapIsFree
    /\ \/ /\ with = {} \/ thread[t].call \in with
          /\ Goto(t, "take_caller")
          /\ UNCHANGED mapOwner
       \/ \E c \in with \ {thread[t].call} :
          /\ thread' = [thread EXCEPT ![t] = Ending(@, _call_map[c])]
          /\ mapOwner' = t
    /\ UNCHANGED <<scene, book, status, _call_map, edits, writer, inserted, uploaded,
                   handled, disturbed, running>>

TakeCaller(t) ==
    /\ at(t) = "take_caller"
    /\ status' = set_busy_status(scene.from[thread[t].call])
    /\ Goto(t, IF thread[t].device \in ManagerSet THEN "take_called" ELSE "insert")
    /\ UNCHANGED <<scene, book, _call_map, mapOwner, edits, writer, inserted, uploaded,
                   handled, disturbed, running>>

TakeCalled(t) ==
    /\ at(t) = "take_called"
    /\ status' = set_busy_status(thread[t].device)
    /\ Goto(t, "insert")
    /\ UNCHANGED <<scene, book, _call_map, mapOwner, edits, writer, inserted, uploaded,
                   handled, disturbed, running>>

(* The record; insert leaves one that is there.  Then the INVITE goes on   *)
(* to the called device, unless the server has no address in its zone.     *)
Insert(t) ==
    LET c == thread[t].call
        new == _call_map[c] = None
    IN
    /\ at(t) = "insert" /\ MapIsFree
    /\ inserted' = [inserted EXCEPT ![c] = IF new THEN @ + 1 ELSE @]
    /\ _call_map' = IF new
                    THEN [_call_map EXCEPT ![c] = [call |-> c, number |-> inserted[c] + 1,
                            called |-> thread[t].device, trying |-> FALSE, start |-> FALSE]]
                    ELSE _call_map
    /\ thread' = [thread EXCEPT ![t] = IF "no_address" \in scene.may
                                       THEN [@ EXCEPT !.at = "erase"] ELSE Idle]
    /\ handled' = [handled EXCEPT ![c] = IF "no_address" \in scene.may
                                         THEN @ ELSE @ \cup {"forwarded"}]
    /\ UNCHANGED <<scene, book, status, mapOwner, edits, writer, uploaded, disturbed, running>>

-----------------------------------------------------------------------------
(* Other messages of a call. *)

(* What the parties may have sent: a phone answers what it was forwarded,  *)
(* with a 200 or a refusal, and either party ends the call by a BYE or a   *)
(* CANCEL ("bye").  Each is taken once.                                    *)
Sent(c, kind) ==
    /\ kind \notin handled[c]
    /\ "invite" \in handled[c]
    /\ kind # "bye" => "forwarded" \in handled[c]
    /\ kind = "200" => "refused" \notin handled[c]
    /\ kind = "refused" => "200" \notin handled[c]

(* handle_response to 100 and 200: set_trying_time_now, set_rcd_start_time_now. *)
Answer(t, c, kind) ==
    /\ running /\ at(t) = "idle" /\ MapIsFree
    /\ kind \in {"100", "200"} /\ Sent(c, kind)
    /\ handled' = [handled EXCEPT ![c] = @ \cup {kind}]
    /\ _call_map' = IF _call_map[c] = None THEN _call_map
                    ELSE IF kind = "100" THEN [_call_map EXCEPT ![c].trying = TRUE]
                    ELSE [_call_map EXCEPT ![c].start = TRUE]
    /\ UNCHANGED <<scene, book, status, mapOwner, edits, writer, thread, inserted, uploaded,
                   disturbed, running>>

(* handle_response to a refusal, which does not read the address book. *)
Refuse(t, c) ==
    /\ running /\ at(t) = "idle" /\ Sent(c, "refused")
    /\ handled' = [handled EXCEPT ![c] = @ \cup {"refused"}]
    /\ thread' = [thread EXCEPT ![t] = Handling("erase", FALSE, c, None)]
    /\ UNCHANGED <<scene, book, status, _call_map, mapOwner, edits, writer, inserted, uploaded,
                   disturbed, running>>

(* handle_bye reads the book while it ends the call. *)
HangUp(t, c) ==
    /\ running /\ at(t) = "idle" /\ CanRead
    /\ Sent(c, "bye")
    /\ handled' = [handled EXCEPT ![c] = @ \cup {"bye"}]
    /\ thread' = [thread EXCEPT ![t] = Handling("erase", TRUE, c, None)]
    /\ UNCHANGED <<scene, book, status, _call_map, mapOwner, edits, writer, inserted, uploaded,
                   disturbed, running>>

-----------------------------------------------------------------------------
(* The end of a call: set_call_status. *)

(* A slip in set_call_status: the record is copied and stays in the map. *)
CopyRecord(t) ==
    LET record == _call_map[thread[t].call] IN
    /\ at(t) = "erase" /\ MapIsFree
    /\ thread' = [thread EXCEPT ![t] = IF record = None THEN Idle
                                       ELSE Ending(@, record)]
    /\ UNCHANGED <<scene, book, status, _call_map, mapOwner, edits, writer, inserted, uploaded,
                   handled, disturbed, running>>

(* By call id: the record leaves the map before the devices are freed. *)
EraseRecord(t) ==
    LET record == _call_map[thread[t].call] IN
    /\ at(t) = "erase" /\ MapIsFree
    /\ _call_map' = [_call_map EXCEPT ![thread[t].call] = None]
    /\ thread' = [thread EXCEPT ![t] = IF record = None THEN Idle
                                       ELSE Ending(@, record)]
    /\ UNCHANGED <<scene, book, status, mapOwner, edits, writer, inserted, uploaded,
                   handled, disturbed, running>>

(* lock_address_book_r, nested where the handler reads already. *)
FreeCalled(t) ==
    LET called == thread[t].record.called IN
    /\ at(t) = "free_called" /\ CanRead
    /\ status' = IF called \in book THEN set_idle_status(called) ELSE status
    /\ Goto(t, "free_caller")
    /\ UNCHANGED <<scene, book, _call_map, mapOwner, edits, writer, inserted, uploaded,
                   handled, disturbed, running>>

(* A slip in check_phone_in_call and work: the map stays locked. *)
FreeCallerOnly(t) ==
    /\ at(t) = "free_caller"
    /\ thread' = [thread EXCEPT ![t] = Idle]
    /\ UNCHANGED <<scene, book, status, _call_map, mapOwner, edits, writer, inserted, uploaded,
                   handled, disturbed, running>>

(* The caller, the lock, the upload, and for a call ended under the map's  *)
(* lock the erasure; then the handler ends, or goes on with its INVITE.    *)
FreeCaller(t) ==
    LET record == thread[t].record
        from == scene.from[record.call]
        inMap == mapOwner = t
    IN
    /\ at(t) = "free_caller"
    /\ status' = IF from \in book THEN set_idle_status(from) ELSE status
    /\ uploaded' = uploaded \cup {<<record.call, record.number>>}
    /\ _call_map' = IF inMap THEN [_call_map EXCEPT ![record.call] = None] ELSE _call_map
    /\ mapOwner' = IF inMap THEN None ELSE mapOwner
    /\ thread' = [thread EXCEPT ![t] =
            IF inMap /\ t # Timer
            THEN Handling("take_caller", @.reads, @.call, @.device)
            ELSE Idle]
    /\ UNCHANGED <<scene, book, edits, writer, inserted, handled, disturbed, running>>

(* A slip in work: only calls without a 100 are looked at. *)
UntriedOnly(record) == ~record.trying

(* work: a call is old by its INVITE while there is no 100, then by its 200. *)
MayBeOld(record) == ~record.trying \/ record.start

(* call_manager_t::work, one pass for each call it ends. *)
Expire(c) ==
    /\ running /\ at(Timer) = "idle" /\ MapIsFree
    /\ _call_map[c] # None /\ MayBeOld(_call_map[c])
    /\ mapOwner' = Timer
    /\ thread' = [thread EXCEPT ![Timer] = Ending(Idle, _call_map[c])]
    /\ UNCHANGED <<scene, book, status, _call_map, edits, writer, inserted, uploaded,
                   handled, disturbed, running>>

(* stop_app: once the services are down, finit records what is left. *)
Finit ==
    /\ running /\ \A t \in Threads : at(t) = "idle"
    /\ uploaded' = uploaded \cup
            {<<c, _call_map[c].number>> : c \in {c \in Calls : _call_map[c] # None}}
    /\ _call_map' = [c \in Calls |-> None]
    /\ running' = FALSE
    /\ UNCHANGED <<scene, book, status, mapOwner, edits, writer, thread, inserted, handled, disturbed>>

-----------------------------------------------------------------------------
(* The devices and the book. *)

(* handle_register with expires 0, and a missed heartbeat. *)
Unregister(d) ==
    /\ "leave" \in scene.may /\ d \in scene.whom /\ running /\ CanRead /\ d \in book
    /\ status' = [status EXCEPT ![d] = "offline"]
    /\ disturbed' = disturbed \cup ({d} \cap ManagerSet)
    /\ UNCHANGED <<scene, book, _call_map, mapOwner, edits, writer, thread, inserted, uploaded,
                   handled, running>>

Register(d) ==
    /\ running /\ CanRead /\ d \in book /\ status[d] = "offline"
    /\ status' = [status EXCEPT ![d] = "online"]
    /\ UNCHANGED <<scene, book, _call_map, mapOwner, edits, writer, thread, inserted, uploaded,
                   handled, disturbed, running>>

EditorAsks ==
    /\ "edit" \in scene.may /\ running /\ writer = "none" /\ edits < MaxEdits
    /\ writer' = "waiting" /\ edits' = edits + 1
    /\ UNCHANGED <<scene, book, status, _call_map, mapOwner, thread, inserted, uploaded,
                   handled, disturbed, running>>

(* delete_phone_batch and add_phone_batch of one manager: a device that is *)
(* added is online when its last registration is still valid.              *)
EditorEdits(m) ==
    /\ writer = "waiting" /\ m \in scene.whom /\ \A t \in Threads : ~Reads(t)
    /\ writer' = "none"
    /\ book' = IF m \in book THEN book \ {m} ELSE book \cup {m}
    /\ \E s \in (IF m \in book THEN {"offline"} ELSE {"offline", "online"}) :
            status' = [status EXCEPT ![m] = s]
    /\ disturbed' = disturbed \cup {m}
    /\ UNCHANGED <<scene, edits, _call_map, mapOwner, thread, inserted, uploaded, handled, running>>

-----------------------------------------------------------------------------

(* What a thread does without being asked. *)
Proceed(t) ==
    \/ FindCall(t) \/ Take(t) \/ Skip(t) \/ Start(t) \/ GiveUp(t)
    \/ LeaveOthers(t) \/ TakeCaller(t) \/ TakeCalled(t) \/ Insert(t)
    \/ EraseRecord(t) \/ FreeCalled(t) \/ FreeCaller(t)

Receive(t) ==
    \E c \in Calls :
        \/ Invite(t, c) \/ Refuse(t, c) \/ HangUp(t, c)
        \/ \E kind \in {"100", "200"} : Answer(t, c, kind)

Next ==
    \/ \E t \in Workers : Receive(t)
    \/ \E t \in Threads : Proceed(t)
    \/ \E c \in Calls : Expire(c)
    \/ Finit
    \/ \E d \in Devices : Unregister(d) \/ Register(d)
    \/ EditorAsks
    \/ \E m \in ManagerSet : EditorEdits(m)

(* Every thread runs, and a call the timeout thread looks at becomes old.  *)
(* No message has to come; the editor gets the lock the last reader leaves. *)
Fairness ==
    /\ \A t \in Threads : WF_vars(Proceed(t))
    /\ \A c \in Calls : WF_vars(Expire(c))
    /\ WF_vars(\E m \in ManagerSet : EditorEdits(m))

Spec == Init /\ [][Next]_vars /\ Fairness
-----------------------------------------------------------------------------
(* The types of the variables. *)
Steps == {"idle", "find", "scan", "init", "give_up", "leave_others", "take_caller",
          "take_called", "insert", "erase", "free_called", "free_caller"}
ThreadStates == [at : Steps, reads : BOOLEAN, call : Calls \cup {None},
                 device : Devices \cup {None}, record : Records \cup {None}]

TypeOK ==
    /\ scene \in Scenes /\ book \subseteq Devices
    /\ status \in [Devices -> {"offline", "online", "busy"}]
    /\ _call_map \in [Calls -> Records \cup {None}]
    /\ mapOwner \in Threads \cup {None} /\ edits \in 0 .. MaxEdits /\ writer \in {"none", "waiting"}
    /\ thread \in [Threads -> ThreadStates]
    /\ inserted \in [Calls -> Nat] /\ uploaded \subseteq Calls \X (Nat \ {0})
    /\ handled \in [Calls -> SUBSET {"invite", "repeat", "forwarded", "100", "200",
                                     "refused", "bye"}]
    /\ disturbed \subseteq ManagerSet /\ running \in BOOLEAN

(* Where the n-th record of a call is: in the map, with a thread that took *)
(* it out of the map, or uploaded.                                         *)
InMap(c, n) == _call_map[c] # None /\ _call_map[c].number = n
Holds(t, c, n) ==
    /\ mapOwner # t /\ thread[t].record # None
    /\ thread[t].record.call = c /\ thread[t].record.number = n

InOnePlace(c, n) ==
    /\ InMap(c, n) \/ (\E t \in Threads : Holds(t, c, n)) \/ <<c, n>> \in uploaded
    /\ ~(InMap(c, n) /\ <<c, n>> \in uploaded)
    /\ \A t \in Threads : Holds(t, c, n) =>
            /\ ~InMap(c, n) /\ <<c, n>> \notin uploaded
            /\ \A u \in Threads \ {t} : ~Holds(u, c, n)

(* Every call that was entered in the map is recorded once: a BYE, a       *)
(* refusal, a timeout, a manager's next call and the server's stop, at     *)
(* once or one after the other, never lose its record or upload it twice.  *)
EachCallOnce == \A c \in Calls : \A n \in 1 .. inserted[c] : InOnePlace(c, n)

(* Who keeps a manager busy: a call in the map, unless its devices are     *)
(* just being freed; a handler that took the manager; a handler that has   *)
(* still to free it.                                                       *)
InUse(m) ==
    {c \in Calls :
        /\ _call_map[c] # None /\ _call_map[c].called = m
        /\ ~ \E t \in Threads : mapOwner = t /\ at(t) = "free_caller" /\ thread[t].record.call = c}
    \cup {t \in Threads : thread[t].device = m /\ at(t) \notin {"scan", "erase", "free_called", "free_caller"}}
    \cup {t \in Threads : /\ at(t) = "free_called" /\ mapOwner # t
                           /\ thread[t].record.called = m}

(* A manager is in one call at a time and busy while it is: whichever      *)
(* handlers run at once and however calls end.  Not said of a manager who  *)
(* left, was edited, calls or is dialled by its own number, or whose       *)
(* caller repeated the INVITE (disturbed).                                 *)
OneCallPerManager ==
    \A m \in ManagerSet \ disturbed :
        Cardinality(InUse(m)) <= 1 /\ (InUse(m) # {} => status[m] = "busy")

(* No manager is left busy when the call is over (the comment at           *)
(* handle_invite's set_idle_status), for the same managers.                *)
BusyHasCall ==
    running => \A m \in ManagerSet \ disturbed : status[m] = "busy" => InUse(m) # {}

(* Readers that wait for each other through the editor: one reads the book *)
(* and waits to read it again, or for the map whose owner waits to read.   *)
Waits(t) ==
    \/ at(t) = "free_called" /\ ~CanRead
    \/ at(t) \in {"find", "leave_others", "insert", "erase"} /\ ~MapIsFree
Caught == writer = "waiting" /\ \E t \in Threads : Reads(t) /\ Waits(t)

(* The two locks bring the server to a halt only with the address book     *)
(* being edited: handlers and the timeout thread alone never wait for each *)
(* other in a circle.                                                      *)
HaltsOnlyByEditing ==
    (\A t \in Threads : at(t) = "idle" \/ Waits(t)) =>
        \/ \A t \in Threads : at(t) = "idle"
        \/ writer = "waiting" /\ \A t \in Threads : ~Reads(t)
        \/ Caught

(* A call ends, unless it rings (work has no limit for that) or the server *)
(* has come to a halt: with lost BYEs, without a 100, without a 200.       *)
Rings(c) == _call_map[c].trying /\ ~_call_map[c].start
CallEnds ==
    \A c \in Calls : _call_map[c] # None ~> (_call_map[c] = None \/ Rings(c) \/ Caught)
=============================================================================
