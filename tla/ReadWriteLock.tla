---------------------------- MODULE ReadWriteLock ----------------------------
(***************************************************************************)
(* read_write_lock_t (sipSvrDemo/Demo/read_write_lock.cpp), the lock of    *)
(* the SIP platform's address book.  Each method is one critical section   *)
(* under _sec_counter, and one that must wait does so after it, on         *)
(* _read_semaphore or _write_event.  A woken writer records itself in      *)
(* _writing_thread outside the critical section.                           *)
(*                                                                         *)
(* Threads use the lock as the program does: a thread that reads may read  *)
(* again (a handler that ends a call), one that writes may write again,    *)
(* none mixes the two.                                                     *)
(***************************************************************************)
EXTENDS Integers, FiniteSets

CONSTANTS
    Threads,
    Nesters,   \* threads that read while they read
    MaxDepth,  \* bound: how deep a thread reads or writes
    NoThread   \* the 0 in _writing_thread

ASSUME ReadWriteLockAssumption ==
    /\ IsFiniteSet(Threads) /\ NoThread \notin Threads
    /\ MaxDepth \in Nat \ {0}

VARIABLES
    _rw_num,             \* places taken by readers, or minus the writer's depth
    _waiting_read_num,
    _waiting_write_num,
    _writing_thread,
    _read_semaphore,     \* permits
    _write_event,        \* posts of the event or semaphore
    waits,               \* what each thread waits for: "claim" is a writer woken
    reads, writes        \* how deep each thread is in reading and in writing

counters == <<_rw_num, _waiting_read_num, _waiting_write_num>>
vars == <<counters, _writing_thread, _read_semaphore, _write_event, waits, reads, writes>>

Init ==
    /\ _rw_num = 0 /\ _waiting_read_num = 0 /\ _waiting_write_num = 0
    /\ _writing_thread = NoThread
    /\ _read_semaphore = 0 /\ _write_event = 0
    /\ waits = [t \in Threads |-> "none"]
    /\ reads = [t \in Threads |-> 0]
    /\ writes = [t \in Threads |-> 0]

-----------------------------------------------------------------------------
(* enter_read *)

(* A slip in enter_read: only a writer that writes keeps readers out. *)
WritingOnly == _rw_num < 0

IsWriting == _rw_num < 0 \/ _waiting_write_num > 0

EnterRead(t) ==
    /\ waits[t] = "none" /\ writes[t] = 0
    /\ reads[t] = 0 \/ (t \in Nesters /\ reads[t] < MaxDepth)
    /\ IF IsWriting
       THEN /\ _waiting_read_num' = _waiting_read_num + 1
            /\ waits' = [waits EXCEPT ![t] = "read"]
            /\ UNCHANGED <<_rw_num, reads>>
       ELSE /\ _rw_num' = _rw_num + 1
            /\ reads' = [reads EXCEPT ![t] = @ + 1]
            /\ UNCHANGED <<_waiting_read_num, waits>>
    /\ UNCHANGED <<_waiting_write_num, _writing_thread, _read_semaphore, _write_event, writes>>

WakeReader(t) ==
    /\ waits[t] = "read" /\ _read_semaphore > 0
    /\ _read_semaphore' = _read_semaphore - 1
    /\ waits' = [waits EXCEPT ![t] = "none"]
    /\ reads' = [reads EXCEPT ![t] = @ + 1]
    /\ UNCHANGED <<counters, _writing_thread, _write_event, writes>>

-----------------------------------------------------------------------------
(* leave_read: the last reader hands over to one waiting writer. *)

(* A slip in leave_read: the writer is woken, its place is not taken. *)
LeaveReadNoPlace(t) ==
    /\ waits[t] = "none" /\ reads[t] > 0
    /\ reads' = [reads EXCEPT ![t] = @ - 1]
    /\ IF _rw_num = 1 /\ _waiting_write_num > 0
       THEN /\ _write_event' = _write_event + 1
            /\ _waiting_write_num' = _waiting_write_num - 1
            /\ _rw_num' = 0
       ELSE /\ _rw_num' = _rw_num - 1
            /\ UNCHANGED <<_write_event, _waiting_write_num>>
    /\ UNCHANGED <<_waiting_read_num, _writing_thread, _read_semaphore, waits, writes>>

LeaveRead(t) ==
    /\ waits[t] = "none" /\ reads[t] > 0
    /\ reads' = [reads EXCEPT ![t] = @ - 1]
    /\ IF _rw_num = 1 /\ _waiting_write_num > 0
       THEN /\ _write_event' = _write_event + 1
            /\ _waiting_write_num' = _waiting_write_num - 1
            /\ _rw_num' = -1
       ELSE /\ _rw_num' = _rw_num - 1
            /\ UNCHANGED <<_write_event, _waiting_write_num>>
    /\ UNCHANGED <<_waiting_read_num, _writing_thread, _read_semaphore, waits, writes>>

-----------------------------------------------------------------------------
(* enter_write *)

EnterWrite(t) ==
    /\ waits[t] = "none" /\ reads[t] = 0 /\ writes[t] < MaxDepth
    /\ IF _rw_num = 0 \/ (_rw_num < 0 /\ _writing_thread = t)
       THEN /\ _writing_thread' = IF _rw_num = 0 THEN t ELSE _writing_thread
            /\ _rw_num' = _rw_num - 1
            /\ writes' = [writes EXCEPT ![t] = @ + 1]
            /\ UNCHANGED <<_waiting_write_num, waits>>
       ELSE /\ _waiting_write_num' = _waiting_write_num + 1
            /\ waits' = [waits EXCEPT ![t] = "write"]
            /\ UNCHANGED <<_rw_num, _writing_thread, writes>>
    /\ UNCHANGED <<_waiting_read_num, _read_semaphore, _write_event, reads>>

WakeWriter(t) ==
    /\ waits[t] = "write" /\ _write_event > 0
    /\ _write_event' = _write_event - 1
    /\ waits' = [waits EXCEPT ![t] = "claim"]
    /\ UNCHANGED <<counters, _writing_thread, _read_semaphore, reads, writes>>

(* A slip in enter_write: a woken writer does not record itself. *)
ClaimNothing(t) ==
    /\ waits[t] = "claim"
    /\ waits' = [waits EXCEPT ![t] = "none"]
    /\ writes' = [writes EXCEPT ![t] = 1]
    /\ UNCHANGED <<counters, _writing_thread, _read_semaphore, _write_event, reads>>

Claim(t) ==
    /\ waits[t] = "claim"
    /\ _writing_thread' = t
    /\ waits' = [waits EXCEPT ![t] = "none"]
    /\ writes' = [writes EXCEPT ![t] = 1]
    /\ UNCHANGED <<counters, _read_semaphore, _write_event, reads>>

-----------------------------------------------------------------------------
(* leave_write: a waiting writer first, else all the waiting readers. *)

HandOver ==
    /\ _writing_thread' = NoThread
    /\ IF _waiting_write_num > 0
       THEN /\ _write_event' = _write_event + 1
            /\ _waiting_write_num' = _waiting_write_num - 1
            /\ _rw_num' = -1
            /\ UNCHANGED <<_waiting_read_num, _read_semaphore>>
       ELSE /\ _rw_num' = _waiting_read_num
            /\ _read_semaphore' = _read_semaphore + _waiting_read_num
            /\ _waiting_read_num' = 0
            /\ UNCHANGED <<_write_event, _waiting_write_num>>

LeaveWrite(t) ==
    /\ waits[t] = "none" /\ writes[t] > 0
    /\ writes' = [writes EXCEPT ![t] = @ - 1]
    /\ IF _rw_num = -1
       THEN HandOver
       ELSE /\ _rw_num' = _rw_num + 1
            /\ UNCHANGED <<_writing_thread, _write_event, _read_semaphore,
                           _waiting_read_num, _waiting_write_num>>
    /\ UNCHANGED <<waits, reads>>

-----------------------------------------------------------------------------

(* What a thread does without being asked: it wakes, and it leaves. *)
Proceed(t) == WakeReader(t) \/ WakeWriter(t) \/ Claim(t) \/ LeaveRead(t) \/ LeaveWrite(t)

Next == \E t \in Threads : EnterRead(t) \/ EnterWrite(t) \/ Proceed(t)

(* Each thread runs: it leaves what it entered, and wakes when it may.     *)
(* Nobody has to enter, and a permit may go to any thread that waits.      *)
Fairness == \A t \in Threads : WF_vars(Proceed(t))

Spec == Init /\ [][Next]_vars /\ Fairness

-----------------------------------------------------------------------------
(* The types of the variables; the write event is posted once at most, so  *)
(* the auto-reset event of the Windows build loses no post.                *)
TypeOK ==
    /\ _rw_num \in Int /\ _waiting_read_num \in Nat /\ _waiting_write_num \in Nat
    /\ _writing_thread \in Threads \cup {NoThread}
    /\ _read_semaphore \in Nat /\ _write_event \in {0, 1}
    /\ waits \in [Threads -> {"none", "read", "write", "claim"}]
    /\ reads \in [Threads -> 0 .. MaxDepth] /\ writes \in [Threads -> 0 .. MaxDepth]

Waiting(kind) == {t \in Threads : waits[t] = kind}
ReadPlaces == {p \in Threads \X (1 .. MaxDepth) : p[2] <= reads[p[1]]}

(* The counters agree with the threads: a permit or a post that is on its  *)
(* way is a place already taken, whichever thread takes it (enter_read,    *)
(* leave_read, enter_write, leave_write).                                  *)
CountersAgree ==
    /\ _rw_num >= 0 => _rw_num = Cardinality(ReadPlaces) + _read_semaphore
    /\ Cardinality(Waiting("read")) = _waiting_read_num + _read_semaphore
    /\ Cardinality(Waiting("write")) = _waiting_write_num + _write_event

(* The lock is a read-write lock, however its threads are interleaved.     *)
Promise == INSTANCE ReadersWriters
ReadersWritersSpec == Promise!Spec

(* A thread that reads waits to read again: leave_read will never come.    *)
Nested(t) == reads[t] > 0 /\ waits[t] = "read"

(* While somebody waits, somebody can go on: the lock comes to a halt only *)
(* when a thread reads again behind a waiting writer (handle_bye, which    *)
(* holds the address book's read lock while set_call_status takes it).     *)
HaltsOnlyByNesting ==
    (\E t \in Threads : waits[t] # "none") =>
        \E t \in Threads :
            \/ waits[t] = "claim"
            \/ waits[t] = "none" /\ reads[t] + writes[t] > 0
            \/ waits[t] = "read" /\ _read_semaphore > 0
            \/ waits[t] = "write" /\ _write_event > 0
            \/ Nested(t)

(* When a thread waits to write some thread gets to write, however many    *)
(* keep coming to read, unless a reader is caught behind it.               *)
WriterGetsIn ==
    (\E t \in Threads : waits[t] = "write")
        ~> (\E t \in Threads : writes[t] > 0 \/ Nested(t))
=============================================================================
