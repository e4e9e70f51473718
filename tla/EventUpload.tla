----------------------------- MODULE EventUpload -----------------------------
(***************************************************************************)
(* The upload of call records in the SIP platform (event_upload.cpp), with *)
(* the thread it inherits (work_thread.cpp) and the table of the database  *)
(* it keeps records in (db_manager.cpp).                                   *)
(*                                                                         *)
(* Records are put into a list in memory by whichever thread ends a call.  *)
(* The upload's own thread waits for an event, or for a timeout, and sends *)
(* the list to the platform.  What the platform does not take goes to the  *)
(* table call_log, which is sent once the platform has taken the list.     *)
(* Stopping the upload writes the list to the table.                       *)
(*                                                                         *)
(* Records are numbered in the order they come: the first of the list is   *)
(* the one with the lowest number.  The platform may refuse a call or get  *)
(* it without its answer coming back, each access to the database may      *)
(* fail, and the process may end at any time; the table survives, and a    *)
(* transaction is written whole or not at all.                             *)
(***************************************************************************)
EXTENDS Integers, FiniteSets

CONSTANTS
    Once,         \* MAX_UPLOAD_RECORD_COUNT_ONCE
    MemMax,       \* MAX_CALL_RCD_IN_MEM
    DbMax,        \* MAX_CALL_RECORD_NUM_DB
    MaxAccepted,  \* bound: records handed over
    MaxFaults,    \* bound: faults of each kind
    MaxStops      \* bound: stops

Kinds == {"refused", "unanswered", "database", "crash"}

ASSUME EventUploadAssumption ==
    /\ Once \in Nat \ {0} /\ MemMax \in Nat /\ DbMax \in Nat /\ DbMax > MemMax
    /\ MaxAccepted \in Nat /\ MaxFaults \in [Kinds -> Nat] /\ MaxStops \in Nat

VARIABLES
    accepted,    \* how many records upload_record was called with
    mem,         \* _call_record_ls
    signalling,  \* records whose caller is about to set the event
    event,       \* _task_event, which a wait resets
    phase,       \* running, or how far stop and finit are; _exit is set but in "up"
    pc,          \* where the thread is, or finit, which does its writing
    batch,       \* call_records
    db,          \* the rows of call_log
    delivered,   \* what the platform has got
    faults,      \* how often each kind of fault has happened
    stops        \* how often the upload was stopped

vars == <<accepted, mem, signalling, event, phase, pc, batch, db, delivered, faults, stops>>

Init ==
    /\ accepted = 0 /\ mem = {} /\ signalling = {}
    /\ event = FALSE /\ phase = "up" /\ pc = "wait"
    /\ batch = {} /\ db = {} /\ delivered = {}
    /\ faults = [k \in Kinds |-> 0] /\ stops = 0

Fault(k) == faults[k] < MaxFaults[k] /\ faults' = [faults EXCEPT ![k] = @ + 1]

-----------------------------------------------------------------------------
(* upload_record, on the thread that ended the call. *)

(* With too many records the first goes. *)
RoomInMem ==
    IF Cardinality(mem) > MemMax THEN {r \in mem : \E q \in mem : q < r} ELSE mem

FullBatch(list) == Cardinality(list) >= Once

UploadRecord ==
    /\ phase = "up" /\ accepted < MaxAccepted
    /\ accepted' = accepted + 1
    /\ mem' = RoomInMem \cup {accepted'}
    /\ signalling' = IF FullBatch(mem') THEN signalling \cup {accepted'} ELSE signalling
    /\ UNCHANGED <<event, phase, pc, batch, db, delivered, faults, stops>>

ExecuteImmediately(r) ==
    /\ r \in signalling
    /\ signalling' = signalling \ {r} /\ event' = TRUE
    /\ UNCHANGED <<accepted, mem, phase, pc, batch, db, delivered, faults, stops>>

-----------------------------------------------------------------------------
(* work, on the upload's thread. *)

(* A slip in work_routine: the wait has no timeout. *)
WorkRoutineUntimed ==
    /\ pc = "wait" /\ event
    /\ event' = FALSE
    /\ pc' = IF phase = "up" THEN "read" ELSE "gone"
    /\ UNCHANGED <<accepted, mem, signalling, phase, batch, db, delivered, faults, stops>>

(* The wait of work_routine ends, with the event or with its timeout.      *)
WorkRoutine ==
    /\ pc = "wait"
    /\ event' = FALSE
    /\ pc' = IF phase = "up" THEN "read" ELSE "gone"
    /\ UNCHANGED <<accepted, mem, signalling, phase, batch, db, delivered, faults, stops>>

(* read_log_from_mem: the first records of the list. *)
FirstOfMem == {r \in mem : Cardinality({q \in mem : q < r}) < DbMax}

ReadLogFromMem(next, otherwise) ==
    /\ batch' = FirstOfMem /\ mem' = mem \ FirstOfMem
    /\ pc' = IF mem # {} THEN next ELSE otherwise

(* A slip in work: the table is not looked at when the list is empty. *)
ReadLogOnly ==
    /\ pc = "read"
    /\ ReadLogFromMem("upload", "rearm")
    /\ UNCHANGED <<accepted, signalling, event, phase, db, delivered, faults, stops>>

ReadLog ==
    /\ pc = "read"
    /\ ReadLogFromMem("upload", "load")
    /\ UNCHANGED <<accepted, signalling, event, phase, db, delivered, faults, stops>>

(* The platform takes the batch from memory. *)
Upload ==
    /\ pc = "upload"
    /\ delivered' = delivered \cup batch
    /\ batch' = {} /\ pc' = "read"
    /\ UNCHANGED <<accepted, mem, signalling, event, phase, db, faults, stops>>

(* plat_sdk_t::upload_record fails, after the platform got the batch or    *)
(* before.                                                                 *)
NotAnswered ==
    \/ Fault("refused") /\ UNCHANGED delivered
    \/ Fault("unanswered") /\ delivered' = delivered \cup batch

UploadFails ==
    /\ pc = "upload" /\ NotAnswered
    /\ pc' = "trim"
    /\ UNCHANGED <<accepted, mem, signalling, event, phase, batch, db, stops>>

-----------------------------------------------------------------------------
(* write_call_log_sync and write_log_to_db, in work after a failed upload  *)
(* and in finit.                                                           *)

(* Any n rows: the statements name no order. *)
Rows(n) ==
    {D \in SUBSET db :
        Cardinality(D) = IF n < Cardinality(db) THEN n ELSE Cardinality(db)}

Excess ==
    IF Cardinality(db) + Cardinality(batch) > DbMax
    THEN Cardinality(db) + Cardinality(batch) - DbMax ELSE 0

MakeRoom ==
    /\ pc = "trim"
    /\ \E D \in Rows(Excess) : db' = db \ D
    /\ pc' = "store"
    /\ UNCHANGED <<accepted, mem, signalling, event, phase, batch, delivered, faults, stops>>

(* The transaction is committed; an insert that fails is passed over.      *)
Store ==
    /\ pc = "store"
    /\ \/ db' = db \cup batch /\ UNCHANGED faults
       \/ Fault("database") /\ \E S \in SUBSET batch : db' = db \cup S
    /\ batch' = {} /\ pc' = "drain"
    /\ UNCHANGED <<accepted, mem, signalling, event, phase, delivered, stops>>

(* The end of the writing: work returns, or finit does. *)
WritingEnds ==
    /\ phase' = IF phase = "draining" THEN "down" ELSE phase
    /\ pc' = IF phase = "draining" THEN "gone" ELSE "wait"

(* The count, the deletion, the beginning or the commit of the transaction *)
(* fails: the batch is given up.                                           *)
WriteFails ==
    /\ pc \in {"trim", "store"} /\ Fault("database")
    /\ batch' = {} /\ WritingEnds
    /\ UNCHANGED <<accepted, mem, signalling, event, db, delivered, stops>>

WriteLogToDb ==
    /\ pc = "drain"
    /\ IF mem # {} THEN ReadLogFromMem("trim", "drain") /\ UNCHANGED phase
                   ELSE WritingEnds /\ UNCHANGED <<batch, mem>>
    /\ UNCHANGED <<accepted, signalling, event, db, delivered, faults, stops>>

-----------------------------------------------------------------------------
(* upload_log_from_db *)

RowsRead == Rows(DbMax)

LoadLog ==
    /\ pc = "load"
    /\ batch' \in RowsRead
    /\ pc' = IF db # {} THEN "send" ELSE "rearm"
    /\ UNCHANGED <<accepted, mem, signalling, event, phase, db, delivered, faults, stops>>

SendLog ==
    /\ pc = "send"
    /\ delivered' = delivered \cup batch
    /\ pc' = "delete"
    /\ UNCHANGED <<accepted, mem, signalling, event, phase, batch, db, faults, stops>>

(* A slip in upload_log_from_db: the rows are deleted though the platform  *)
(* did not take them.                                                      *)
SendLogUntested ==
    /\ pc = "send" /\ NotAnswered
    /\ pc' = "delete"
    /\ UNCHANGED <<accepted, mem, signalling, event, phase, batch, db, stops>>

SendLogFails ==
    /\ pc = "send" /\ NotAnswered
    /\ batch' = {} /\ pc' = "rearm"
    /\ UNCHANGED <<accepted, mem, signalling, event, phase, db, stops>>

DeleteLog ==
    /\ pc = "delete"
    /\ \E D \in Rows(Cardinality(batch)) : db' = db \ D
    /\ batch' = {} /\ pc' = "load"
    /\ UNCHANGED <<accepted, mem, signalling, event, phase, delivered, faults, stops>>

(* The count, the selection or the deletion fails. *)
LogFails ==
    /\ pc \in {"load", "delete"} /\ Fault("database")
    /\ batch' = {} /\ pc' = "rearm"
    /\ UNCHANGED <<accepted, mem, signalling, event, phase, db, delivered, stops>>

(* A slip at the end of work: the length of the list is not looked at. *)
RearmUntested ==
    /\ pc = "rearm"
    /\ event' = FALSE /\ pc' = "wait"
    /\ UNCHANGED <<accepted, mem, signalling, phase, batch, db, delivered, faults, stops>>

(* The end of work: execute_immediately or execute_timeout. *)
Rearm ==
    /\ pc = "rearm"
    /\ event' = FullBatch(mem) /\ pc' = "wait"
    /\ UNCHANGED <<accepted, mem, signalling, phase, batch, db, delivered, faults, stops>>

-----------------------------------------------------------------------------
(* stop and finit.  The threads that hand over records are stopped before  *)
(* (stop_app).                                                             *)

SetExit ==
    /\ phase = "up" /\ signalling = {} /\ stops < MaxStops
    /\ phase' = "exit" /\ stops' = stops + 1
    /\ UNCHANGED <<accepted, mem, signalling, event, pc, batch, db, delivered, faults>>

SignalExit ==
    /\ phase = "exit"
    /\ phase' = "joining" /\ event' = TRUE
    /\ UNCHANGED <<accepted, mem, signalling, pc, batch, db, delivered, faults, stops>>

(* A slip in finit: the list is not written. *)
JoinOnly ==
    /\ phase = "joining" /\ pc = "gone"
    /\ phase' = "down" /\ pc' = "gone"
    /\ UNCHANGED <<accepted, mem, signalling, event, batch, db, delivered, faults, stops>>

(* The thread has ended; finit goes on with write_log_to_db. *)
Join ==
    /\ phase = "joining" /\ pc = "gone"
    /\ phase' = "draining" /\ pc' = "drain"
    /\ UNCHANGED <<accepted, mem, signalling, event, batch, db, delivered, faults, stops>>

(* start, on a new object. *)
Start ==
    /\ phase = "down"
    /\ phase' = "up" /\ pc' = "wait" /\ event' = FALSE /\ mem' = {}
    /\ UNCHANGED <<accepted, signalling, batch, db, delivered, faults, stops>>

Crash ==
    /\ phase # "down" /\ Fault("crash")
    /\ phase' = "down" /\ pc' = "gone" /\ event' = FALSE
    /\ mem' = {} /\ batch' = {} /\ signalling' = {}
    /\ UNCHANGED <<accepted, db, delivered, stops>>

-----------------------------------------------------------------------------
Writing == MakeRoom \/ Store \/ WriteFails \/ WriteLogToDb

Work ==
    \/ WorkRoutine \/ ReadLog \/ Upload \/ UploadFails \/ Writing
    \/ LoadLog \/ SendLog \/ SendLogFails \/ DeleteLog \/ LogFails \/ Rearm

Stop == SignalExit \/ Join

Next ==
    \/ UploadRecord \/ (\E r \in signalling : ExecuteImmediately(r))
    \/ Work \/ SetExit \/ Stop \/ Start \/ Crash

(* The threads run: the upload's, the one that stops it, and a caller that *)
(* has put its record into the list.                                       *)
Spec ==
    /\ Init /\ [][Next]_vars
    /\ WF_vars(Work) /\ WF_vars(Stop)
    /\ WF_vars(\E r \in signalling : ExecuteImmediately(r))

-----------------------------------------------------------------------------
(* What is in memory and has not been delivered, or is in the table and    *)
(* will be sent.                                                           *)
Pending ==
    mem \cup (IF pc \in {"upload", "trim", "store"} THEN batch ELSE {})
        \cup (IF pc = "delete" THEN db \ batch ELSE db)

(* The types of the variables; the list and the table keep their limits.   *)
TypeOK ==
    /\ accepted \in Nat
    /\ \A S \in {mem, signalling, batch, db, delivered} : S \subseteq 1 .. accepted
    /\ Cardinality(mem) <= MemMax + 1 /\ Cardinality(db) <= DbMax
    /\ event \in BOOLEAN
    /\ phase \in {"up", "exit", "joining", "draining", "down"}
    /\ pc \in {"wait", "read", "upload", "trim", "store", "drain",
               "load", "send", "delete", "rearm", "gone"}
    /\ faults \in [Kinds -> Nat] /\ stops \in Nat

(* A full batch does not wait for the timeout: the event is set or about   *)
(* to be, or the thread is about to look, however the callers' push and    *)
(* their setting of the event fall between the steps of work, which resets *)
(* it.                                                                     *)
FullBatchWakes ==
    phase = "up" /\ Cardinality(mem) >= Once
        => event \/ signalling # {} \/ pc = "read"

(* What is uploaded from the table is all of it, so that deleting that     *)
(* many rows, in whatever order, deletes those that were uploaded.         *)
WholeTableSent == pc \in {"send", "delete"} => batch = db

(* A row leaves the table when the platform has got it, or to make room:   *)
(* then no more rows go than the younger records, which the table does not *)
(* have yet, need to fill it.  No failure or crash loses one, and no       *)
(* miscount: too many rows in the table would be more than one upload      *)
(* reads, and its deletion would take others than those it sent.           *)
StoredIsKept ==
    [][\A r \in db \ db' :
          r \in delivered \/ (batch \cap db = {} /\ Cardinality(db' \cup batch) = DbMax)]_vars

(* A record that still waits has not been delivered, unless an answer was  *)
(* lost, the database failed or the process crashed.                       *)
DeliveredOnce ==
    (\A k \in Kinds \ {"refused"} : faults[k] = 0) => Pending \cap delivered = {}

(* Records are lost or delivered again only for the reasons Outbox gives.  *)
Promise == INSTANCE Outbox WITH Capacity <- MemMax, pending <- Pending
PromiseSpec == Promise!Spec

(* A stop comes to its end, also when work resets the event stop has set.  *)
StopReturns == phase \in {"exit", "joining", "draining"} ~> phase = "down"

(* While the upload runs, a record that waits does not wait for ever, be   *)
(* it in memory or in the table.                                           *)
AllLeave ==
    <>[](phase = "up") => \A r \in 1 .. MaxAccepted : r \in Pending ~> r \notin Pending
=============================================================================
