-------------------------- MODULE EventUploadProofs --------------------------
(***************************************************************************)
(* The upload of call records keeps Outbox's promise, keeps its limits,    *)
(* deletes from the table exactly what was uploaded, and sleeps through no *)
(* full batch, for any limits and any number of records, faults and stops. *)
(***************************************************************************)
EXTENDS EventUpload, FiniteSetTheorems, WellFoundedInduction, TLAPS

Unsent == {"upload", "trim", "store"}
Sent == {"send", "delete"}

(* What the batch holds, by what is to be done with it. *)
BatchOK ==
    /\ mem \cap db = {}
    /\ pc \in Unsent => batch \cap (mem \cup db) = {} /\ Cardinality(batch) <= DbMax
    /\ pc = "store" => Cardinality(db) + Cardinality(batch) <= DbMax
    /\ pc = "delete" => batch \subseteq delivered
    /\ pc \notin Unsent \cup Sent => batch = {}

(* Nobody hands over records once the stop has begun, and finit leaves     *)
(* nothing in memory.                                                      *)
PhaseOK ==
    /\ phase # "up" => signalling = {}
    /\ phase = "up" => pc # "gone"
    /\ phase = "draining" => pc \in {"drain", "trim", "store"}
    /\ phase = "draining" /\ pc # "drain" => mem = {}
    /\ phase = "down" => mem = {} /\ pc = "gone"

IInv == TypeOK /\ BatchOK /\ WholeTableSent /\ PhaseOK

-----------------------------------------------------------------------------
(* Sets of records are finite. *)

LEMMA RecordsFinite ==
    ASSUME TypeOK, NEW S, S \subseteq 1 .. accepted
    PROVE  IsFiniteSet(S) /\ Cardinality(S) \in Nat
<1>1. IsFiniteSet(1 .. accepted)
  BY FS_Interval DEF TypeOK
<1> QED
  BY <1>1, FS_Subset, FS_CardinalityType

LEMMA DisjointUnion ==
    ASSUME NEW S, NEW T, IsFiniteSet(S), IsFiniteSet(T), S \cap T = {}
    PROVE  Cardinality(S \cup T) = Cardinality(S) + Cardinality(T)
<1>1. Cardinality(S \cap T) = 0
  BY FS_EmptySet
<1>2. Cardinality(S) \in Nat /\ Cardinality(T) \in Nat
  BY FS_CardinalityType
<1>3. Cardinality(S \cup T) = Cardinality(S) + Cardinality(T) - Cardinality(S \cap T)
  BY FS_Union
<1> QED
  BY <1>1, <1>2, <1>3

LEMMA HasLeast ==
    ASSUME NEW S \in SUBSET Nat, S # {}
    PROVE  \E m \in S : \A n \in S : m <= n
<1>1. PICK m \in S : \A n \in S : ~ (<<n, m>> \in OpToRel(<, Nat))
  BY WFMin, NatLessThanWellFounded
<1>2. \A n \in S : n \in Nat /\ m \in Nat /\ ~(n < m)
  BY <1>1 DEF OpToRel
<1> QED
  BY <1>2

(* The list is taken whole: it is never longer than what is read at once.  *)
LEMMA FirstIsAll ==
    ASSUME TypeOK
    PROVE  FirstOfMem = mem
<1> SUFFICES ASSUME NEW r \in mem
             PROVE  Cardinality({q \in mem : q < r}) < DbMax
  BY DEF FirstOfMem
<1>1. IsFiniteSet(mem) /\ Cardinality(mem) \in Nat /\ mem \subseteq Nat
  BY RecordsFinite DEF TypeOK
<1>2. {q \in mem : q < r} \subseteq mem \ {r}
  BY <1>1
<1>3. IsFiniteSet(mem \ {r}) /\ Cardinality(mem \ {r}) = Cardinality(mem) - 1
  BY <1>1, FS_RemoveElement
<1>4. Cardinality({q \in mem : q < r}) <= Cardinality(mem) - 1
  BY <1>2, <1>3, FS_Subset
<1>5. Cardinality({q \in mem : q < r}) \in Nat
  BY <1>2, <1>3, FS_Subset, FS_CardinalityType
<1> QED
  BY <1>1, <1>4, <1>5, EventUploadAssumption DEF TypeOK

(* With too many records exactly one goes. *)
LEMMA OneGoes ==
    ASSUME TypeOK, Cardinality(mem) > MemMax
    PROVE  \E r \in mem : RoomInMem = mem \ {r}
<1>1. IsFiniteSet(mem) /\ Cardinality(mem) \in Nat /\ mem \subseteq Nat
  BY RecordsFinite DEF TypeOK
<1>2. mem # {}
  BY <1>1, FS_EmptySet, EventUploadAssumption
<1>3. PICK r \in mem : \A q \in mem : r <= q
  BY <1>1, <1>2, HasLeast
<1>4. {s \in mem : \E q \in mem : q < s} = mem \ {r}
  <2>1. ASSUME NEW s \in mem, NEW q \in mem, q < s PROVE s # r
    BY <1>1, <1>3, <2>1
  <2>2. ASSUME NEW s \in mem, s # r PROVE r < s
    BY <1>1, <1>3, <2>2
  <2> QED
    BY <2>1, <2>2
<1> QED
  BY <1>4 DEF RoomInMem

(* How many rows are left when n are deleted. *)
LEMMA RowsLeft ==
    ASSUME TypeOK, NEW n \in Nat, NEW D \in Rows(n)
    PROVE  /\ D \subseteq db /\ IsFiniteSet(db \ D)
           /\ Cardinality(db \ D) =
                 IF n < Cardinality(db) THEN Cardinality(db) - n ELSE 0
           /\ Cardinality(db) <= n => D = db
<1>1. IsFiniteSet(db) /\ Cardinality(db) \in Nat
  BY RecordsFinite DEF TypeOK
<1>2. D \subseteq db /\ db \cap D = D
     /\ Cardinality(D) = IF n < Cardinality(db) THEN n ELSE Cardinality(db)
  BY DEF Rows
<1>3. IsFiniteSet(db \ D) /\ Cardinality(db \ D) = Cardinality(db) - Cardinality(D)
  BY <1>1, <1>2, FS_Difference
<1>4. Cardinality(db) = Cardinality(D) => D = db
  BY <1>1, <1>2, FS_Subset
<1> QED
  BY <1>1, <1>2, <1>3, <1>4

-----------------------------------------------------------------------------
(* The invariant. *)

USE DEF Kinds

LEMMA Initially == Init => IInv
<1> SUFFICES ASSUME Init PROVE IInv
  OBVIOUS
<1>1. Cardinality(mem) = 0 /\ Cardinality(db) = 0
  BY FS_EmptySet DEF Init
<1>2. TypeOK
  <2>1. \A S \in {mem, signalling, batch, db, delivered} : S \subseteq 1 .. accepted
    BY DEF Init
  <2>2. faults \in [Kinds -> Nat]
    BY DEF Init
  <2>3. Cardinality(mem) <= MemMax + 1 /\ Cardinality(db) <= DbMax
    BY <1>1, EventUploadAssumption
  <2> QED
    BY <2>1, <2>2, <2>3 DEF Init, TypeOK
<1> QED
  BY <1>2 DEF Init, IInv, BatchOK, WholeTableSent, PhaseOK, Unsent, Sent

LEMMA UploadRecordKeeps == IInv /\ UploadRecord => IInv'
<1> SUFFICES ASSUME IInv, UploadRecord PROVE IInv'
  OBVIOUS
<1> USE DEF IInv
<1>1. IsFiniteSet(mem) /\ Cardinality(mem) \in Nat
  BY RecordsFinite DEF TypeOK
<1>2. RoomInMem \subseteq mem
  BY DEF RoomInMem
<1>3. IsFiniteSet(RoomInMem) /\ Cardinality(RoomInMem) \in Nat
      /\ Cardinality(RoomInMem) <= MemMax
  <2>1. CASE Cardinality(mem) > MemMax
    <3>1. PICK r \in mem : RoomInMem = mem \ {r}
      BY <2>1, OneGoes
    <3>2. IsFiniteSet(RoomInMem) /\ Cardinality(RoomInMem) = Cardinality(mem) - 1
      BY <1>1, <3>1, FS_RemoveElement
    <3> QED
      BY <1>1, <2>1, <3>2, EventUploadAssumption DEF TypeOK
  <2>2. CASE ~(Cardinality(mem) > MemMax)
    BY <1>1, <2>2, EventUploadAssumption DEF RoomInMem
  <2> QED
    BY <2>1, <2>2
<1>4. Cardinality(mem') <= MemMax + 1
  <2>1. mem' = RoomInMem \cup {accepted'}
    BY DEF UploadRecord
  <2>2. Cardinality(mem') \in {Cardinality(RoomInMem), Cardinality(RoomInMem) + 1}
    BY <1>3, <2>1, FS_AddElement
  <2> QED
    BY <1>3, <2>2, EventUploadAssumption
<1>5. accepted + 1 \notin db \cup batch \cup mem
  BY DEF TypeOK
<1>6. TypeOK'
  BY <1>2, <1>4 DEF UploadRecord, TypeOK
<1>7. BatchOK'
  BY <1>2, <1>5 DEF UploadRecord, BatchOK, Unsent, Sent
<1>8. WholeTableSent' /\ PhaseOK'
  BY DEF UploadRecord, WholeTableSent, PhaseOK
<1> QED
  BY <1>6, <1>7, <1>8

LEMMA CallersKeep ==
    ASSUME IInv, NEW r \in signalling, ExecuteImmediately(r)
    PROVE  IInv'
BY DEF ExecuteImmediately, IInv, TypeOK, BatchOK, WholeTableSent, PhaseOK, Unsent, Sent

(* What read_log_from_mem leaves behind. *)
LEMMA ListTaken ==
    ASSUME IInv, NEW next, NEW otherwise, ReadLogFromMem(next, otherwise),
           pc \notin Unsent \cup Sent
    PROVE  /\ batch' = mem /\ mem' = {} /\ Cardinality(mem') = 0
           /\ Cardinality(batch') <= DbMax /\ batch' \cap db = {}
<1>1. batch' = mem /\ mem' = {}
  BY FirstIsAll DEF ReadLogFromMem, IInv
<1>2. Cardinality({}) = 0
  BY FS_EmptySet
<1>3. Cardinality(mem) \in Nat /\ Cardinality(mem) <= DbMax
  BY RecordsFinite, EventUploadAssumption DEF IInv, TypeOK
<1> QED
  BY <1>1, <1>2, <1>3 DEF IInv, BatchOK

LEMMA ReadLogKeeps == IInv /\ ReadLog => IInv'
<1> SUFFICES ASSUME IInv, ReadLog PROVE IInv'
  OBVIOUS
<1>1. /\ batch' = mem /\ mem' = {} /\ Cardinality(mem') = 0
      /\ Cardinality(batch') <= DbMax /\ batch' \cap db = {}
  BY ListTaken DEF ReadLog, Unsent, Sent
<1>2. pc' = IF mem # {} THEN "upload" ELSE "load"
  BY DEF ReadLog, ReadLogFromMem
<1> QED
  BY <1>1, <1>2, EventUploadAssumption
  DEF ReadLog, IInv, TypeOK, BatchOK, WholeTableSent, PhaseOK, Unsent, Sent

LEMMA UploadsKeep == IInv /\ (WorkRoutine \/ Upload \/ UploadFails) => IInv'
<1> SUFFICES ASSUME IInv, WorkRoutine \/ Upload \/ UploadFails PROVE IInv'
  OBVIOUS
<1> USE DEF IInv, TypeOK, BatchOK, WholeTableSent, PhaseOK, Unsent, Sent
<1>1. CASE WorkRoutine
  BY <1>1 DEF WorkRoutine
<1>2. CASE Upload
  BY <1>2 DEF Upload
<1>3. CASE UploadFails
  BY <1>3, EventUploadAssumption DEF UploadFails, NotAnswered, Fault
<1> QED
  BY <1>1, <1>2, <1>3

LEMMA MakeRoomKeeps == IInv /\ MakeRoom => IInv'
<1> SUFFICES ASSUME IInv, MakeRoom PROVE IInv'
  OBVIOUS
<1>1. Cardinality(db) \in Nat /\ Cardinality(batch) \in Nat
  BY RecordsFinite DEF IInv, TypeOK
<1>2. Excess \in Nat
  BY <1>1, EventUploadAssumption DEF Excess
<1>3. PICK D \in Rows(Excess) : db' = db \ D
  BY DEF MakeRoom
<1>4. Cardinality(db') = IF Excess < Cardinality(db) THEN Cardinality(db) - Excess ELSE 0
  BY <1>2, <1>3, RowsLeft DEF IInv
<1>5. Cardinality(db') <= DbMax /\ Cardinality(db') + Cardinality(batch) <= DbMax
  BY <1>1, <1>4, EventUploadAssumption
  DEF Excess, MakeRoom, IInv, TypeOK, BatchOK, Unsent
<1> QED
  BY <1>3, <1>5
  DEF MakeRoom, IInv, TypeOK, BatchOK, WholeTableSent, PhaseOK, Unsent, Sent

LEMMA StoreKeeps == IInv /\ Store => IInv'
<1> SUFFICES ASSUME IInv, Store PROVE IInv'
  OBVIOUS
<1>1. IsFiniteSet(batch) /\ Cardinality(batch) \in Nat
      /\ IsFiniteSet(db) /\ Cardinality(db) \in Nat
  BY RecordsFinite DEF IInv, TypeOK
<1>2. PICK S \in SUBSET batch : db' = db \cup S
  BY DEF Store
<1>3. IsFiniteSet(S) /\ Cardinality(S) \in Nat /\ Cardinality(S) <= Cardinality(batch)
  BY <1>1, FS_Subset, FS_CardinalityType
<1>4. db \cap S = {}
  BY DEF Store, IInv, BatchOK, Unsent
<1>5. Cardinality(db') = Cardinality(db) + Cardinality(S)
  BY <1>1, <1>2, <1>3, <1>4, DisjointUnion
<1>6. Cardinality(db') <= DbMax
  BY <1>1, <1>3, <1>5, EventUploadAssumption DEF Store, IInv, BatchOK
<1>7. faults' \in [Kinds -> Nat]
  BY DEF Store, Fault, IInv, TypeOK
<1> QED
  BY <1>2, <1>6, <1>7
  DEF Store, IInv, TypeOK, BatchOK, WholeTableSent, PhaseOK, Unsent, Sent

LEMMA WritingKeeps == IInv /\ (WriteFails \/ WriteLogToDb) => IInv'
<1> SUFFICES ASSUME IInv, WriteFails \/ WriteLogToDb PROVE IInv'
  OBVIOUS
<1>1. CASE WriteFails
  BY <1>1
  DEF WriteFails, WritingEnds, Fault, IInv, TypeOK, BatchOK, WholeTableSent, PhaseOK,
      Unsent, Sent
<1>2. CASE WriteLogToDb /\ mem = {}
  BY <1>2
  DEF WriteLogToDb, WritingEnds, IInv, TypeOK, BatchOK, WholeTableSent, PhaseOK,
      Unsent, Sent
<1>3. CASE WriteLogToDb /\ mem # {}
  <2>1. /\ batch' = mem /\ mem' = {} /\ Cardinality(mem') = 0
        /\ Cardinality(batch') <= DbMax /\ batch' \cap db = {}
    BY <1>3, ListTaken DEF WriteLogToDb, Unsent, Sent
  <2>2. pc' = "trim"
    BY <1>3 DEF WriteLogToDb, ReadLogFromMem
  <2> QED
    BY <1>3, <2>1, <2>2, EventUploadAssumption
    DEF WriteLogToDb, IInv, TypeOK, BatchOK, WholeTableSent, PhaseOK, Unsent, Sent
<1> QED
  BY <1>1, <1>2, <1>3

(* Any rows, as many as were sent, are all there are. *)
LEMMA AllDeleted ==
    ASSUME IInv, DeleteLog
    PROVE  db' = {}
<1>1. PICK D \in Rows(Cardinality(batch)) : db' = db \ D
  BY DEF DeleteLog
<1>2. batch = db /\ TypeOK
  BY DEF DeleteLog, IInv, WholeTableSent
<1>3. Cardinality(db) \in Nat /\ D \in Rows(Cardinality(db))
  BY <1>1, <1>2, RecordsFinite DEF TypeOK
<1>4. Cardinality(db) <= Cardinality(db) => D = db
  BY <1>2, <1>3, RowsLeft
<1> QED
  BY <1>1, <1>3, <1>4

LEMMA TableKeeps ==
    IInv /\ (LoadLog \/ SendLog \/ SendLogFails \/ DeleteLog \/ LogFails \/ Rearm) => IInv'
<1> SUFFICES ASSUME IInv,
                    LoadLog \/ SendLog \/ SendLogFails \/ DeleteLog \/ LogFails \/ Rearm
             PROVE  IInv'
  OBVIOUS
<1> USE DEF IInv, TypeOK, BatchOK, WholeTableSent, PhaseOK, Unsent, Sent
<1>1. CASE LoadLog
  <2>1. batch' = db
    BY <1>1, RowsLeft, EventUploadAssumption DEF LoadLog, RowsRead
  <2> QED
    BY <1>1, <2>1 DEF LoadLog
<1>2. CASE SendLog
  BY <1>2 DEF SendLog
<1>3. CASE SendLogFails
  BY <1>3 DEF SendLogFails, NotAnswered, Fault
<1>4. CASE DeleteLog
  <2>1. db' = {} /\ Cardinality(db') = 0
    BY <1>4, AllDeleted, FS_EmptySet
  <2> QED
    BY <1>4, <2>1, EventUploadAssumption DEF DeleteLog
<1>5. CASE LogFails
  BY <1>5 DEF LogFails, Fault
<1>6. CASE Rearm
  BY <1>6 DEF Rearm, FullBatch
<1> QED
  BY <1>1, <1>2, <1>3, <1>4, <1>5, <1>6

LEMMA StopsKeep == IInv /\ (SetExit \/ Stop \/ Start \/ Crash) => IInv'
<1> SUFFICES ASSUME IInv, SetExit \/ Stop \/ Start \/ Crash PROVE IInv'
  OBVIOUS
<1>1. mem' = {} => Cardinality(mem') = 0
  BY FS_EmptySet
<1> USE DEF IInv, TypeOK, BatchOK, WholeTableSent, PhaseOK, Unsent, Sent
<1>2. CASE SetExit
  BY <1>2 DEF SetExit
<1>3. CASE Stop
  BY <1>3 DEF Stop, SignalExit, Join
<1>4. CASE Start
  BY <1>1, <1>4, EventUploadAssumption DEF Start
<1>5. CASE Crash
  <2>1. faults' \in [Kinds -> Nat]
    BY <1>5 DEF Crash, Fault
  <2>2. Cardinality(mem') <= MemMax + 1
    BY <1>1, <1>5, EventUploadAssumption DEF Crash
  <2> QED
    BY <1>5, <2>1, <2>2 DEF Crash
<1> QED
  BY <1>2, <1>3, <1>4, <1>5

LEMMA Preserved == IInv /\ [Next]_vars => IInv'
<1> SUFFICES ASSUME IInv, [Next]_vars PROVE IInv'
  OBVIOUS
<1>1. CASE UNCHANGED vars
  BY <1>1 DEF vars, IInv, TypeOK, BatchOK, WholeTableSent, PhaseOK
<1>2. CASE Next
  BY <1>2, UploadRecordKeeps, CallersKeep, ReadLogKeeps, UploadsKeep, MakeRoomKeeps,
     StoreKeeps, WritingKeeps, TableKeeps, StopsKeep
  DEF Next, Work, Writing
<1> QED
  BY <1>1, <1>2

(* The list and the table keep their limits, and every variable its type.  *)
THEOREM TypeCorrect == Spec => []TypeOK
<1>1. IInv => TypeOK
  BY DEF IInv
<1> QED
  BY Initially, Preserved, <1>1, PTL DEF Spec

LEMMA Invariant == Spec => []IInv
BY Initially, Preserved, PTL DEF Spec

(* What is uploaded from the table is all of it, so the rows that are then *)
(* deleted are the ones that were uploaded.                                *)
THEOREM WholeTable == Spec => []WholeTableSent
<1>1. IInv => WholeTableSent
  BY DEF IInv
<1> QED
  BY Initially, Preserved, <1>1, PTL DEF Spec

(* A full batch in memory never waits for the timeout.                     *)
THEOREM FullBatchNoticed == Spec => []FullBatchWakes
<1>1. Init => FullBatchWakes
  BY FS_EmptySet, EventUploadAssumption DEF Init, FullBatchWakes
<1>2. IInv /\ FullBatchWakes /\ [Next]_vars => FullBatchWakes'
  <2> SUFFICES ASSUME IInv, FullBatchWakes, [Next]_vars PROVE FullBatchWakes'
    OBVIOUS
  <2> USE DEF FullBatchWakes
  <2>1. CASE UNCHANGED vars
    BY <2>1 DEF vars
  <2>2. CASE UploadRecord
    BY <2>2 DEF UploadRecord, FullBatch
  <2>3. ASSUME NEW r \in signalling, ExecuteImmediately(r) PROVE FullBatchWakes'
    BY <2>3 DEF ExecuteImmediately
  <2>4. CASE WorkRoutine
    BY <2>4 DEF WorkRoutine
  <2>5. ASSUME NEW next, NEW otherwise, ReadLogFromMem(next, otherwise)
        PROVE  Cardinality(mem') = 0
    BY <2>5, FirstIsAll, FS_EmptySet DEF ReadLogFromMem, IInv
  <2>6. CASE ReadLog
    BY <2>5, <2>6, EventUploadAssumption DEF ReadLog
  <2>7. CASE Upload \/ UploadFails
    BY <2>7 DEF Upload, UploadFails
  <2>8. CASE MakeRoom \/ Store \/ WriteFails
    BY <2>8 DEF MakeRoom, Store, WriteFails, WritingEnds, IInv, PhaseOK
  <2>9. CASE WriteLogToDb
    BY <2>5, <2>9, EventUploadAssumption DEF WriteLogToDb, WritingEnds
  <2>10. CASE LoadLog \/ SendLog \/ SendLogFails \/ DeleteLog \/ LogFails
    BY <2>10 DEF LoadLog, SendLog, SendLogFails, DeleteLog, LogFails
  <2>11. CASE Rearm
    BY <2>11 DEF Rearm, FullBatch
  <2>12. CASE SetExit \/ Stop \/ Crash
    BY <2>12 DEF SetExit, Stop, SignalExit, Join, Crash
  <2>13. CASE Start
    BY <2>13, FS_EmptySet, EventUploadAssumption DEF Start
  <2> QED
    BY <2>1, <2>2, <2>3, <2>4, <2>6, <2>7, <2>8, <2>9, <2>10, <2>11, <2>12, <2>13
    DEF Next, Work, Writing
<1> QED
  BY Invariant, <1>1, <1>2, PTL DEF Spec

-----------------------------------------------------------------------------
(* The table. *)

(* Rows make room for a batch only when it does not fit, and then as many  *)
(* as let it fill the table.                                               *)
LEMMA RoomIsMadeWhenFull ==
    ASSUME IInv, MakeRoom, db' # db
    PROVE  batch \cap db = {} /\ Cardinality(db' \cup batch) = DbMax
<1>1. IsFiniteSet(db) /\ IsFiniteSet(batch)
      /\ Cardinality(db) \in Nat /\ Cardinality(batch) \in Nat
  BY RecordsFinite DEF IInv, TypeOK
<1>2. PICK D \in Rows(Excess) : db' = db \ D
  BY DEF MakeRoom
<1>3. Excess # 0
  <2> SUFFICES ASSUME Excess = 0 PROVE FALSE
    OBVIOUS
  <2>1. D \subseteq db /\ Cardinality(D) = 0
    BY <1>1, <1>2 DEF Rows
  <2>2. D = {}
    BY <1>1, <2>1, FS_EmptySet, FS_Subset
  <2> QED
    BY <1>2, <2>2
<1>4. db \cap batch = {} /\ (db \ D) \cap batch = {} /\ Cardinality(batch) <= DbMax
  BY DEF MakeRoom, IInv, BatchOK, Unsent
<1>5. Excess = Cardinality(db) + Cardinality(batch) - DbMax /\ Excess \in Nat
      /\ Excess <= Cardinality(db)
  BY <1>1, <1>3, <1>4, EventUploadAssumption DEF Excess
<1>6. IsFiniteSet(db \ D) /\ Cardinality(db \ D) = DbMax - Cardinality(batch)
  BY <1>1, <1>2, <1>4, <1>5, RowsLeft, EventUploadAssumption DEF IInv
<1>7. Cardinality((db \ D) \cup batch) = Cardinality(db \ D) + Cardinality(batch)
  BY <1>1, <1>4, <1>6, DisjointUnion
<1>8. Cardinality((db \ D) \cup batch) = DbMax
  BY <1>1, <1>6, <1>7, EventUploadAssumption
<1> QED
  BY <1>2, <1>4, <1>8

(* A row leaves the table only when the platform has got it, or for want   *)
(* of room, and then no row too many.                                      *)
THEOREM TableKeepsRows == Spec => StoredIsKept
<1> DEFINE Kept ==
        \A r \in db \ db' :
            r \in delivered \/ (batch \cap db = {} /\ Cardinality(db' \cup batch) = DbMax)
<1>1. IInv /\ [Next]_vars => [Kept]_vars
  <2> SUFFICES ASSUME IInv, [Next]_vars PROVE Kept
    OBVIOUS
  <2>1. CASE MakeRoom
    BY <2>1, RoomIsMadeWhenFull
  <2>2. CASE DeleteLog
    <3>1. batch = db /\ batch \subseteq delivered
      BY <2>2 DEF DeleteLog, IInv, WholeTableSent, BatchOK
    <3> QED
      BY <3>1
  <2>3. CASE Store
    BY <2>3 DEF Store
  <2>4. CASE UNCHANGED db
    BY <2>4
  <2> QED
    BY <2>1, <2>2, <2>3, <2>4
    DEF vars, Next, UploadRecord, ExecuteImmediately, Work, Writing, WorkRoutine, ReadLog,
        Upload, UploadFails, WriteFails, WriteLogToDb, LoadLog, SendLog, SendLogFails,
        LogFails, Rearm, SetExit, Stop, SignalExit, Join, Start, Crash
<1> QED
  BY Invariant, <1>1, PTL DEF Spec, StoredIsKept

-----------------------------------------------------------------------------
(* The promise of Outbox, step by step. *)

USE DEF Promise!Kinds

(* Outbox counts as this module does. *)
LEMMA SameCount == \A S : Promise!Cardinality(S) = Cardinality(S)
BY DEF Promise!Cardinality, Cardinality

LEMMA PendingFinite ==
    ASSUME TypeOK
    PROVE  Pending \subseteq 1 .. accepted
BY DEF TypeOK, Pending

LEMMA AcceptImplements ==
    ASSUME IInv, UploadRecord
    PROVE  Promise!Accept
<1> DEFINE waiting == (IF pc \in {"upload", "trim", "store"} THEN batch ELSE {})
                         \cup (IF pc = "delete" THEN db \ batch ELSE db)
<1>1. Pending = mem \cup waiting /\ Pending' = mem' \cup waiting
  BY DEF Pending, UploadRecord
<1>2. waiting \cap mem = {}
  BY DEF IInv, BatchOK, Unsent
<1>3. CASE Cardinality(mem) > MemMax
  <2>1. PICK r \in mem : RoomInMem = mem \ {r}
    BY <1>3, OneGoes DEF IInv
  <2>2. r \in Pending /\ Pending' = (Pending \ {r}) \cup {accepted'}
    BY <1>1, <1>2, <2>1 DEF UploadRecord
  <2>3. mem \subseteq Pending /\ IsFiniteSet(Pending) /\ Cardinality(Pending) \in Nat
        /\ Cardinality(mem) \in Nat
    BY <1>1, PendingFinite, RecordsFinite DEF IInv, TypeOK
  <2>4. Cardinality(mem) <= Cardinality(Pending)
    BY <2>3, FS_Subset
  <2>5. Cardinality(Pending) > MemMax
    BY <1>3, <2>3, <2>4, EventUploadAssumption
  <2>6. accepted' = accepted + 1 /\ UNCHANGED <<delivered, faults>>
    BY DEF UploadRecord
  <2> QED
    BY <2>2, <2>5, <2>6, SameCount DEF Promise!Accept
<1>4. CASE ~(Cardinality(mem) > MemMax)
  BY <1>1, <1>4 DEF Promise!Accept, UploadRecord, RoomInMem
<1> QED
  BY <1>3, <1>4

LEMMA MakeRoomImplements ==
    ASSUME IInv, MakeRoom
    PROVE  Promise!Overflow \/ UNCHANGED Promise!vars
<1>1. PICK D \in Rows(Excess) : db' = db \ D
  BY DEF MakeRoom
<1>2. /\ Pending = mem \cup batch \cup db /\ Pending' = mem \cup batch \cup (db \ D)
      /\ D \subseteq db /\ D \cap (mem \cup batch) = {}
  BY <1>1 DEF MakeRoom, Pending, Rows, IInv, BatchOK, Unsent
<1>3. Pending' = Pending \ D /\ D \in SUBSET Pending
  BY <1>2
<1>4. CASE db' = db
  BY <1>2, <1>4 DEF Promise!vars, MakeRoom, Pending
<1>5. CASE db' # db
  <2>1. Cardinality((db \ D) \cup batch) = DbMax
    BY <1>1, <1>5, RoomIsMadeWhenFull
  <2>2. (db \ D) \cup batch \subseteq Pending \ D /\ IsFiniteSet(Pending \ D)
        /\ Cardinality(Pending \ D) \in Nat
    <3>1. Pending \ D \subseteq 1 .. accepted
      BY PendingFinite DEF IInv
    <3> QED
      BY <1>2, <3>1, RecordsFinite DEF IInv
  <2>3. Cardinality(Pending \ D) >= DbMax
    BY <2>1, <2>2, FS_Subset
  <2>4. Cardinality(Pending \ D) >= MemMax
    BY <2>2, <2>3, EventUploadAssumption
  <2>5. UNCHANGED <<accepted, delivered, faults>>
    BY DEF MakeRoom
  <2> QED
    BY <1>3, <2>4, <2>5, SameCount DEF Promise!Overflow
<1> QED
  BY <1>4, <1>5

(* Steps that move records about, or none at all. *)
LEMMA Moves ==
    ASSUME IInv,
           \/ \E r \in signalling : ExecuteImmediately(r)
           \/ WorkRoutine \/ ReadLog \/ WriteLogToDb \/ LoadLog \/ DeleteLog \/ Rearm
           \/ SetExit \/ Stop \/ Start
    PROVE  UNCHANGED Promise!vars
<1> USE DEF Promise!vars, Pending, IInv, BatchOK, WholeTableSent, Unsent, Sent
<1>1. CASE \E r \in signalling : ExecuteImmediately(r)
  BY <1>1 DEF ExecuteImmediately
<1>2. CASE WorkRoutine \/ Rearm \/ SetExit \/ Stop
  BY <1>2 DEF WorkRoutine, Rearm, SetExit, Stop, SignalExit, Join, PhaseOK
<1>3. CASE ReadLog
  <2>1. batch' = mem /\ mem' = {} /\ pc' = IF mem # {} THEN "upload" ELSE "load"
    BY <1>3, FirstIsAll DEF ReadLog, ReadLogFromMem
  <2> QED
    BY <1>3, <2>1 DEF ReadLog
<1>4. CASE WriteLogToDb /\ mem # {}
  <2>1. batch' = mem /\ mem' = {} /\ pc' = "trim"
    BY <1>4, FirstIsAll DEF WriteLogToDb, ReadLogFromMem
  <2> QED
    BY <1>4, <2>1 DEF WriteLogToDb
<1>5. CASE WriteLogToDb /\ mem = {}
  BY <1>5 DEF WriteLogToDb, WritingEnds
<1>6. CASE LoadLog
  BY <1>6 DEF LoadLog
<1>7. CASE DeleteLog
  <2>1. db' = {} /\ batch = db
    BY <1>7, AllDeleted DEF DeleteLog
  <2> QED
    BY <1>7, <2>1 DEF DeleteLog
<1>8. CASE Start
  BY <1>8 DEF Start, PhaseOK
<1> QED
  BY <1>1, <1>2, <1>3, <1>4, <1>5, <1>6, <1>7, <1>8

LEMMA FaultIsFault ==
    ASSUME NEW k, Fault(k)
    PROVE  Promise!Fault(k)
BY DEF Fault, Promise!Fault

LEMMA PlatformSteps ==
    ASSUME IInv, Upload \/ SendLog \/ UploadFails \/ SendLogFails
    PROVE  Promise!Deliver \/ Promise!Refuse \/ Promise!LoseAnswer
<1> USE DEF Pending, IInv, BatchOK, WholeTableSent, Unsent, Sent
<1>1. CASE Upload \/ SendLog
  <2>1. batch \in SUBSET Pending /\ Pending' = Pending \ batch
    BY <1>1 DEF Upload, SendLog
  <2> QED
    BY <1>1, <2>1 DEF Upload, SendLog, Promise!Deliver
<1>2. CASE UploadFails \/ SendLogFails
  <2>1. batch \in SUBSET Pending /\ Pending' = Pending /\ accepted' = accepted
    BY <1>2 DEF UploadFails, SendLogFails
  <2> QED
    BY <1>2, <2>1, FaultIsFault
    DEF UploadFails, SendLogFails, NotAnswered, Promise!Refuse, Promise!LoseAnswer
<1> QED
  BY <1>1, <1>2

LEMMA FailingSteps ==
    ASSUME IInv, Store \/ WriteFails \/ LogFails \/ Crash
    PROVE  Promise!Fail \/ UNCHANGED Promise!vars
<1> USE DEF Pending, IInv, BatchOK, WholeTableSent, Unsent, Sent
<1>1. CASE Store
  <2>1. CASE db' = db \cup batch /\ UNCHANGED faults
    BY <1>1, <2>1 DEF Store, Promise!vars
  <2>2. CASE Fault("database") /\ \E S \in SUBSET batch : db' = db \cup S
    <3>1. Pending' \in SUBSET (Pending \cup delivered)
      BY <1>1, <2>2 DEF Store
    <3> QED
      BY <1>1, <2>2, <3>1, FaultIsFault DEF Store, Promise!Fail
  <2> QED
    BY <1>1, <2>1, <2>2 DEF Store
<1>2. CASE WriteFails
  <2>1. Pending' \in SUBSET (Pending \cup delivered)
    BY <1>2 DEF WriteFails, WritingEnds
  <2> QED
    BY <1>2, <2>1, FaultIsFault DEF WriteFails, Promise!Fail
<1>3. CASE LogFails
  <2>1. Pending' \in SUBSET (Pending \cup delivered)
    BY <1>3 DEF LogFails
  <2> QED
    BY <1>3, <2>1, FaultIsFault DEF LogFails, Promise!Fail
<1>4. CASE Crash
  <2>1. Pending' \in SUBSET (Pending \cup delivered)
    BY <1>4 DEF Crash
  <2> QED
    BY <1>4, <2>1, FaultIsFault DEF Crash, Promise!Fail
<1> QED
  BY <1>1, <1>2, <1>3, <1>4

LEMMA StepImplements == IInv /\ [Next]_vars => [Promise!Next]_(Promise!vars)
<1> SUFFICES ASSUME IInv, [Next]_vars PROVE [Promise!Next]_(Promise!vars)
  OBVIOUS
<1>1. CASE UNCHANGED vars
  BY <1>1 DEF vars, Promise!vars, Pending
<1>2. CASE Next
  BY <1>2, AcceptImplements, MakeRoomImplements, Moves, PlatformSteps, FailingSteps
  DEF Next, Work, Writing, Promise!Next
<1> QED
  BY <1>1, <1>2

(* Records are lost only for want of room, with a crash or an error of the *)
(* database, and delivered again only with one of these or a lost answer.  *)
THEOREM KeepsPromise == Spec => PromiseSpec
<1>1. Init => Promise!Init
  BY DEF Init, Promise!Init, Pending
<1> QED
  BY Invariant, StepImplements, <1>1, PTL DEF Spec, PromiseSpec, Promise!Spec

(* Without a lost answer, an error of the database or a crash no record is *)
(* delivered twice: what still waits has not been delivered.               *)
THEOREM NoRecordTwice == Spec => []DeliveredOnce
<1>1. Init => DeliveredOnce
  BY DEF Init, DeliveredOnce
<1>2. IInv /\ DeliveredOnce /\ [Next]_vars => DeliveredOnce'
  <2> SUFFICES ASSUME IInv, DeliveredOnce, [Next]_vars,
                      \A k \in Kinds \ {"refused"} : faults'[k] = 0
               PROVE  Pending' \cap delivered' = {}
    BY DEF DeliveredOnce
  <2>1. [Promise!Next]_(Promise!vars) /\ faults \in [Kinds -> Nat]
    BY StepImplements DEF IInv, TypeOK
  <2>2. CASE Promise!Accept
    <3>1. accepted + 1 \notin delivered
      BY DEF IInv, TypeOK
    <3>2. Pending \cap delivered = {}
      BY <2>2 DEF Promise!Accept, DeliveredOnce
    <3> QED
      BY <2>2, <3>1, <3>2 DEF Promise!Accept
  <2>3. CASE Promise!Deliver
    BY <2>3 DEF Promise!Deliver, DeliveredOnce
  <2>4. CASE Promise!Overflow
    BY <2>4 DEF Promise!Overflow, DeliveredOnce
  <2>5. CASE Promise!Refuse
    BY <2>1, <2>5 DEF Promise!Refuse, Promise!Fault, DeliveredOnce
  <2>6. CASE Promise!LoseAnswer \/ Promise!Fail
    <3>1. PICK k \in Kinds \ {"refused"} : faults' = [faults EXCEPT ![k] = @ + 1]
      BY <2>6 DEF Promise!LoseAnswer, Promise!Fail, Promise!Fault
    <3>2. faults'[k] = faults[k] + 1 /\ faults[k] \in Nat
      BY <2>1, <3>1
    <3> QED
      BY <3>2
  <2>7. CASE UNCHANGED Promise!vars
    BY <2>7 DEF Promise!vars, DeliveredOnce
  <2> QED
    BY <2>1, <2>2, <2>3, <2>4, <2>5, <2>6, <2>7 DEF Promise!Next
<1> QED
  BY Invariant, <1>1, <1>2, PTL DEF Spec
=============================================================================
