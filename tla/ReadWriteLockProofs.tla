------------------------- MODULE ReadWriteLockProofs -------------------------
(***************************************************************************)
(* The lock is a read-write lock for any finite number of threads and any  *)
(* depth: it implements ReadersWriters, its counters agree with its        *)
(* threads, and it halts only when a reader reads again.                   *)
(***************************************************************************)
EXTENDS ReadWriteLock, FiniteSetTheorems, TLAPS

(* How the sets that the counters count change with one thread.            *)

Places(f) == {p \in Threads \X (1 .. MaxDepth) : p[2] <= f[p[1]]}

LEMMA PlacesFinite ==
    ASSUME NEW f \in [Threads -> 0 .. MaxDepth]
    PROVE  /\ IsFiniteSet(Places(f)) /\ Cardinality(Places(f)) \in Nat
           /\ Cardinality(Places(f)) = 0 <=> \A t \in Threads : f[t] = 0
  <1>1. IsFiniteSet(Threads \X (1 .. MaxDepth))
    <2>1. IsFiniteSet(1 .. MaxDepth) /\ IsFiniteSet(Threads)
      BY FS_Interval, ReadWriteLockAssumption
    <2>2. QED
      BY ONLY <2>1, FS_Product, Zenon
  <1>2. Places(f) \subseteq Threads \X (1 .. MaxDepth)
    BY DEF Places
  <1>3. ASSUME NEW t \in Threads, f[t] # 0 PROVE <<t, 1>> \in Places(f)
    BY <1>3, ReadWriteLockAssumption DEF Places
  <1>4. ASSUME NEW p \in Places(f) PROVE p[1] \in Threads /\ f[p[1]] # 0
    BY <1>4, ReadWriteLockAssumption DEF Places
  <1>5. Places(f) = {} <=> \A t \in Threads : f[t] = 0
    BY <1>3, <1>4
  <1>6. QED
    BY <1>1, <1>2, <1>5, FS_Subset, FS_CardinalityType, FS_EmptySet

(* The same of the places that readers have, now and after a step.         *)
LEMMA PlacesNow ==
    ASSUME reads \in [Threads -> 0 .. MaxDepth]
    PROVE  /\ IsFiniteSet(ReadPlaces) /\ Cardinality(ReadPlaces) \in Nat
           /\ Cardinality(ReadPlaces) = 0 <=> \A t \in Threads : reads[t] = 0
  <1>1. ReadPlaces = Places(reads)
    BY DEF ReadPlaces, Places
  <1>2. QED
    BY <1>1, PlacesFinite

LEMMA PlacesNext ==
    ASSUME reads' \in [Threads -> 0 .. MaxDepth]
    PROVE  /\ Cardinality(ReadPlaces') \in Nat
           /\ Cardinality(ReadPlaces') = 0 <=> \A t \in Threads : reads'[t] = 0
  <1>1. ReadPlaces' = Places(reads')
    BY DEF ReadPlaces, Places
  <1>2. QED
    BY <1>1, PlacesFinite

LEMMA PlaceTaken ==
    ASSUME reads \in [Threads -> 0 .. MaxDepth], NEW t \in Threads, reads[t] < MaxDepth,
           reads' = [reads EXCEPT ![t] = @ + 1]
    PROVE  Cardinality(ReadPlaces') = Cardinality(ReadPlaces) + 1
  <1> DEFINE p == <<t, reads[t] + 1>>
  <1>1. reads[t] \in Nat /\ MaxDepth \in Nat /\ \A u \in Threads : reads[u] \in 0 .. MaxDepth
    BY ReadWriteLockAssumption
  <1>2. p \in Threads \X (1 .. MaxDepth) /\ p \notin ReadPlaces
    BY <1>1 DEF ReadPlaces
  <1>3. ASSUME NEW q \in Threads \X (1 .. MaxDepth)
        PROVE  q \in ReadPlaces' <=> q \in ReadPlaces \/ q = p
    <2>1. PICK u \in Threads, i \in 1 .. MaxDepth : q = <<u, i>>
      OBVIOUS
    <2>2. CASE u = t
      <3>1. reads'[u] = reads[t] + 1
        BY <2>2
      <3>2. i <= reads[t] + 1 <=> i <= reads[t] \/ i = reads[t] + 1
        BY <1>1
      <3>3. QED
        BY <2>1, <2>2, <3>1, <3>2 DEF ReadPlaces
    <2>3. CASE u # t
      <3>1. reads'[u] = reads[u]
        BY <2>3
      <3>2. QED
        BY <2>1, <2>3, <3>1 DEF ReadPlaces
    <2>4. QED
      BY <2>2, <2>3
  <1>4. ReadPlaces' = ReadPlaces \cup {p}
    BY <1>2, <1>3 DEF ReadPlaces
  <1>5. QED
    BY <1>2, <1>4, PlacesNow, FS_AddElement

LEMMA PlaceLeft ==
    ASSUME reads \in [Threads -> 0 .. MaxDepth], NEW t \in Threads, reads[t] > 0,
           reads' = [reads EXCEPT ![t] = @ - 1]
    PROVE  /\ Cardinality(ReadPlaces') = Cardinality(ReadPlaces) - 1
           /\ reads' \in [Threads -> 0 .. MaxDepth]
  <1> DEFINE p == <<t, reads[t]>>
  <1>1. /\ reads[t] \in 1 .. MaxDepth /\ MaxDepth \in Nat
        /\ \A u \in Threads : reads[u] \in 0 .. MaxDepth
    BY ReadWriteLockAssumption
  <1>2. p \in ReadPlaces
    BY <1>1 DEF ReadPlaces
  <1>3. ASSUME NEW q \in Threads \X (1 .. MaxDepth)
        PROVE  q \in ReadPlaces' <=> q \in ReadPlaces /\ q # p
    <2>1. PICK u \in Threads, i \in 1 .. MaxDepth : q = <<u, i>>
      OBVIOUS
    <2>2. CASE u = t
      <3>1. reads'[u] = reads[t] - 1
        BY <2>2
      <3>2. i <= reads[t] - 1 <=> i <= reads[t] /\ i # reads[t]
        BY <1>1
      <3>3. QED
        BY <2>1, <2>2, <3>1, <3>2 DEF ReadPlaces
    <2>3. CASE u # t
      <3>1. reads'[u] = reads[u]
        BY <2>3
      <3>2. QED
        BY <2>1, <2>3, <3>1 DEF ReadPlaces
    <2>4. QED
      BY <2>2, <2>3
  <1>4. ReadPlaces' = ReadPlaces \ {p}
    BY <1>2, <1>3 DEF ReadPlaces
  <1>5. Cardinality(ReadPlaces') = Cardinality(ReadPlaces) - 1
    BY <1>2, <1>4, PlacesNow, FS_RemoveElement
  <1>6. reads' \in [Threads -> 0 .. MaxDepth]
    BY <1>1
  <1>7. QED
    BY <1>5, <1>6

Kinds == {"none", "read", "write", "claim"}

LEMMA WaitingFinite ==
    ASSUME NEW k \in Kinds
    PROVE  /\ IsFiniteSet(Waiting(k)) /\ Cardinality(Waiting(k)) \in Nat
           /\ Cardinality(Waiting(k)) = 0 <=> \A t \in Threads : waits[t] # k
  <1>1. IsFiniteSet(Waiting(k))
    BY FS_Subset, ReadWriteLockAssumption DEF Waiting
  <1>2. QED
    BY <1>1, FS_CardinalityType, FS_EmptySet DEF Waiting

(* A thread that begins to wait, or that stops waiting.                    *)
LEMMA WaitingChanges ==
    ASSUME waits \in [Threads -> Kinds], NEW t \in Threads,
           NEW k \in Kinds, waits[t] # k, waits' = [waits EXCEPT ![t] = k],
           NEW j \in Kinds
    PROVE  Cardinality(Waiting(j)') = CASE j = k -> Cardinality(Waiting(j)) + 1
                                        [] j = waits[t] -> Cardinality(Waiting(j)) - 1
                                        [] OTHER -> Cardinality(Waiting(j))
  <1>1. CASE j = k
    <2>1. Waiting(j)' = Waiting(j) \cup {t} /\ t \notin Waiting(j)
      BY <1>1 DEF Waiting
    <2>2. QED
      BY <1>1, <2>1, WaitingFinite, FS_AddElement
  <1>2. CASE j = waits[t] /\ j # k
    <2>1. Waiting(j)' = Waiting(j) \ {t} /\ t \in Waiting(j)
      BY <1>2 DEF Waiting
    <2>2. QED
      BY <1>2, <2>1, WaitingFinite, FS_RemoveElement
  <1>3. CASE j # waits[t] /\ j # k
    <2>1. Waiting(j)' = Waiting(j)
      BY <1>3 DEF Waiting
    <2>2. QED
      BY <1>3, <2>1
  <1>4. QED
    BY <1>1, <1>2, <1>3

-----------------------------------------------------------------------------
(* The inductive invariant.  Free or read: nobody writes and no post is on *)
(* its way.  Taken by a writer: nobody reads, and the place is on its way  *)
(* to a waiting writer, in the hands of one that was woken, or used by the *)
(* one that writes.                                                        *)

Readable ==
    /\ \A t \in Threads : writes[t] = 0 /\ waits[t] # "claim"
    /\ _write_event = 0 /\ _writing_thread = NoThread
    /\ _rw_num = Cardinality(ReadPlaces) + _read_semaphore
    /\ _waiting_write_num = 0 => _waiting_read_num = 0
    /\ _rw_num = 0 => _waiting_write_num = 0

Posted ==
    /\ _write_event = 1 /\ _rw_num = -1 /\ _writing_thread = NoThread
    /\ \A t \in Threads : writes[t] = 0 /\ waits[t] # "claim"

Claimed ==
    /\ _write_event = 0 /\ _rw_num = -1 /\ _writing_thread = NoThread
    /\ \A t \in Threads : writes[t] = 0
    /\ \E w \in Threads : \A t \in Threads : waits[t] = "claim" <=> t = w

Written ==
    /\ _write_event = 0 /\ _writing_thread \in Threads
    /\ _rw_num = -writes[_writing_thread] /\ waits[_writing_thread] = "none"
    /\ \A t \in Threads : waits[t] # "claim" /\ (t # _writing_thread => writes[t] = 0)

Taken ==
    /\ \A t \in Threads : reads[t] = 0
    /\ _read_semaphore = 0
    /\ Posted \/ Claimed \/ Written

WaitersCounted ==
    /\ Cardinality(Waiting("read")) = _waiting_read_num + _read_semaphore
    /\ Cardinality(Waiting("write")) = _waiting_write_num + _write_event
    /\ \A t \in Threads :
          /\ waits[t] = "read" => reads[t] < MaxDepth /\ writes[t] = 0
          /\ waits[t] \in {"write", "claim"} => reads[t] = 0 /\ writes[t] = 0

LockInv ==
    /\ TypeOK /\ WaitersCounted
    /\ _rw_num >= 0 => Readable
    /\ _rw_num < 0 => Taken

LEMMA InitLockInv == Init => LockInv
  <1> SUFFICES ASSUME Init PROVE LockInv
    OBVIOUS
  <1>1. /\ \A t \in Threads : waits[t] = "none" /\ reads[t] = 0 /\ writes[t] = 0
        /\ reads \in [Threads -> 0 .. MaxDepth] /\ writes \in [Threads -> 0 .. MaxDepth]
    BY ReadWriteLockAssumption DEF Init
  <1>2. TypeOK
    BY <1>1, ReadWriteLockAssumption DEF Init, TypeOK
  <1>3. Cardinality(ReadPlaces) = 0
    BY <1>1, PlacesNow
  <1>4. Cardinality(Waiting("read")) = 0 /\ Cardinality(Waiting("write")) = 0
    BY <1>1, WaitingFinite DEF Kinds
  <1>5. QED
    BY <1>1, <1>2, <1>3, <1>4, ReadWriteLockAssumption
    DEF Init, LockInv, WaitersCounted, Readable

(* A thread that enters to read.                                           *)
LEMMA EnterReadKeeps ==
    ASSUME LockInv, NEW t \in Threads, EnterRead(t)
    PROVE  LockInv'
  <1> USE DEF LockInv, TypeOK
  <1>1. /\ waits[t] = "none" /\ writes[t] = 0 /\ reads[t] \in 0 .. MaxDepth /\ reads[t] < MaxDepth
        /\ UNCHANGED <<_waiting_write_num, _writing_thread, _read_semaphore, _write_event, writes>>
    BY ReadWriteLockAssumption DEF EnterRead
  <1>2. CASE IsWriting
    <2>1. /\ _waiting_read_num' = _waiting_read_num + 1
          /\ waits' = [waits EXCEPT ![t] = "read"]
          /\ _rw_num' = _rw_num /\ reads' = reads
      BY <1>2 DEF EnterRead
    <2>2. /\ Cardinality(Waiting("read")') = Cardinality(Waiting("read")) + 1
          /\ Cardinality(Waiting("write")') = Cardinality(Waiting("write"))
      BY <1>1, <2>1, WaitingChanges DEF Kinds
    <2>3. TypeOK' /\ ReadPlaces' = ReadPlaces
      BY <1>1, <2>1 DEF ReadPlaces
    <2>4. WaitersCounted'
      <3>1. Cardinality(Waiting("read")) \in Nat /\ Cardinality(Waiting("write")) \in Nat
        BY WaitingFinite DEF Kinds
      <3>2. QED
        BY <1>1, <2>1, <2>2, <3>1 DEF WaitersCounted
    <2>5. _rw_num >= 0 => Readable'
      BY <1>1, <1>2, <2>1, <2>3 DEF Readable, IsWriting
    <2>6. _rw_num < 0 => Taken'
      <3> SUFFICES ASSUME _rw_num < 0 PROVE Taken'
        OBVIOUS
      <3>1. CASE Posted
        BY <1>1, <2>1, <3>1 DEF Taken, Posted
      <3>2. CASE Claimed
        BY <1>1, <2>1, <3>2 DEF Taken, Claimed
      <3>3. CASE Written
        <4>1. t # _writing_thread
          BY <1>1, <3>3 DEF Written
        <4>2. QED
          BY <1>1, <2>1, <3>3, <4>1 DEF Taken, Written
      <3>4. QED
        BY <3>1, <3>2, <3>3 DEF Taken
    <2>7. QED
      BY <2>1, <2>3, <2>4, <2>5, <2>6
  <1>3. CASE ~IsWriting
    <2>1. /\ _rw_num' = _rw_num + 1 /\ reads' = [reads EXCEPT ![t] = @ + 1]
          /\ _waiting_read_num' = _waiting_read_num /\ waits' = waits
          /\ _rw_num >= 0 /\ _waiting_write_num = 0
      BY <1>3 DEF EnterRead, IsWriting
    <2>2. Cardinality(ReadPlaces') = Cardinality(ReadPlaces) + 1
          /\ Cardinality(ReadPlaces) \in Nat
      BY <1>1, <2>1, PlaceTaken, PlacesNow
    <2>3. TypeOK'
      BY <1>1, <2>1, ReadWriteLockAssumption
    <2>4. WaitersCounted'
      BY <1>1, <2>1, ReadWriteLockAssumption DEF WaitersCounted, Waiting
    <2>5. Readable'
      BY <1>1, <2>1, <2>2 DEF Readable
    <2>6. QED
      BY <2>1, <2>3, <2>4, <2>5
  <1>4. QED
    BY <1>2, <1>3

(* A waiting reader takes a permit, whose place was taken for it.          *)
LEMMA WakeReaderKeeps ==
    ASSUME LockInv, NEW t \in Threads, WakeReader(t)
    PROVE  LockInv'
  <1> USE DEF LockInv, TypeOK
  <1>1. /\ waits[t] = "read" /\ _read_semaphore > 0
        /\ _read_semaphore' = _read_semaphore - 1
        /\ waits' = [waits EXCEPT ![t] = "none"]
        /\ reads' = [reads EXCEPT ![t] = @ + 1]
        /\ UNCHANGED <<counters, _writing_thread, _write_event, writes>>
        /\ reads[t] \in 0 .. MaxDepth /\ reads[t] < MaxDepth
    BY DEF WakeReader, WaitersCounted
  <1>2. _rw_num >= 0
    BY <1>1 DEF Taken
  <1>3. /\ Cardinality(ReadPlaces') = Cardinality(ReadPlaces) + 1
        /\ Cardinality(ReadPlaces) \in Nat
    BY <1>1, PlaceTaken, PlacesNow
  <1>4. /\ Cardinality(Waiting("read")') = Cardinality(Waiting("read")) - 1
        /\ Cardinality(Waiting("write")') = Cardinality(Waiting("write"))
        /\ Cardinality(Waiting("read")) \in Nat /\ Cardinality(Waiting("write")) \in Nat
    BY <1>1, WaitingChanges, WaitingFinite DEF Kinds
  <1>5. TypeOK'
    BY <1>1, ReadWriteLockAssumption DEF counters
  <1>6. WaitersCounted'
    BY <1>1, <1>4 DEF WaitersCounted, counters
  <1>7. Readable'
    BY <1>1, <1>2, <1>3 DEF Readable, counters
  <1>8. QED
    BY <1>1, <1>2, <1>5, <1>6, <1>7 DEF counters

(* The last reader gives its place to a waiting writer.                    *)
LEMMA LeaveReadKeeps ==
    ASSUME LockInv, NEW t \in Threads, LeaveRead(t)
    PROVE  LockInv' /\ _rw_num > 0
  <1> USE DEF LockInv, TypeOK
  <1>1. /\ waits[t] = "none" /\ reads[t] > 0
        /\ reads' = [reads EXCEPT ![t] = @ - 1]
        /\ UNCHANGED <<_waiting_read_num, _writing_thread, _read_semaphore, waits, writes>>
    BY DEF LeaveRead
  <1>2. /\ Cardinality(ReadPlaces') = Cardinality(ReadPlaces) - 1
        /\ reads' \in [Threads -> 0 .. MaxDepth]
        /\ Cardinality(ReadPlaces) \in Nat /\ Cardinality(ReadPlaces) # 0
        /\ Cardinality(ReadPlaces') \in Nat
    <2>1. Cardinality(ReadPlaces) # 0 /\ Cardinality(ReadPlaces) \in Nat
      BY <1>1, PlacesNow
    <2>2. /\ Cardinality(ReadPlaces') = Cardinality(ReadPlaces) - 1
          /\ reads' \in [Threads -> 0 .. MaxDepth]
      BY <1>1, PlaceLeft
    <2>3. QED
      BY <2>1, <2>2
  <1>3. _rw_num > 0 /\ Readable
    BY <1>1, <1>2 DEF Taken, Readable
  <1>4. Waiting("read")' = Waiting("read") /\ Waiting("write")' = Waiting("write")
    BY <1>1 DEF Waiting
  <1>5. CASE _rw_num = 1 /\ _waiting_write_num > 0
    <2>1. /\ _write_event' = 1 /\ _waiting_write_num' = _waiting_write_num - 1 /\ _rw_num' = -1
          /\ _write_event = 0
      BY <1>3, <1>5 DEF LeaveRead, Readable
    <2>2. Cardinality(ReadPlaces') = 0 /\ _read_semaphore = 0
      BY <1>2, <1>3, <1>5 DEF Readable
    <2>3. \A u \in Threads : reads'[u] = 0
      BY <1>2, <2>2, PlacesNext
    <2>4. TypeOK'
      BY <1>1, <1>2, <1>5, <2>1
    <2>5. WaitersCounted'
      BY <1>1, <1>4, <2>1, <2>3, ReadWriteLockAssumption DEF WaitersCounted
    <2>6. Taken'
      BY <1>1, <1>3, <2>1, <2>2, <2>3 DEF Taken, Posted, Readable
    <2>7. QED
      BY <1>3, <2>1, <2>4, <2>5, <2>6
  <1>6. CASE ~(_rw_num = 1 /\ _waiting_write_num > 0)
    <2>1. _rw_num' = _rw_num - 1 /\ UNCHANGED <<_write_event, _waiting_write_num>>
      BY <1>6 DEF LeaveRead
    <2>2. TypeOK'
      BY <1>1, <1>2, <2>1
    <2>3. WaitersCounted'
      BY <1>1, <1>2, <1>4, <2>1, ReadWriteLockAssumption DEF WaitersCounted
    <2>4. Readable'
      BY <1>1, <1>2, <1>3, <1>6, <2>1 DEF Readable
    <2>5. QED
      BY <1>3, <2>1, <2>2, <2>3, <2>4
  <1>7. QED
    BY <1>5, <1>6

(* A thread enters to write when nobody reads and nobody else writes.      *)
LEMMA EnterWriteKeeps ==
    ASSUME LockInv, NEW t \in Threads, EnterWrite(t)
    PROVE  /\ LockInv'
           /\ writes' # writes => \A u \in Threads : reads[u] = 0 /\ (u # t => writes[u] = 0)
  <1> USE DEF LockInv, TypeOK
  <1>1. /\ waits[t] = "none" /\ reads[t] = 0 /\ writes[t] < MaxDepth
        /\ UNCHANGED <<_waiting_read_num, _read_semaphore, _write_event, reads>>
        /\ ReadPlaces' = ReadPlaces
    BY DEF EnterWrite, ReadPlaces
  <1>2. CASE _rw_num = 0
    <2>1. /\ _writing_thread' = t /\ _rw_num' = -1
          /\ writes' = [writes EXCEPT ![t] = @ + 1]
          /\ UNCHANGED <<_waiting_write_num, waits>>
      BY <1>2 DEF EnterWrite
    <2>2. Readable /\ Cardinality(ReadPlaces) = 0 /\ _read_semaphore = 0
      BY <1>2, PlacesNow DEF Readable
    <2>3. \A u \in Threads : reads[u] = 0
      BY <2>2, PlacesNow
    <2>4. writes'[t] = 1 /\ \A u \in Threads : u # t => writes'[u] = 0
      BY <2>1, <2>2 DEF Readable
    <2>5. TypeOK'
      BY <1>1, <2>1, ReadWriteLockAssumption
    <2>6. WaitersCounted'
      <3>1. Waiting("read")' = Waiting("read") /\ Waiting("write")' = Waiting("write")
        BY <2>1 DEF Waiting
      <3>2. QED
        BY <1>1, <2>1, <2>4, <3>1 DEF WaitersCounted
    <2>7. Written'
      BY <1>1, <2>1, <2>2, <2>4 DEF Written, Readable
    <2>8. QED
      BY <1>1, <2>1, <2>2, <2>3, <2>5, <2>6, <2>7 DEF Taken, Readable
  <1>3. CASE _rw_num < 0 /\ _writing_thread = t
    <2>1. /\ _rw_num' = _rw_num - 1 /\ _writing_thread' = _writing_thread
          /\ writes' = [writes EXCEPT ![t] = @ + 1]
          /\ UNCHANGED <<_waiting_write_num, waits>>
      BY <1>3 DEF EnterWrite
    <2>2. Written /\ Taken
      BY <1>3, ReadWriteLockAssumption DEF Taken, Posted, Claimed
    <2>3. writes'[t] = writes[t] + 1 /\ \A u \in Threads : u # t => writes'[u] = 0
      BY <1>3, <2>1, <2>2 DEF Written
    <2>4. TypeOK'
      BY <1>1, <2>1, ReadWriteLockAssumption
    <2>5. WaitersCounted'
      <3>1. Waiting("read")' = Waiting("read") /\ Waiting("write")' = Waiting("write")
        BY <2>1 DEF Waiting
      <3>2. QED
        BY <1>1, <2>1, <2>3, <3>1 DEF WaitersCounted
    <2>6. Written'
      BY <1>1, <1>3, <2>1, <2>2, <2>3 DEF Written
    <2>7. QED
      BY <1>1, <1>3, <2>1, <2>2, <2>4, <2>5, <2>6 DEF Taken, Written
  <1>4. CASE ~(_rw_num = 0 \/ (_rw_num < 0 /\ _writing_thread = t))
    <2>1. /\ _waiting_write_num' = _waiting_write_num + 1
          /\ waits' = [waits EXCEPT ![t] = "write"]
          /\ UNCHANGED <<_rw_num, _writing_thread, writes>>
      BY <1>4 DEF EnterWrite
    <2>2. /\ Cardinality(Waiting("write")') = Cardinality(Waiting("write")) + 1
          /\ Cardinality(Waiting("read")') = Cardinality(Waiting("read"))
          /\ Cardinality(Waiting("read")) \in Nat /\ Cardinality(Waiting("write")) \in Nat
      BY <1>1, <2>1, WaitingChanges, WaitingFinite DEF Kinds
    <2>3. TypeOK'
      BY <1>1, <2>1
    <2>4. writes[t] = 0
      BY <1>4 DEF Readable, Taken, Posted, Claimed, Written
    <2>5. WaitersCounted'
      BY <1>1, <2>1, <2>2, <2>4 DEF WaitersCounted
    <2>6. _rw_num >= 0 => Readable'
      BY <1>1, <1>4, <2>1 DEF Readable
    <2>7. _rw_num < 0 => Taken'
      <3> SUFFICES ASSUME _rw_num < 0 PROVE Taken'
        OBVIOUS
      <3>1. CASE Posted
        BY <1>1, <2>1, <3>1 DEF Taken, Posted
      <3>2. CASE Claimed
        BY <1>1, <2>1, <3>2 DEF Taken, Claimed
      <3>3. CASE Written
        BY <1>1, <1>4, <2>1, <3>3 DEF Taken, Written
      <3>4. QED
        BY <3>1, <3>2, <3>3 DEF Taken
    <2>8. QED
      BY <2>1, <2>3, <2>5, <2>6, <2>7
  <1>5. QED
    BY <1>2, <1>3, <1>4

(* The event goes to any of the writers that wait.                         *)
LEMMA WakeWriterKeeps ==
    ASSUME LockInv, NEW t \in Threads, WakeWriter(t)
    PROVE  LockInv'
  <1> USE DEF LockInv, TypeOK
  <1>1. /\ waits[t] = "write" /\ _write_event = 1 /\ _write_event' = 0
        /\ waits' = [waits EXCEPT ![t] = "claim"]
        /\ UNCHANGED <<counters, _writing_thread, _read_semaphore, reads, writes>>
    BY DEF WakeWriter
  <1>2. _rw_num < 0 /\ Taken /\ Posted
    BY <1>1 DEF Readable, Taken, Claimed, Written
  <1>3. /\ Cardinality(Waiting("write")') = Cardinality(Waiting("write")) - 1
        /\ Cardinality(Waiting("read")') = Cardinality(Waiting("read"))
        /\ Cardinality(Waiting("read")) \in Nat /\ Cardinality(Waiting("write")) \in Nat
    BY <1>1, WaitingChanges, WaitingFinite DEF Kinds
  <1>4. TypeOK'
    BY <1>1 DEF counters
  <1>5. WaitersCounted'
    BY <1>1, <1>3 DEF WaitersCounted, counters
  <1>6. Claimed'
    BY <1>1, <1>2 DEF Posted, Claimed, counters
  <1>7. QED
    BY <1>1, <1>2, <1>4, <1>5, <1>6 DEF Taken, counters

(* The woken writer records itself.                                        *)
LEMMA ClaimKeeps ==
    ASSUME LockInv, NEW t \in Threads, Claim(t)
    PROVE  LockInv' /\ \A u \in Threads : reads[u] = 0 /\ writes[u] = 0
  <1> USE DEF LockInv, TypeOK
  <1>1. /\ waits[t] = "claim" /\ _writing_thread' = t
        /\ waits' = [waits EXCEPT ![t] = "none"]
        /\ writes' = [writes EXCEPT ![t] = 1]
        /\ UNCHANGED <<counters, _read_semaphore, _write_event, reads>>
    BY DEF Claim
  <1>2. _rw_num < 0 /\ Taken /\ Claimed
    BY <1>1 DEF Readable, Taken, Posted, Written
  <1>3. /\ Cardinality(Waiting("write")') = Cardinality(Waiting("write"))
        /\ Cardinality(Waiting("read")') = Cardinality(Waiting("read"))
    BY <1>1, WaitingChanges DEF Kinds
  <1>4. TypeOK'
    BY <1>1, ReadWriteLockAssumption DEF counters
  <1>5. WaitersCounted'
    BY <1>1, <1>3 DEF WaitersCounted, counters
  <1>6. \A u \in Threads : u # t => writes'[u] = 0 /\ waits'[u] # "claim"
    BY <1>1, <1>2 DEF Claimed
  <1>7. Written'
    BY <1>1, <1>2, <1>6 DEF Claimed, Written, counters
  <1>8. QED
    BY <1>1, <1>2, <1>4, <1>5, <1>7 DEF Taken, Claimed, counters

(* The writer's last leave: to a waiting writer, else to all the readers.  *)
LEMMA LeaveWriteKeeps ==
    ASSUME LockInv, NEW t \in Threads, LeaveWrite(t)
    PROVE  LockInv'
  <1> USE DEF LockInv, TypeOK
  <1>1. /\ waits[t] = "none" /\ writes[t] > 0 /\ writes[t] \in Nat
        /\ writes' = [writes EXCEPT ![t] = @ - 1]
        /\ UNCHANGED <<waits, reads>>
    BY ReadWriteLockAssumption DEF LeaveWrite
  <1>2. _rw_num < 0 /\ Taken /\ Written /\ _writing_thread = t /\ _rw_num = -writes[t]
    BY <1>1 DEF Readable, Taken, Posted, Claimed, Written
  <1>3. /\ writes' \in [Threads -> 0 .. MaxDepth] /\ writes'[t] = writes[t] - 1
        /\ \A u \in Threads : u # t => writes'[u] = 0
        /\ \A u \in Threads : writes[u] = 0 => writes'[u] = 0
    BY <1>1, <1>2, ReadWriteLockAssumption DEF Written
  <1>4. /\ Waiting("read")' = Waiting("read") /\ Waiting("write")' = Waiting("write")
        /\ ReadPlaces' = ReadPlaces
    BY <1>1 DEF Waiting, ReadPlaces
  <1>5. Cardinality(ReadPlaces) = 0
    BY <1>2, PlacesNow DEF Taken
  <1>6. CASE _rw_num = -1
    <2>1. HandOver /\ \A u \in Threads : writes'[u] = 0
      BY <1>2, <1>3, <1>6 DEF LeaveWrite
    <2>2. CASE _waiting_write_num > 0
      <3>1. /\ _writing_thread' = NoThread /\ _write_event' = 1 /\ _rw_num' = -1
            /\ _waiting_write_num' = _waiting_write_num - 1
            /\ UNCHANGED <<_waiting_read_num, _read_semaphore>>
        BY <1>2, <2>1, <2>2 DEF HandOver, Written
      <3>2. TypeOK'
        BY <1>1, <1>3, <2>2, <3>1
      <3>3. WaitersCounted'
        BY <1>1, <1>2, <1>3, <1>4, <3>1 DEF WaitersCounted, Written
      <3>4. Posted'
        BY <1>1, <1>2, <2>1, <3>1 DEF Posted, Written
      <3>5. QED
        BY <1>1, <1>2, <3>1, <3>2, <3>3, <3>4 DEF Taken
    <2>3. CASE ~(_waiting_write_num > 0)
      <3>1. /\ _writing_thread' = NoThread /\ _rw_num' = _waiting_read_num
            /\ _read_semaphore' = _read_semaphore + _waiting_read_num
            /\ _waiting_read_num' = 0 /\ _waiting_write_num = 0
            /\ UNCHANGED <<_write_event, _waiting_write_num>>
        BY <2>1, <2>3 DEF HandOver
      <3>2. TypeOK'
        BY <1>1, <1>3, <3>1
      <3>3. WaitersCounted'
        BY <1>1, <1>3, <1>4, <3>1 DEF WaitersCounted
      <3>4. Readable'
        BY <1>1, <1>2, <1>4, <1>5, <2>1, <3>1 DEF Readable, Taken, Written
      <3>5. QED
        BY <3>1, <3>2, <3>3, <3>4
    <2>4. QED
      BY <2>2, <2>3
  <1>7. CASE _rw_num # -1
    <2>1. /\ _rw_num' = _rw_num + 1
          /\ UNCHANGED <<_writing_thread, _write_event, _read_semaphore,
                         _waiting_read_num, _waiting_write_num>>
      BY <1>7 DEF LeaveWrite
    <2>2. TypeOK'
      BY <1>1, <1>3, <2>1
    <2>3. WaitersCounted'
      BY <1>1, <1>3, <1>4, <2>1 DEF WaitersCounted
    <2>4. Written' /\ _rw_num' < 0
      BY <1>1, <1>2, <1>3, <1>7, <2>1 DEF Written
    <2>5. QED
      BY <1>1, <1>2, <2>1, <2>2, <2>3, <2>4 DEF Taken
  <1>8. QED
    BY <1>6, <1>7

LEMMA NextLockInv == LockInv /\ [Next]_vars => LockInv'
  <1> SUFFICES ASSUME LockInv, [Next]_vars PROVE LockInv'
    OBVIOUS
  <1>1. ASSUME NEW t \in Threads, EnterRead(t) PROVE LockInv'
    BY <1>1, EnterReadKeeps
  <1>2. ASSUME NEW t \in Threads, EnterWrite(t) PROVE LockInv'
    BY <1>2, EnterWriteKeeps
  <1>3. ASSUME NEW t \in Threads, Proceed(t) PROVE LockInv'
    BY <1>3, WakeReaderKeeps, WakeWriterKeeps, ClaimKeeps, LeaveReadKeeps, LeaveWriteKeeps
    DEF Proceed
  <1>4. CASE UNCHANGED vars
    BY <1>4
    DEF vars, counters, LockInv, TypeOK, WaitersCounted, Waiting, ReadPlaces, Readable,
        Taken, Posted, Claimed, Written
  <1>5. QED
    BY <1>1, <1>2, <1>3, <1>4 DEF Next

LEMMA AlwaysLockInv == Spec => []LockInv
  BY InitLockInv, NextLockInv, PTL DEF Spec

(* The counters are never negative and the event is posted once at most.   *)
THEOREM TypeCorrect == Spec => []TypeOK
  <1>1. LockInv => TypeOK
    BY DEF LockInv
  <1>2. QED
    BY <1>1, AlwaysLockInv, PTL

(* Every permit, post and place belongs to a thread that waits or reads.   *)
THEOREM CountersMatchThreads == Spec => []CountersAgree
  <1>1. LockInv => CountersAgree
    BY DEF LockInv, CountersAgree, WaitersCounted, Readable
  <1>2. QED
    BY <1>1, AlwaysLockInv, PTL

(* Somebody can go on, unless a reader waits behind a writer to read again. *)
THEOREM HaltNeedsNesting == Spec => []HaltsOnlyByNesting
  <1>1. ASSUME LockInv, NEW s \in Threads, waits[s] # "none"
        PROVE  \E t \in Threads :
                  \/ waits[t] = "claim"
                  \/ waits[t] = "none" /\ reads[t] + writes[t] > 0
                  \/ waits[t] = "read" /\ _read_semaphore > 0
                  \/ waits[t] = "write" /\ _write_event > 0
                  \/ Nested(t)
    <2> USE <1>1 DEF LockInv, TypeOK
    <2>1. /\ Cardinality(Waiting("read")) \in Nat /\ Cardinality(Waiting("write")) \in Nat
          /\ Cardinality(Waiting("read")) = 0 <=> \A t \in Threads : waits[t] # "read"
          /\ Cardinality(Waiting("write")) = 0 <=> \A t \in Threads : waits[t] # "write"
      BY WaitingFinite DEF Kinds
    <2>2. /\ Cardinality(ReadPlaces) \in Nat
          /\ Cardinality(ReadPlaces) = 0 <=> \A t \in Threads : reads[t] = 0
      BY PlacesNow
    <2>3. \A t \in Threads : reads[t] \in Nat /\ writes[t] \in Nat
      BY ReadWriteLockAssumption
    <2>4. CASE _rw_num = 0
      BY <2>1, <2>2, <2>4 DEF Readable, WaitersCounted
    <2>5. CASE _rw_num > 0 /\ _read_semaphore > 0
      BY <2>1, <2>5 DEF WaitersCounted
    <2>6. CASE _rw_num > 0 /\ _read_semaphore = 0
      <3>1. PICK t \in Threads : reads[t] # 0
        BY <2>2, <2>6 DEF Readable
      <3>2. waits[t] \in {"none", "read"}
        BY <3>1 DEF WaitersCounted
      <3>3. QED
        BY <2>3, <3>1, <3>2 DEF Nested
    <2>7. CASE _rw_num < 0
      <3>1. CASE Posted
        BY <2>1, <3>1 DEF Posted, WaitersCounted
      <3>2. CASE Claimed
        BY <3>2 DEF Claimed
      <3>3. CASE Written
        BY <2>3, <2>7, <3>3 DEF Written
      <3>4. QED
        BY <2>7, <3>1, <3>2, <3>3 DEF Taken
    <2>8. QED
      BY <2>4, <2>5, <2>6, <2>7
  <1>2. LockInv => HaltsOnlyByNesting
    BY <1>1 DEF HaltsOnlyByNesting
  <1>3. QED
    BY <1>2, AlwaysLockInv, PTL

-----------------------------------------------------------------------------
(* Refinement: entering is a step of the promise when the thread gets in   *)
(* at once or when it is woken, and a stutter when it begins to wait.      *)

LEMMA StepIsPromised ==
    ASSUME LockInv, [Next]_vars
    PROVE  [Promise!Next]_<<reads, writes>>
  <1> USE DEF LockInv, TypeOK, Promise!Next
  <1>1. ASSUME NEW t \in Threads, EnterRead(t) PROVE [Promise!Next]_<<reads, writes>>
    <2>1. CASE IsWriting
      BY <1>1, <2>1 DEF EnterRead
    <2>2. CASE ~IsWriting
      <3>1. Promise!Read(t)
        BY <1>1, <2>2, ReadWriteLockAssumption
        DEF EnterRead, IsWriting, Readable, Promise!Read
      <3>2. QED
        BY <3>1
    <2>3. QED
      BY <2>1, <2>2
  <1>2. ASSUME NEW t \in Threads, EnterWrite(t) PROVE [Promise!Next]_<<reads, writes>>
    <2>1. CASE writes' = writes
      BY <1>2, <2>1 DEF EnterWrite
    <2>2. CASE writes' # writes
      <3>1. Promise!Write(t)
        BY <1>2, <2>2, EnterWriteKeeps DEF EnterWrite, Promise!Write
      <3>2. QED
        BY <3>1
    <2>3. QED
      BY <2>1, <2>2
  <1>3. ASSUME NEW t \in Threads, WakeReader(t) PROVE [Promise!Next]_<<reads, writes>>
    <2>1. Promise!Read(t)
      BY <1>3 DEF WakeReader, WaitersCounted, Readable, Taken, Promise!Read
    <2>2. QED
      BY <2>1
  <1>4. ASSUME NEW t \in Threads, Claim(t) PROVE [Promise!Next]_<<reads, writes>>
    <2>1. \A u \in Threads : reads[u] = 0 /\ writes[u] = 0
      BY <1>4, ClaimKeeps
    <2>2. writes[t] + 1 = 1 /\ writes[t] < MaxDepth
      BY <2>1, ReadWriteLockAssumption
    <2>3. writes' = [writes EXCEPT ![t] = @ + 1] /\ reads' = reads
      BY <1>4, <2>2 DEF Claim
    <2>4. Promise!Write(t)
      BY <2>1, <2>2, <2>3 DEF Promise!Write
    <2>5. QED
      BY <2>4
  <1>5. ASSUME NEW t \in Threads, LeaveRead(t) PROVE [Promise!Next]_<<reads, writes>>
    BY <1>5 DEF LeaveRead, Promise!EndRead
  <1>6. ASSUME NEW t \in Threads, LeaveWrite(t) PROVE [Promise!Next]_<<reads, writes>>
    BY <1>6 DEF LeaveWrite, Promise!EndWrite
  <1>7. CASE UNCHANGED <<reads, writes>>
    BY <1>7
  <1>8. QED
    BY <1>1, <1>2, <1>3, <1>4, <1>5, <1>6, <1>7 DEF Next, Proceed, WakeWriter, vars

(* Any number of readers or one writer, whatever the interleaving.         *)
THEOREM IsReadWriteLock == Spec => ReadersWritersSpec
  <1>1. Init => Promise!Init
    BY DEF Init, Promise!Init
  <1>2. QED
    BY <1>1, StepIsPromised, AlwaysLockInv, PTL DEF Spec, ReadersWritersSpec, Promise!Spec
=============================================================================
