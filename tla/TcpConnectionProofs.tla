------------------------- MODULE TcpConnectionProofs -------------------------
(***************************************************************************)
(* A connection only its loop's thread sends on closes once, leaves the    *)
(* scheduler when it does, and until then has a write event or a posted    *)
(* Close to wait for when data waits, unless a Disconnect was refused its  *)
(* Close; for any sizes, limits and number of other threads.               *)
(* Whoever sends, the peer sees whole packets in the order they were taken. *)
(***************************************************************************)
EXTENDS TcpConnection, SequenceTheorems, TLAPS

(* Who holds mutex_; a posted Close runs without it.                       *)
Owner ==
    \A t \in Threads :
        /\ pc[t] \in {"send", "update", "read", "posting"} => mutex_ = t
        /\ mutex_ = t => pc[t] \in {"send", "update", "read", "posting", "closing"}

Arguments == \A t \in Threads : pc[t] = "append" => arg[t] \in Sizes

(* What the other threads do when only the loop's thread sends.            *)
OthersDisconnect ==
    OnlyLoopSends => \A u \in Users : pc[u] \in {"idle", "posting"}

(* Then the loop's thread is past its test of is_closed_ only while it is  *)
(* unset, and the channel is registered exactly as long.                   *)
OpenUntilClosed ==
    OnlyLoopSends =>
        /\ registered = ~is_closed_
        /\ closes = IF is_closed_ THEN 1 ELSE 0
        /\ pc[Loop] \in {"send", "update", "read", "closing"} => ~is_closed_

IInv ==
    TypeOK /\ Owner /\ Arguments /\ OthersDisconnect /\ OpenUntilClosed /\ NoStrandedData

-----------------------------------------------------------------------------
LEMMA Constants ==
    /\ Loop \in Threads /\ Users \subseteq Threads /\ Loop \notin Users
    /\ Free \notin Threads
    /\ Sizes \subseteq Nat \ {0} /\ Capacity \in Nat \ {0} /\ MaxRoom \in Nat \ {0}
  BY TcpConnectionAssumption DEF Threads

LEMMA InitIInv == Init => IInv
  <1> SUFFICES ASSUME Init PROVE IInv
    OBVIOUS
  <1> USE Constants
  <1>1. TypeOK
    <2>1. <<>> \in Seq(Packet) /\ Len(<<>>) = 0
      OBVIOUS
    <2>2. senders \subseteq Threads
      BY DEF Init
    <2>3. pc \in [Threads -> Points] /\ arg \in [Threads -> Sizes \cup {0}]
      BY DEF Init, Points
    <2>4. room \in 0 .. MaxRoom /\ 0 <= Capacity
      BY DEF Init
    <2>5. QED
      BY <2>1, <2>2, <2>3, <2>4 DEF Init, TypeOK
  <1>2. Owner /\ Arguments /\ OthersDisconnect
    BY DEF Init, Owner, Arguments, OthersDisconnect
  <1>3. OpenUntilClosed /\ NoStrandedData
    BY DEF Init, OpenUntilClosed, NoStrandedData
  <1>4. QED
    BY <1>1, <1>2, <1>3 DEF IInv

LEMMA SendIInv ==
    ASSUME IInv, NEW t \in Threads, NEW size \in Sizes, Send(t, size)
    PROVE  IInv'
  <1> USE Constants
  <1>1. /\ pc' = [pc EXCEPT ![t] = "append"] /\ arg' = [arg EXCEPT ![t] = size]
        /\ pc[t] = "idle" /\ t \in senders
        /\ UNCHANGED <<buffer_, writing, registered, is_closed_, posted, refused, closes, room,
                       wire, mutex_, handling, taken, senders>>
    BY DEF Send, Runs, Goto, connVars, closeVars, socketVars
  <1>2. TypeOK'
    BY <1>1 DEF IInv, TypeOK, Points
  <1>3. pc \in [Threads -> Points] /\ arg \in [Threads -> Sizes \cup {0}]
    BY DEF IInv, TypeOK
  <1>4. Owner' /\ Arguments'
    BY <1>1, <1>3 DEF IInv, Owner, Arguments
  <1>5. OthersDisconnect' /\ OpenUntilClosed' /\ NoStrandedData'
    BY <1>1, <1>3 DEF IInv, OthersDisconnect, OpenUntilClosed, NoStrandedData, OnlyLoopSends
  <1>6. QED
    BY <1>2, <1>4, <1>5 DEF IInv

LEMMA AppendPacketIInv ==
    ASSUME IInv, NEW t \in Threads, AppendPacket(t)
    PROVE  IInv'
  <1> USE Constants
  <1> DEFINE packet == [id |-> Len(taken) + 1, size |-> arg[t], writeIndex |-> 0]
  <1>1. /\ pc' = [pc EXCEPT ![t] = "try"] /\ pc[t] = "append"
        /\ arg' = [arg EXCEPT ![t] = 0]
        /\ UNCHANGED <<writing, registered, is_closed_, posted, refused, closes, room, wire,
                       mutex_, handling, senders>>
    BY DEF AppendPacket, Goto, closeVars, socketVars
  <1>2. packet \in Packet
    BY <1>1 DEF IInv, TypeOK, Arguments, Packet
  <1>3. buffer_' \in Seq(Packet) /\ Len(buffer_') <= Capacity /\ taken' \in Seq(Packet)
    <2>1. /\ buffer_ \in Seq(Packet) /\ taken \in Seq(Packet)
          /\ Len(buffer_) \in Nat /\ Len(buffer_) <= Capacity
      BY DEF IInv, TypeOK
    <2>2. CASE Len(buffer_) < Capacity
      <3>1. buffer_' = Append(buffer_, packet) /\ taken' = Append(taken, packet)
        BY <2>2 DEF AppendPacket
      <3>2. QED
        BY <1>2, <2>1, <2>2, <3>1
    <2>3. CASE ~(Len(buffer_) < Capacity)
      BY <2>1, <2>3 DEF AppendPacket
    <2>4. QED
      BY <2>2, <2>3
  <1>4. TypeOK'
    BY <1>1, <1>3 DEF IInv, TypeOK, Points
  <1>5. pc \in [Threads -> Points]
    BY DEF IInv, TypeOK
  <1>6. Owner' /\ Arguments'
    BY <1>1, <1>5 DEF IInv, Owner, Arguments
  <1>7. OthersDisconnect' /\ OpenUntilClosed' /\ NoStrandedData'
    BY <1>1, <1>5 DEF IInv, OthersDisconnect, OpenUntilClosed, NoStrandedData, OnlyLoopSends
  <1>8. QED
    BY <1>4, <1>6, <1>7 DEF IInv

LEMMA SocketTakesIInv ==
    ASSUME IInv, NEW t \in Threads, NEW n \in 1 .. MaxRoom, SocketTakes(t, n)
    PROVE  IInv'
  <1> USE Constants
  <1> DEFINE p == Head(buffer_)
             part == [p EXCEPT !.writeIndex = @ + n]
  <1>1. /\ pc[t] = "send" /\ room' = room - n /\ n <= room
        /\ UNCHANGED <<writing, registered, is_closed_, posted, refused, closes, mutex_, handling,
                       arg, taken, senders>>
        /\ pc' = pc \/ pc' = [pc EXCEPT ![t] = "update"]
    BY DEF SocketTakes, Goto, closeVars
  <1>2. buffer_ \in Seq(Packet) /\ buffer_ # <<>> /\ Len(buffer_) <= Capacity
    BY DEF SocketTakes, IInv, TypeOK
  <1>3. /\ p \in Packet /\ Tail(buffer_) \in Seq(Packet) /\ Len(Tail(buffer_)) = Len(buffer_) - 1
        /\ Len(buffer_) \in Nat
    BY <1>2, HeadTailProperties
  <1>4. part \in Packet
    BY <1>3, SMTT(30) DEF Packet
  <1>5. buffer_' \in Seq(Packet) /\ Len(buffer_') <= Capacity
    <2>1. CASE buffer_' = Tail(buffer_)
      BY <2>1, <1>2, <1>3
    <2>2. CASE buffer_' = <<part>> \o Tail(buffer_)
      <3>1. <<part>> \in Seq(Packet) /\ Len(<<part>>) = 1
        BY <1>4
      <3>2. Len(<<part>> \o Tail(buffer_)) = Len(buffer_)
            /\ <<part>> \o Tail(buffer_) \in Seq(Packet)
        BY <3>1, <1>3, ConcatProperties
      <3>3. QED
        BY <2>2, <3>2, <1>2
    <2>3. QED
      BY <2>1, <2>2 DEF SocketTakes
  <1>6. TypeOK'
    BY <1>1, <1>5 DEF IInv, TypeOK, Points
  <1>7. pc \in [Threads -> Points]
    BY DEF IInv, TypeOK
  <1>8. pc'[t] \in {"send", "update"} /\ \A u \in Threads \ {t} : pc'[u] = pc[u]
    BY <1>1, <1>7
  <1>9. Owner' /\ Arguments'
    BY <1>1, <1>8 DEF IInv, Owner, Arguments
  <1>10. OthersDisconnect' /\ OpenUntilClosed' /\ NoStrandedData'
    BY <1>1, <1>8 DEF IInv, OthersDisconnect, OpenUntilClosed, NoStrandedData, OnlyLoopSends
  <1>11. QED
    BY <1>6, <1>9, <1>10 DEF IInv

(* The other steps of a thread change neither the buffer nor the packets.  *)
LEMMA ThreadIInv ==
    ASSUME IInv, NEW t \in Threads,
           TryLock(t) \/ NothingTaken(t) \/ Update(t) \/ PostClose(t) \/ Close(t)
             \/ SendFails(t) \/ Disconnect(t)
    PROVE  IInv'
  <1> USE Constants
  <1>0. pc \in [Threads -> Points]
    BY DEF IInv, TypeOK
  <1> USE DEF Goto, connVars, closeVars, socketVars
  <1>1. UNCHANGED <<buffer_, wire, taken, handling, arg, senders>>
    BY DEF TryLock, NothingTaken, Update, PostClose, Close, SendFails, Disconnect
  <1>2. CASE TryLock(t)
    <2>1. TypeOK'
      BY <1>2, <1>1 DEF IInv, TypeOK, Points, TryLock
    <2>2. Owner' /\ Arguments' /\ OthersDisconnect' /\ OpenUntilClosed'
      BY <1>0, <1>2, <1>1 DEF IInv, TypeOK, Owner, Arguments, OthersDisconnect, OpenUntilClosed,
         OnlyLoopSends, TryLock
    <2>3. NoStrandedData'
      BY <1>0, <1>2, <1>1 DEF IInv, TypeOK, Owner, OthersDisconnect, NoStrandedData,
         OnlyLoopSends, TryLock, Threads
    <2>4. QED
      BY <2>1, <2>2, <2>3 DEF IInv
  <1>3. CASE NothingTaken(t)
    <2>1. TypeOK'
      BY <1>3, <1>1 DEF IInv, TypeOK, Points, NothingTaken
    <2>2. Owner' /\ Arguments' /\ OthersDisconnect' /\ OpenUntilClosed' /\ NoStrandedData'
      BY <1>0, <1>3, <1>1 DEF IInv, TypeOK, Owner, Arguments, OthersDisconnect, OpenUntilClosed,
         NoStrandedData, OnlyLoopSends, NothingTaken
    <2>3. QED
      BY <2>1, <2>2 DEF IInv
  <1>4. CASE Update(t)
    <2>1. TypeOK'
      BY <1>4, <1>1 DEF IInv, TypeOK, Points, Update
    <2>2. Owner' /\ Arguments' /\ OthersDisconnect'
      BY <1>0, <1>4, <1>1 DEF IInv, Owner, Arguments, OthersDisconnect, OnlyLoopSends, Update
    <2>3. OnlyLoopSends => t = Loop
      BY <1>4 DEF IInv, OthersDisconnect, Update, Threads
    <2>4. OpenUntilClosed'
      BY <1>0, <1>4, <1>1, <2>3 DEF IInv, TypeOK, OpenUntilClosed, OnlyLoopSends, Update
    <2>5. NoStrandedData'
      BY <1>0, <1>4, <1>1, <2>3 DEF IInv, TypeOK, OpenUntilClosed, NoStrandedData, OnlyLoopSends, Update
    <2>6. QED
      BY <2>1, <2>2, <2>4, <2>5 DEF IInv
  <1>5. CASE PostClose(t)
    <2>1. TypeOK'
      <3>1. posted' \in Nat /\ refused' \in BOOLEAN
        <4>1. posted \in Nat /\ refused \in BOOLEAN
          BY DEF IInv, TypeOK
        <4>2. posted' \in {posted, posted + 1}
          BY <1>5 DEF PostClose
        <4>3. posted' \in Nat
          BY <4>1, <4>2
        <4>4. refused' \in {refused, TRUE}
          BY <1>5 DEF PostClose
        <4>5. refused' \in BOOLEAN
          BY <4>1, <4>4, Zenon
        <4>6. QED
          BY <4>3, <4>5
      <3>2. pc' \in [Threads -> Points] /\ mutex_' \in Threads \cup {Free}
        BY <1>0, <1>5 DEF Points, PostClose
      <3>3. UNCHANGED <<writing, registered, is_closed_, closes, room>>
        BY <1>5 DEF PostClose
      <3>4. QED
        BY <1>1, <3>1, <3>2, <3>3 DEF IInv, TypeOK
    <2>2. Owner' /\ Arguments' /\ OthersDisconnect' /\ OpenUntilClosed' /\ NoStrandedData'
      BY <1>0, <1>5, <1>1 DEF IInv, TypeOK, Owner, Arguments, OthersDisconnect, OpenUntilClosed,
         NoStrandedData, OnlyLoopSends, PostClose
    <2>3. QED
      BY <2>1, <2>2 DEF IInv
  <1>6. CASE Close(t)
    <2>1. TypeOK'
      <3>1. pc' \in [Threads -> Points] /\ mutex_' \in Threads \cup {Free} /\ closes' \in Nat
        BY <1>0, <1>6 DEF IInv, TypeOK, Points, Close
      <3>2. QED
        BY <1>6, <1>1, <3>1 DEF IInv, TypeOK, Close
    <2>2. Owner' /\ Arguments' /\ OthersDisconnect'
      BY <1>0, <1>6, <1>1 DEF IInv, TypeOK, Owner, Arguments, OthersDisconnect, OnlyLoopSends, Close
    <2>3. OnlyLoopSends => t = Loop
      BY <1>6 DEF IInv, OthersDisconnect, Close, Threads
    <2>4. OpenUntilClosed'
      <3> SUFFICES ASSUME OnlyLoopSends
                   PROVE  /\ registered' = ~is_closed_' /\ closes' = IF is_closed_' THEN 1 ELSE 0
                          /\ pc'[Loop] = "idle"
        BY <1>1 DEF OpenUntilClosed, OnlyLoopSends
      <3>1. ~is_closed_ /\ closes = 0
        BY <1>6, <2>3 DEF IInv, TypeOK, OpenUntilClosed, Close
      <3>2. closes' = 1 /\ pc'[Loop] = "idle"
        BY <1>0, <1>6, <2>3, <3>1 DEF Close
      <3>3. is_closed_' = TRUE /\ registered' = FALSE
        BY <1>6 DEF Close
      <3>4. QED
        BY <3>2, <3>3
    <2>5. NoStrandedData'
      BY <1>6 DEF NoStrandedData, Close
    <2>6. QED
      BY <2>1, <2>2, <2>4, <2>5 DEF IInv
  <1>7. CASE SendFails(t)
    <2>1. TypeOK'
      BY <1>7, <1>1 DEF IInv, TypeOK, Points, SendFails
    <2>2. Owner' /\ Arguments' /\ OthersDisconnect' /\ OpenUntilClosed' /\ NoStrandedData'
      BY <1>0, <1>7, <1>1 DEF IInv, TypeOK, Owner, Arguments, OthersDisconnect, OpenUntilClosed,
         NoStrandedData, OnlyLoopSends, SendFails, Threads
    <2>3. QED
      BY <2>1, <2>2 DEF IInv
  <1>8. CASE Disconnect(t)
    <2>1. TypeOK'
      BY <1>8, <1>1 DEF IInv, TypeOK, Points, Disconnect
    <2>2. Owner' /\ Arguments' /\ OthersDisconnect' /\ OpenUntilClosed' /\ NoStrandedData'
      BY <1>0, <1>8, <1>1 DEF IInv, TypeOK, Owner, Arguments, OthersDisconnect, OpenUntilClosed,
         NoStrandedData, OnlyLoopSends, Disconnect
    <2>3. QED
      BY <2>1, <2>2 DEF IInv
  <1>9. QED
    BY <1>2, <1>3, <1>4, <1>5, <1>6, <1>7, <1>8

(* What the loop's thread does for the channel. *)
LEMMA LoopIInv ==
    ASSUME IInv,
           LoopProceeds \/ RunClose \/ ReadFails \/ LockAndClose("callback") \/ PeerReads
             \/ \E events \in Reported : HandleEvent(events)
    PROVE  IInv'
  <1> USE Constants
  <1>0. pc \in [Threads -> Points]
    BY DEF IInv, TypeOK
  <1> USE DEF Goto, connVars, closeVars, socketVars, LoopProceeds, HandleRead, ReadWorks,
              ReadCallbackReturns, WriteCallback, RunClose, HandleEvent, ReadFails, LockAndClose,
              AtCallback, PeerReads
  <1>1. UNCHANGED <<buffer_, writing, registered, is_closed_, refused, closes, wire, taken, arg, senders>>
    OBVIOUS
  <1>2. TypeOK'
    <2>1. pc' \in [Threads -> Points]
      BY <1>0 DEF Points
    <2>2. mutex_' \in Threads \cup {Free}
      BY DEF IInv, TypeOK
    <2>3. room' \in 0 .. MaxRoom
      BY DEF IInv, TypeOK
    <2>4. posted' \in Nat
      <3>1. posted \in Nat /\ (posted > 0 => posted - 1 \in Nat)
        BY DEF IInv, TypeOK
      <3>2. posted' = posted \/ (posted > 0 /\ posted' = posted - 1)
        OBVIOUS
      <3>3. QED
        BY <3>1, <3>2
    <2>6. handling' \subseteq Callbacks
      <3>1. handling' \subseteq handling \cup {"callback"} \/ handling' \in Reported
        OBVIOUS
      <3>2. handling \subseteq Callbacks
        BY DEF IInv, TypeOK
      <3>3. QED
        BY <3>1, <3>2 DEF Callbacks, Reported
    <2>5. QED
      BY <1>1, <2>1, <2>2, <2>3, <2>4, <2>6 DEF IInv, TypeOK
  <1>3. Owner' /\ Arguments'
    BY <1>0, <1>1 DEF IInv, Owner, Arguments
  <1>4. OthersDisconnect' /\ OpenUntilClosed'
    BY <1>0, <1>1 DEF IInv, OthersDisconnect, OpenUntilClosed, OnlyLoopSends
  <1>5. NoStrandedData'
    BY <1>0, <1>1 DEF IInv, OpenUntilClosed, NoStrandedData, OnlyLoopSends
  <1>6. QED
    BY <1>2, <1>3, <1>4, <1>5 DEF IInv

LEMMA NextIInv == IInv /\ [Next]_vars => IInv'
  <1> SUFFICES ASSUME IInv, [Next]_vars PROVE IInv'
    OBVIOUS
  <1>1. CASE \E t \in Threads, size \in Sizes : Send(t, size)
    BY <1>1, SendIInv
  <1>2. CASE \E t \in Threads : AppendPacket(t)
    BY <1>2, AppendPacketIInv
  <1>3. CASE \E t \in Threads : \E n \in 1 .. MaxRoom : SocketTakes(t, n)
    BY <1>3, SocketTakesIInv
  <1>4. CASE \E t \in Threads :
                TryLock(t) \/ NothingTaken(t) \/ Update(t) \/ PostClose(t) \/ Close(t)
                  \/ SendFails(t) \/ Disconnect(t)
    BY <1>4, ThreadIInv
  <1>5. CASE LoopProceeds \/ RunClose \/ ReadFails \/ LockAndClose("callback") \/ PeerReads
                \/ \E events \in Reported : HandleEvent(events)
    BY <1>5, LoopIInv
  <1>6. CASE UNCHANGED vars
    BY <1>6 DEF vars, connVars, closeVars, socketVars, IInv, TypeOK, Owner, Arguments,
       OthersDisconnect, OpenUntilClosed, NoStrandedData, OnlyLoopSends
  <1>7. QED
    BY <1>1, <1>2, <1>3, <1>4, <1>5, <1>6 DEF Next, Proceed

LEMMA Inductive == Spec => []IInv
  BY InitIInv, NextIInv, PTL DEF Spec

-----------------------------------------------------------------------------
(* The types of the variables; the buffer keeps its limit.                 *)
THEOREM TypeCorrect == Spec => []TypeOK
  <1>1. IInv => TypeOK
    BY DEF IInv
  <1>2. QED
    BY <1>1, Inductive, PTL

(* The callbacks of Close run once, by whichever ways the connection is    *)
(* closed, several within one event among them.                            *)
THEOREM ClosesOnce == Spec => []ClosedOnce
  <1>1. IInv => ClosedOnce
    BY DEF IInv, OpenUntilClosed, ClosedOnce
  <1>2. QED
    BY <1>1, Inductive, PTL

(* A closed connection's channel never gets back into the scheduler.       *)
THEOREM StaysUnregistered == Spec => []ClosedIsUnregistered
  <1>1. IInv => ClosedIsUnregistered
    BY DEF IInv, OpenUntilClosed, ClosedIsUnregistered
  <1>2. QED
    BY <1>1, Inductive, PTL

(* Data never waits in the buffer of an open connection without a write    *)
(* event or a Close to wait for, unless a Disconnect was refused its Close.*)
THEOREM NothingStranded == Spec => []NoStrandedData
  <1>1. IInv => NoStrandedData
    BY DEF IInv
  <1>2. QED
    BY <1>1, Inductive, PTL

-----------------------------------------------------------------------------
(* The stream of bytes.  Nothing here depends on who holds mutex_: each    *)
(* turn of BufferWriter::Send and each Append keeps the stream whole.      *)

(* The bytes on the wire are of packets that were taken, and the buffer    *)
(* holds no more packets than were taken.                                  *)
Stream ==
    /\ Len(buffer_) <= Len(taken)
    /\ wire \in Seq(Nat \X Nat)
    /\ \A i \in 1 .. Len(wire) : wire[i][1] \in 1 .. Len(taken)

StreamInv == Stream /\ Framed

LEMMA InitStreamInv == Init => StreamInv
  BY DEF Init, StreamInv, Stream, Framed, Following

(* A packet that is taken leaves what follows on the wire as it was.       *)
LEMMA AppendPacketStreamInv ==
    ASSUME TypeOK, StreamInv, NEW t \in Threads, AppendPacket(t)
    PROVE  StreamInv'
  <1> DEFINE packet == [id |-> Len(taken) + 1, size |-> arg[t], writeIndex |-> 0]
  <1>1. UNCHANGED wire
    BY DEF AppendPacket, socketVars
  <1>2. CASE UNCHANGED <<buffer_, taken>>
    BY <1>1, <1>2 DEF StreamInv, Stream, Framed, Following
  <1>3. CASE buffer_' = Append(buffer_, packet) /\ taken' = Append(taken, packet)
    <2>1. /\ buffer_ \in Seq(Packet) /\ taken \in Seq(Packet) /\ wire \in Seq(Nat \X Nat)
          /\ Len(buffer_) \in Nat /\ Len(taken) \in Nat /\ Len(wire) \in Nat
          /\ Len(buffer_) <= Len(taken)
      BY DEF TypeOK, StreamInv, Stream
    <2>0. PICK last \in Nat : last = Len(wire)
      BY <2>1
    <2>2. /\ Len(buffer_') = Len(buffer_) + 1 /\ Len(taken') = Len(taken) + 1
          /\ \A i \in 1 .. Len(buffer_) : buffer_'[i] = buffer_[i]
          /\ \A i \in 1 .. Len(taken) : taken'[i] = taken[i]
          /\ buffer_'[Len(buffer_) + 1] = packet /\ taken'[Len(taken) + 1] = packet
      BY <1>3, <2>1
    <2>3. packet.id = Len(taken) + 1 /\ packet.writeIndex = 0 /\ packet.size = arg[t]
      OBVIOUS
    <2> HIDE DEF packet
    <2>4. \A i \in 0 .. last : Following(i)' = Following(i)
      <3>1. \A i \in 1 .. last : wire[i][1] \in 1 .. Len(taken)
        BY <2>0 DEF StreamInv, Stream
      <3>2. QED
        BY <3>1, <1>1, <2>0, <2>1, <2>2, SMTT(30) DEF Following
    <2>5. Stream'
      <3>1. \A i \in 1 .. last : wire[i][1] \in 1 .. Len(taken)
        BY <2>0 DEF StreamInv, Stream
      <3>2. \A i \in 1 .. last : wire[i][1] \in 1 .. Len(taken')
        BY <3>1, <2>1, <2>2
      <3>3. Len(buffer_') <= Len(taken') /\ wire' \in Seq(Nat \X Nat)
        BY <1>1, <2>1, <2>2
      <3>4. QED
        BY <3>2, <3>3, <1>1, <2>0 DEF Stream
    <2>6. \A i \in 1 .. last : wire'[i] = Following(i - 1)'
      <3>1. \A i \in 1 .. last : wire[i] = Following(i - 1) /\ i - 1 \in 0 .. last
        BY <2>0 DEF StreamInv, Framed
      <3>2. QED
        BY <3>1, <1>1, <2>4
    <2>7. ASSUME NEW i \in 1 .. Len(buffer_')
          PROVE  /\ buffer_'[i].id = Len(taken') - Len(buffer_') + i
                 /\ buffer_'[i].size = taken'[buffer_'[i].id].size
                 /\ i > 1 => buffer_'[i].writeIndex = 0
      <3>1. CASE i = Len(buffer_) + 1
        BY <2>1, <2>2, <2>3, <3>1
      <3>2. CASE i \in 1 .. Len(buffer_)
        <4>1. buffer_[i].id = Len(taken) - Len(buffer_) + i /\ buffer_[i].size = taken[buffer_[i].id].size
              /\ (i > 1 => buffer_[i].writeIndex = 0)
          BY <3>2 DEF StreamInv, Framed
        <4>2. buffer_[i].id \in 1 .. Len(taken)
          BY <4>1, <3>2, <2>1
        <4>3. Len(taken') - Len(buffer_') = Len(taken) - Len(buffer_) /\ buffer_'[i] = buffer_[i]
          BY <2>1, <2>2, <3>2
        <4>4. taken'[buffer_[i].id] = taken[buffer_[i].id]
          BY <2>2, <4>2
        <4>5. QED
          BY <4>1, <4>3, <4>4
      <3>3. QED
        BY <2>1, <2>2, <3>1, <3>2
    <2>8. Head(buffer_') = IF buffer_ = <<>> THEN packet ELSE Head(buffer_)
      BY <1>3, <2>1, <2>2
    <2>9. Following(last)' = <<Head(buffer_').id, Head(buffer_').writeIndex + 1>>
      <3>1. Following(last) = IF buffer_ = <<>> THEN <<Len(taken) + 1, 1>>
                              ELSE <<Head(buffer_).id, Head(buffer_).writeIndex + 1>>
        BY <2>0 DEF StreamInv, Framed
      <3>2. Following(last)' = Following(last)
        BY <2>4, <2>0
      <3>3. QED
        BY <3>1, <3>2, <2>3, <2>8
    <2>10. buffer_' # <<>>
      BY <2>1, <2>2
    <2>11. Framed'
      BY <1>1, <2>0, <2>6, <2>7, <2>9, <2>10 DEF Framed
    <2>12. QED
      BY <2>5, <2>11 DEF StreamInv
  <1>4. QED
    BY <1>2, <1>3 DEF AppendPacket

(* The bytes the socket takes follow each other, and the first of them is  *)
(* the one that was to come.                                               *)
LEMMA SocketTakesStreamInv ==
    ASSUME TypeOK, StreamInv, NEW t \in Threads, NEW n \in 1 .. MaxRoom, SocketTakes(t, n)
    PROVE  StreamInv'
  <1> DEFINE p == Head(buffer_)
             sent == Sent(p, n)
             part == [p EXCEPT !.writeIndex = @ + n]
  <1>1. /\ buffer_ \in Seq(Packet) /\ buffer_ # <<>> /\ taken \in Seq(Packet)
        /\ wire \in Seq(Nat \X Nat) /\ Len(wire) \in Nat /\ n \in Nat /\ n > 0
        /\ Len(buffer_) \in Nat /\ Len(buffer_) > 0 /\ Len(taken) \in Nat
        /\ Len(buffer_) <= Len(taken)
    BY DEF SocketTakes, TypeOK, StreamInv, Stream
  <1>2. /\ n <= p.size - p.writeIndex /\ UNCHANGED taken /\ wire' = wire \o sent
        /\ IF p.writeIndex + n = p.size THEN buffer_' = Tail(buffer_)
                                        ELSE buffer_' = <<part>> \o Tail(buffer_)
    BY DEF SocketTakes
  <1>17. /\ n \in Nat /\ n > 0 /\ Len(buffer_) \in Nat /\ Len(buffer_) > 0 /\ Len(taken) \in Nat
         /\ Len(buffer_) <= Len(taken)
    BY <1>1
  <1>0. PICK last \in Nat : last = Len(wire)
    BY <1>1
  <1>3. p \in Packet /\ p = buffer_[1] /\ 1 \in 1 .. Len(buffer_)
    BY <1>1
  <1>4. /\ p.id \in Nat \ {0} /\ p.size \in Sizes /\ p.size \in Nat /\ p.writeIndex \in Nat
        /\ n <= p.size - p.writeIndex
    BY <1>2, <1>3, Constants DEF Packet
  <1>5. p.id = Len(taken) - Len(buffer_) + 1 /\ p.size = taken[p.id].size
        /\ Following(last) = <<p.id, p.writeIndex + 1>> /\ p.id \in 1 .. Len(taken)
    <2>1. buffer_[1].id = Len(taken) - Len(buffer_) + 1 /\ buffer_[1].size = taken[buffer_[1].id].size
      BY <1>3 DEF StreamInv, Framed
    <2>2. Following(last) = <<p.id, p.writeIndex + 1>>
      BY <1>0, <1>1 DEF StreamInv, Framed
    <2>3. QED
      BY <1>1, <1>3, <2>1, <2>2
  <1>6. /\ part.id = p.id /\ part.size = p.size /\ part.writeIndex = p.writeIndex + n
        /\ part \in Packet
    <2>1. part = [id |-> p.id, size |-> p.size, writeIndex |-> p.writeIndex + n]
      BY <1>3 DEF Packet
    <2>2. p.writeIndex + n \in Nat
      BY <1>17, <1>4
    <2> HIDE DEF p, part
    <2>3. QED
      BY <1>4, <2>1, <2>2 DEF Packet
  <1>7. /\ sent \in Seq(Nat \X Nat) /\ Len(sent) = n
        /\ \A k \in 1 .. n : sent[k] = <<p.id, p.writeIndex + k>>
    <2>1. n \in Nat /\ p.id \in Nat /\ p.writeIndex \in Nat
      BY <1>1, <1>4
    <2>2. sent = [k \in 1 .. n |-> <<p.id, p.writeIndex + k>>]
      BY DEF Sent
    <2> HIDE DEF p, sent
    <2>3. \A k \in 1 .. n : <<p.id, p.writeIndex + k>> \in Nat \X Nat
      BY <2>1
    <2>4. sent \in [1 .. n -> Nat \X Nat]
      BY <2>2, <2>3
    <2>5. sent \in Seq(Nat \X Nat) /\ Len(sent) = n
      BY <2>1, <2>4
    <2>6. QED
      BY <2>2, <2>5
  <1>8. /\ Tail(buffer_) \in Seq(Packet) /\ Len(Tail(buffer_)) = Len(buffer_) - 1
        /\ \A i \in 1 .. Len(buffer_) - 1 : Tail(buffer_)[i] = buffer_[i + 1]
    BY <1>1
  <1> HIDE DEF sent, part, p
  <1>9. /\ wire' \in Seq(Nat \X Nat) /\ Len(wire') = last + n
        /\ \A i \in 1 .. last : wire'[i] = wire[i]
        /\ \A k \in 1 .. n : wire'[last + k] = <<p.id, p.writeIndex + k>>
    <2>1. wire' \in Seq(Nat \X Nat) /\ Len(wire') = last + n
      BY <1>0, <1>1, <1>2, <1>7, ConcatProperties
    <2>2. \A i \in 1 .. last : wire'[i] = wire[i]
      BY <1>0, <1>1, <1>2, <1>7
    <2>3. ASSUME NEW k \in 1 .. n PROVE wire'[last + k] = sent[k]
      BY <1>0, <1>1, <1>2, <1>7
    <2>4. QED
      BY <2>1, <2>2, <2>3, <1>7
  <1>10. \A i \in 0 .. last : Following(i)' = Following(i)
    <2>1. ASSUME NEW i \in 0 .. last PROVE Following(i)' = Following(i)
      <3>1. CASE i = 0
        BY <3>1 DEF Following
      <3>2. CASE i # 0
        <4>1. i \in 1 .. last
          BY <3>2
        <4>2. wire'[i] = wire[i]
          BY <4>1, <1>9
        <4>3. QED
          BY <4>2, <1>2, <3>2 DEF Following
      <3>3. QED
        BY <3>1, <3>2
    <2>2. QED
      BY <2>1
  <1>11. ASSUME NEW k \in 1 .. n
         PROVE  Following(last + k)' = IF p.writeIndex + k < p.size THEN <<p.id, p.writeIndex + k + 1>>
                                       ELSE <<p.id + 1, 1>>
    <2>1. last + k # 0 /\ wire'[last + k][1] = p.id /\ wire'[last + k][2] = p.writeIndex + k
      BY <1>9
    <2>2. taken'[p.id].size = p.size
      BY <1>2, <1>5
    <2>3. QED
      BY <2>1, <2>2 DEF Following
  <1>12. ASSUME NEW i \in 1 .. last + n
         PROVE  wire'[i] = Following(i - 1)' /\ wire'[i][1] \in 1 .. Len(taken')
    <2>1. CASE i \in 1 .. last
      <3>1. wire[i] = Following(i - 1) /\ wire[i][1] \in 1 .. Len(taken)
        BY <2>1, <1>0 DEF StreamInv, Stream, Framed
      <3>2. i - 1 \in 0 .. last
        BY <2>1
      <3>3. QED
        BY <2>1, <3>1, <3>2, <1>2, <1>9, <1>10
    <2>2. CASE i = last + 1
      <3>1. wire'[i] = <<p.id, p.writeIndex + 1>>
        BY <2>2, <1>1, <1>9, SMTT(30)
      <3>2. Following(i - 1)' = <<p.id, p.writeIndex + 1>>
        BY <2>2, <1>5, <1>10
      <3>3. QED
        BY <3>1, <3>2, <1>2, <1>5
    <2>3. CASE i \in last + 2 .. last + n
      <3> DEFINE k == i - last - 1
      <3>1. k \in 1 .. n /\ k + 1 \in 1 .. n /\ i = last + (k + 1) /\ i - 1 = last + k
        BY <2>3, <1>1
      <3>2. wire'[i] = <<p.id, p.writeIndex + (k + 1)>>
        BY <3>1, <1>9
      <3>3. p.writeIndex + k < p.size
        BY <3>1, <1>1, <1>2, <1>4
      <3>4. Following(i - 1)' = <<p.id, p.writeIndex + k + 1>>
        <4> HIDE DEF k
        <4>1. Following(last + k)' = <<p.id, p.writeIndex + k + 1>>
          BY <3>1, <3>3, <1>11
        <4>2. QED
          BY <3>1, <4>1
      <3>5. QED
        BY <3>1, <3>2, <3>4, <1>2, <1>4, <1>5, SMTT(30)
    <2>4. QED
      BY <2>1, <2>2, <2>3, <1>1
  <1>13. Following(last + n)' = IF p.writeIndex + n = p.size THEN <<p.id + 1, 1>>
                                ELSE <<p.id, p.writeIndex + n + 1>>
    <2>1. n \in 1 .. n /\ (p.writeIndex + n = p.size <=> ~(p.writeIndex + n < p.size))
      BY <1>17, <1>4
    <2>2. QED
      BY <2>1, <1>11
  <1>14. CASE p.writeIndex + n = p.size
    <2>1. buffer_' = Tail(buffer_)
      BY <1>2, <1>14
    <2>9. Len(buffer_') = Len(buffer_) - 1
      BY <2>1, <1>8
    <2>2. Stream'
      <3>1. Len(buffer_') <= Len(taken')
        BY <2>9, <1>2, <1>17
      <3>2. QED
        BY <3>1, <1>9, <1>12 DEF Stream
    <2>3. ASSUME NEW i \in 1 .. Len(buffer_')
          PROVE  /\ buffer_'[i].id = Len(taken') - Len(buffer_') + i
                 /\ buffer_'[i].size = taken'[buffer_'[i].id].size
                 /\ buffer_'[i].writeIndex = 0
      <3>1. i + 1 \in 1 .. Len(buffer_) /\ i + 1 > 1 /\ buffer_'[i] = buffer_[i + 1]
        BY <2>1, <1>1, <1>8
      <3>2. /\ buffer_[i + 1].id = Len(taken) - Len(buffer_) + (i + 1)
            /\ buffer_[i + 1].size = taken[buffer_[i + 1].id].size
            /\ buffer_[i + 1].writeIndex = 0
        BY <3>1 DEF StreamInv, Framed
      <3>3. Len(taken') - Len(buffer_') + i = Len(taken) - Len(buffer_) + (i + 1)
        BY <2>9, <1>2, <1>17
      <3>4. QED
        BY <3>1, <3>2, <3>3, <1>2
    <2>4. buffer_' # <<>> => /\ Head(buffer_') = buffer_'[1] /\ 1 \in 1 .. Len(buffer_')
                             /\ Len(taken') - Len(buffer_') + 1 = p.id + 1
      <3>1. buffer_' \in Seq(Packet) /\ Len(buffer_') = Len(buffer_) - 1
        BY <2>1, <1>8
      <3>2. Len(taken') - Len(buffer_') + 1 = p.id + 1
        BY <3>1, <1>1, <1>2, <1>5
      <3>3. QED
        BY <3>1, <3>2, <1>1
    <2>5. buffer_' = <<>> => p.id = Len(taken')
      <3>1. buffer_' = <<>> => Len(buffer_) - 1 = 0
        BY <2>1, <1>8
      <3>2. Len(taken') = Len(taken)
        BY <1>2
      <3>3. Len(buffer_) - 1 = 0 => p.id = Len(taken)
        <4>1. p.id = Len(taken) - Len(buffer_) + 1
          BY <1>5
        <4>2. Len(buffer_) - 1 = 0 => Len(buffer_) = 1
          BY <1>17
        <4>3. Len(taken) - 1 + 1 = Len(taken)
          BY <1>17
        <4>4. QED
          BY <4>1, <4>2, <4>3
      <3>4. QED
        BY <3>1, <3>2, <3>3
    <2>6. Following(last + n)' = IF buffer_' = <<>> THEN <<Len(taken') + 1, 1>>
                                 ELSE <<Head(buffer_').id, Head(buffer_').writeIndex + 1>>
      <3>1. CASE buffer_' = <<>>
        BY <3>1, <2>5, <1>13, <1>14
      <3>2. CASE buffer_' # <<>>
        <4>1. Head(buffer_').id = p.id + 1 /\ Head(buffer_').writeIndex = 0
          BY <3>2, <2>3, <2>4
        <4>2. QED
          BY <4>1, <3>2, <1>13, <1>14
      <3>3. QED
        BY <3>1, <3>2
    <2>8. Framed'
      BY <1>9, <1>12, <2>3, <2>6 DEF Framed
    <2>7. QED
      BY <2>2, <2>8 DEF StreamInv
  <1>15. CASE p.writeIndex + n # p.size
    <2>1. buffer_' = <<part>> \o Tail(buffer_)
      BY <1>2, <1>15
    <2>2. /\ Len(buffer_') = Len(buffer_) /\ buffer_'[1] = part /\ buffer_' # <<>>
          /\ Head(buffer_') = part
          /\ \A i \in 2 .. Len(buffer_) : buffer_'[i] = buffer_[i]
      BY <2>1, <1>1, <1>6, <1>8
    <2>3. Stream'
      BY <2>2, <1>1, <1>2, <1>9, <1>12 DEF Stream
    <2>4. ASSUME NEW i \in 1 .. Len(buffer_')
          PROVE  /\ buffer_'[i].id = Len(taken') - Len(buffer_') + i
                 /\ buffer_'[i].size = taken'[buffer_'[i].id].size
                 /\ i > 1 => buffer_'[i].writeIndex = 0
      <3>1. CASE i = 1
        BY <3>1, <2>2, <1>1, <1>2, <1>5, <1>6
      <3>2. CASE i > 1
        <4>1. i \in 2 .. Len(buffer_) /\ i \in 1 .. Len(buffer_) /\ buffer_'[i] = buffer_[i]
          BY <3>2, <2>2, <1>1
        <4>2. QED
          BY <4>1, <2>2, <1>2 DEF StreamInv, Framed
      <3>3. QED
        BY <3>1, <3>2, <2>2, <1>1
    <2>5. Framed'
      BY <1>9, <1>12, <1>13, <1>15, <1>6, <2>2, <2>4 DEF Framed
    <2>6. QED
      BY <2>3, <2>5 DEF StreamInv
  <1>16. QED
    BY <1>14, <1>15

LEMMA NextStreamInv == TypeOK /\ StreamInv /\ [Next]_vars => StreamInv'
  <1> SUFFICES ASSUME TypeOK, StreamInv, [Next]_vars PROVE StreamInv'
    OBVIOUS
  <1>1. CASE \E t \in Threads : AppendPacket(t)
    BY <1>1, AppendPacketStreamInv
  <1>2. CASE \E t \in Threads : \E n \in 1 .. MaxRoom : SocketTakes(t, n)
    BY <1>2, SocketTakesStreamInv
  <1>3. CASE UNCHANGED <<buffer_, wire, taken>>
    BY <1>3 DEF StreamInv, Stream, Framed, Following
  <1>4. ASSUME NEW t \in Threads, NEW size \in Sizes, Send(t, size)
        PROVE  UNCHANGED <<buffer_, wire, taken>>
    BY <1>4 DEF Send, connVars, socketVars
  <1>5. ASSUME NEW t \in Threads,
               TryLock(t) \/ NothingTaken(t) \/ Update(t) \/ PostClose(t) \/ Close(t)
                 \/ SendFails(t) \/ Disconnect(t)
        PROVE  UNCHANGED <<buffer_, wire, taken>>
    BY <1>5 DEF TryLock, NothingTaken, Update, PostClose, Close, SendFails, Disconnect,
       connVars, socketVars
  <1>6. ASSUME LoopProceeds \/ RunClose \/ ReadFails \/ LockAndClose("callback") \/ PeerReads
                 \/ \E events \in Reported : HandleEvent(events)
        PROVE  UNCHANGED <<buffer_, wire, taken>>
    BY <1>6 DEF LoopProceeds, HandleRead, ReadWorks, ReadCallbackReturns, WriteCallback, RunClose,
       HandleEvent, ReadFails, LockAndClose, PeerReads, connVars, socketVars
  <1>7. UNCHANGED vars => UNCHANGED <<buffer_, wire, taken>>
    BY DEF vars, connVars, socketVars
  <1>8. QED
    BY <1>1, <1>2, <1>3, <1>4, <1>5, <1>6, <1>7 DEF Next, Proceed

(* The peer sees the packets that were taken, whole, in order and without  *)
(* a gap, however the socket cuts them and whoever sends.                  *)
THEOREM StreamIsWhole == Spec => []Framed
  <1>1. StreamInv => Framed
    BY DEF StreamInv
  <1>2. QED
    BY <1>1, InitStreamInv, NextStreamInv, TypeCorrect, PTL DEF Spec
=============================================================================
