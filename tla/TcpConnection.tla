---------------------------- MODULE TcpConnection ----------------------------
(***************************************************************************)
(* The sending side of one xop::TcpConnection and how it closes            *)
(* (src/rtsp/net/TcpConnection.cpp, BufferWriter.cpp).  The connection's   *)
(* events are handled by the thread Loop of its scheduler, where one call  *)
(* of Channel::HandleEvent (Channel.h) runs the callbacks of everything    *)
(* that was reported for the socket, one after the other.  Disconnect may  *)
(* be called by any thread.  Send is called by the loop's thread alone, as *)
(* RtspConnection does for a server's clients, or by others as well, as    *)
(* RtspPusher::OpenUrl has it do: senders says which.  mutex_ protects the *)
(* buffer, but HandleWrite only tries to lock it, and a posted Close does  *)
(* not lock it at all.                                                     *)
(***************************************************************************)
EXTENDS Integers, Sequences

CONSTANTS
    Loop,          \* the thread of the connection's scheduler
    Users,         \* other threads
    Sizes,         \* sizes of the packets sent
    MaxPackets,    \* bound: packets taken
    MaxPosted,     \* bound: Closes posted and not yet run
    Capacity,      \* max_queue_length_
    MaxRoom        \* size of the socket's send buffer

Threads == {Loop} \cup Users
Free == "free"  \* mutex_ is not held

ASSUME TcpConnectionAssumption ==
    /\ Loop \notin Users /\ Free \notin Threads
    /\ Sizes \subseteq Nat \ {0} /\ MaxPackets \in Nat /\ MaxPosted \in Nat
    /\ Capacity \in Nat \ {0} /\ MaxRoom \in Nat \ {0}

VARIABLES
    buffer_,       \* the packets of write_buffer_ with the part already sent
    writing,       \* the channel asks for write events
    registered,    \* the scheduler has the channel
    is_closed_,
    mutex_,        \* who holds it
    pc,            \* where each thread is
    arg,           \* the size of the packet a thread is sending
    handling,      \* what Loop's HandleEvent has still to do: see Callbacks
    posted,        \* the Closes that Disconnect posted and that wait in the scheduler
    refused,       \* the scheduler refused one since HandleWrite last went through
    closes,        \* how many times close_cb_ and disconnect_cb_ ran
    room,          \* room in the socket's send buffer
    wire,          \* the bytes the socket took, each as packet and position
    taken,         \* the packets Append took
    senders        \* the threads that call Send: never changes

connVars == <<buffer_, writing, registered>>
closeVars == <<is_closed_, posted, refused, closes>>
socketVars == <<room, wire>>
vars == <<connVars, closeVars, socketVars, mutex_, pc, handling, arg, taken, senders>>

Init ==
    /\ buffer_ = <<>> /\ writing = FALSE /\ registered = TRUE
    /\ is_closed_ = FALSE /\ posted = 0 /\ refused = FALSE /\ closes = 0
    /\ mutex_ = Free
    /\ pc = [t \in Threads |-> "idle"] /\ arg = [t \in Threads |-> 0]
    /\ handling = {}
    /\ room = MaxRoom /\ wire = <<>> /\ taken = <<>>
    /\ senders \in {{Loop}, Threads}

Goto(t, label) == pc' = [pc EXCEPT ![t] = label]

(* HandleRead, the read callback inside it, HandleWrite, and HandleClose   *)
(* or HandleError, which do the same; after HandleClose HandleEvent looks  *)
(* no further.                                                             *)
Callbacks == {"read", "callback", "write", "close"}

(* Loop has come to c, everything that is to run before it being done. *)
AtCallback(c) ==
    /\ pc[Loop] = "idle" /\ c \in handling
    /\ c = "write" => handling \cap {"read", "callback"} = {}
    /\ c = "close" => handling = {"close"}

(* A thread runs code of its own: for Loop, something the scheduler runs   *)
(* between two events, or the read callback.                               *)
Runs(t) == pc[t] = "idle" /\ (t = Loop => handling = {} \/ "callback" \in handling)

-----------------------------------------------------------------------------
(* Send: the packet is queued under mutex_, then HandleWrite is tried. *)

Send(t, size) ==
    /\ t \in senders /\ Runs(t)
    /\ ~is_closed_ /\ Len(taken) < MaxPackets
    /\ arg' = [arg EXCEPT ![t] = size]
    /\ Goto(t, "append")
    /\ UNCHANGED <<connVars, closeVars, socketVars, mutex_, handling, taken, senders>>

(* Append: a packet that finds the queue full is dropped. *)
AppendPacket(t) ==
    /\ pc[t] = "append" /\ mutex_ = Free
    /\ LET packet == [id |-> Len(taken) + 1, size |-> arg[t], writeIndex |-> 0] IN
          IF Len(buffer_) < Capacity
          THEN buffer_' = Append(buffer_, packet) /\ taken' = Append(taken, packet)
          ELSE UNCHANGED <<buffer_, taken>>
    /\ Goto(t, "try") /\ arg' = [arg EXCEPT ![t] = 0]
    /\ UNCHANGED <<writing, registered, closeVars, socketVars, mutex_, handling, senders>>

(* HandleWrite: nothing is done when the connection is closed or another   *)
(* thread holds mutex_.                                                    *)
TryLock(t) ==
    /\ pc[t] = "try"
    /\ IF is_closed_ \/ mutex_ # Free
       THEN Goto(t, "idle") /\ UNCHANGED mutex_
       ELSE Goto(t, "send") /\ mutex_' = t
    /\ UNCHANGED <<connVars, closeVars, socketVars, handling, arg, taken, senders>>

Sent(p, n) == [k \in 1 .. n |-> <<p.id, p.writeIndex + k>>]

(* A slip in BufferWriter::Send: a packet is popped once a part of it went. *)
SocketTakesAndPops(t, n) ==
    /\ pc[t] = "send" /\ buffer_ # <<>>
    /\ LET p == Head(buffer_) IN
        /\ n <= room /\ n <= p.size - p.writeIndex
        /\ wire' = wire \o Sent(p, n) /\ room' = room - n
        /\ buffer_' = Tail(buffer_)
    /\ UNCHANGED <<writing, registered, closeVars, mutex_, pc, handling, arg, taken, senders>>

(* One turn of the loop in BufferWriter::Send in which the socket takes n  *)
(* bytes of the first packet: the loop goes on when that was all of it.    *)
SocketTakes(t, n) ==
    /\ pc[t] = "send" /\ buffer_ # <<>>
    /\ LET p == Head(buffer_) IN
        /\ n <= room /\ n <= p.size - p.writeIndex
        /\ wire' = wire \o Sent(p, n) /\ room' = room - n
        /\ IF p.writeIndex + n = p.size
           THEN buffer_' = Tail(buffer_) /\ UNCHANGED pc
           ELSE buffer_' = <<[p EXCEPT !.writeIndex = @ + n]>> \o Tail(buffer_) /\ Goto(t, "update")
    /\ UNCHANGED <<writing, registered, closeVars, mutex_, handling, arg, taken, senders>>

(* The buffer is empty, or the socket is full (EAGAIN). *)
NothingTaken(t) ==
    /\ pc[t] = "send" /\ (buffer_ = <<>> \/ room = 0)
    /\ Goto(t, "update")
    /\ UNCHANGED <<connVars, closeVars, socketVars, mutex_, handling, arg, taken, senders>>

(* The socket reports an error: Close, still under mutex_. *)
SendFails(t) ==
    /\ pc[t] = "send" /\ buffer_ # <<>>
    /\ IF is_closed_ THEN Goto(t, "idle") /\ mutex_' = Free
                     ELSE Goto(t, "closing") /\ UNCHANGED mutex_
    /\ UNCHANGED <<connVars, closeVars, socketVars, handling, arg, taken, senders>>

(* A slip in HandleWrite: write events are never asked for. *)
UpdateNeverEnables(t) ==
    /\ pc[t] = "update"
    /\ writing' = (writing /\ buffer_ # <<>>)
    /\ registered' = (registered \/ writing' # writing)
    /\ mutex_' = Free /\ Goto(t, "idle") /\ refused' = FALSE
    /\ UNCHANGED <<buffer_, is_closed_, posted, closes, socketVars, handling, arg, taken, senders>>

(* The end of HandleWrite: write events are wanted as long as something is *)
(* left.  UpdateChannel adds a channel the scheduler does not have.        *)
Update(t) ==
    /\ pc[t] = "update"
    /\ writing' = (buffer_ # <<>>)
    /\ registered' = (registered \/ writing' # writing)
    /\ mutex_' = Free /\ Goto(t, "idle") /\ refused' = FALSE
    /\ UNCHANGED <<buffer_, is_closed_, posted, closes, socketVars, handling, arg, taken, senders>>

-----------------------------------------------------------------------------
(* What the scheduler's thread does for the channel. *)

(* The scheduler hands over what it found ready on the socket: it reports  *)
(* no room for writing that nobody asked for.                              *)
HandleEvent(events) ==
    /\ pc[Loop] = "idle" /\ handling = {} /\ registered
    /\ "write" \in events => writing /\ room > 0
    /\ handling' = events
    /\ UNCHANGED <<connVars, closeVars, socketVars, mutex_, pc, arg, taken, senders>>

(* HandleRead locks mutex_ for the read and lets go before the callback. *)
HandleRead ==
    /\ AtCallback("read") /\ mutex_ = Free
    /\ handling' = handling \ {"read"}
    /\ IF is_closed_ THEN UNCHANGED <<pc, mutex_>>
                     ELSE Goto(Loop, "read") /\ mutex_' = Loop
    /\ UNCHANGED <<connVars, closeVars, socketVars, arg, taken, senders>>

ReadWorks ==
    /\ pc[Loop] = "read"
    /\ mutex_' = Free /\ Goto(Loop, "idle")
    /\ handling' = handling \cup {"callback"}
    /\ UNCHANGED <<connVars, closeVars, socketVars, arg, taken, senders>>

ReadFails ==
    /\ pc[Loop] = "read"
    /\ IF is_closed_ THEN Goto(Loop, "idle") /\ mutex_' = Free
                     ELSE Goto(Loop, "closing") /\ UNCHANGED mutex_
    /\ UNCHANGED <<connVars, closeVars, socketVars, handling, arg, taken, senders>>

ReadCallbackReturns ==
    /\ AtCallback("callback")
    /\ handling' = handling \ {"callback"}
    /\ UNCHANGED <<connVars, closeVars, socketVars, mutex_, pc, arg, taken, senders>>

WriteCallback ==
    /\ AtCallback("write")
    /\ handling' = handling \ {"write"} /\ Goto(Loop, "try")
    /\ UNCHANGED <<connVars, closeVars, socketVars, mutex_, arg, taken, senders>>

(* A slip in Close: it does not look whether the connection is closed, as  *)
(* a send of the same callback or an earlier one of the event left it.     *)
LockAndCloseAgain(c) ==
    /\ AtCallback(c) /\ mutex_ = Free
    /\ handling' = handling \ {c}
    /\ Goto(Loop, "closing") /\ mutex_' = Loop
    /\ UNCHANGED <<connVars, closeVars, socketVars, arg, taken, senders>>

(* mutex_ and Close, when the read callback returned false and in          *)
(* HandleClose and HandleError.                                            *)
LockAndClose(c) ==
    /\ AtCallback(c) /\ mutex_ = Free
    /\ handling' = handling \ {c}
    /\ IF is_closed_ THEN UNCHANGED <<pc, mutex_>>
                     ELSE Goto(Loop, "closing") /\ mutex_' = Loop
    /\ UNCHANGED <<connVars, closeVars, socketVars, arg, taken, senders>>

(* Disconnect: mutex_ is held while the Close is posted. *)
Disconnect(t) ==
    /\ Runs(t) /\ mutex_ = Free /\ posted < MaxPosted
    /\ mutex_' = t /\ Goto(t, "posting")
    /\ UNCHANGED <<connVars, closeVars, socketVars, handling, arg, taken, senders>>

(* AddTriggerEvent takes the Close, or refuses it when the scheduler's     *)
(* queue is full: Disconnect does not look.                                *)
PostClose(t) ==
    /\ pc[t] = "posting"
    /\ \/ posted' = posted + 1 /\ UNCHANGED refused
       \/ refused' = TRUE /\ UNCHANGED posted
    /\ mutex_' = Free /\ Goto(t, "idle")
    /\ UNCHANGED <<connVars, is_closed_, closes, socketVars, handling, arg, taken, senders>>

(* A posted Close, which runs between two events and without mutex_. *)
RunClose ==
    /\ posted > 0 /\ pc[Loop] = "idle" /\ handling = {}
    /\ posted' = posted - 1
    /\ IF is_closed_ THEN UNCHANGED pc ELSE Goto(Loop, "closing")
    /\ UNCHANGED <<connVars, is_closed_, refused, closes, socketVars, mutex_, handling, arg, taken, senders>>

(* The rest of Close, once it has seen is_closed_ unset. *)
Close(t) ==
    /\ pc[t] = "closing"
    /\ is_closed_' = TRUE /\ registered' = FALSE /\ closes' = closes + 1
    /\ mutex_' = IF mutex_ = t THEN Free ELSE mutex_
    /\ Goto(t, "idle")
    /\ UNCHANGED <<buffer_, writing, posted, refused, socketVars, handling, arg, taken, senders>>

(* The peer reads what the socket holds. *)
PeerReads ==
    /\ room < MaxRoom
    /\ room' = MaxRoom
    /\ UNCHANGED <<connVars, closeVars, wire, mutex_, pc, handling, arg, taken, senders>>

-----------------------------------------------------------------------------
(* The steps a thread takes once it has started something. *)
Proceed(t) ==
    \/ AppendPacket(t) \/ TryLock(t) \/ NothingTaken(t) \/ Update(t) \/ PostClose(t) \/ Close(t)
    \/ \E n \in 1 .. MaxRoom : SocketTakes(t, n)

Reported == SUBSET {"read", "write", "close"} \ {{}}

LoopProceeds ==
    \/ HandleRead \/ ReadWorks \/ ReadCallbackReturns \/ WriteCallback \/ LockAndClose("close")

ReportsRoom == \E events \in Reported : "write" \in events /\ HandleEvent(events)

Next ==
    \/ \E t \in Threads :
          (\E size \in Sizes : Send(t, size)) \/ Proceed(t) \/ SendFails(t) \/ Disconnect(t)
    \/ LoopProceeds \/ RunClose \/ ReadFails \/ LockAndClose("callback") \/ PeerReads
    \/ \E events \in Reported : HandleEvent(events)

(* Threads finish what they started, the loop handles the whole of an      *)
(* event, and the peer goes on reading.  Each turn of the loop runs what   *)
(* is posted and asks again what is ready, so events cannot keep a posted  *)
(* Close out, nor reads the room that write events wait for.               *)
Spec ==
    /\ Init /\ [][Next]_vars
    /\ \A t \in Threads : WF_vars(Proceed(t))
    /\ WF_vars(LoopProceeds) /\ SF_vars(RunClose) /\ SF_vars(ReportsRoom) /\ WF_vars(PeerReads)

-----------------------------------------------------------------------------
Points == {"idle", "append", "try", "send", "update", "read", "closing", "posting"}
Packet == [id : Nat \ {0}, size : Sizes, writeIndex : Nat]

(* The types of the variables; the queue is never longer than its limit. *)
TypeOK ==
    /\ buffer_ \in Seq(Packet) /\ Len(buffer_) <= Capacity
    /\ taken \in Seq(Packet)
    /\ writing \in BOOLEAN /\ registered \in BOOLEAN /\ is_closed_ \in BOOLEAN
    /\ posted \in Nat /\ refused \in BOOLEAN /\ closes \in Nat
    /\ handling \subseteq Callbacks
    /\ mutex_ \in Threads \cup {Free}
    /\ pc \in [Threads -> Points]
    /\ arg \in [Threads -> Sizes \cup {0}]
    /\ room \in 0 .. MaxRoom
    /\ senders \subseteq Threads

(* The byte that is to follow the first i bytes of the wire when the       *)
(* packets taken go out whole and in order.                                *)
Following(i) ==
    IF i = 0 THEN <<1, 1>>
    ELSE LET id == wire[i][1]  position == wire[i][2] IN
         IF position < taken[id].size THEN <<id, position + 1>> ELSE <<id + 1, 1>>

(* The peer sees the packets that were taken, whole and in order: each     *)
(* byte follows the one before it, the buffer holds the last packets taken *)
(* and goes on exactly where the wire ends.  Partial sends and several     *)
(* senders never tear a packet apart, and no byte is left out.             *)
Framed ==
    /\ \A i \in 1 .. Len(wire) : wire[i] = Following(i - 1)
    /\ \A i \in 1 .. Len(buffer_) :
          LET p == buffer_[i] IN
            /\ p.id = Len(taken) - Len(buffer_) + i /\ p.size = taken[p.id].size
            /\ i > 1 => p.writeIndex = 0
    /\ Following(Len(wire)) =
          IF buffer_ = <<>> THEN <<Len(taken) + 1, 1>>
          ELSE <<Head(buffer_).id, Head(buffer_).writeIndex + 1>>

OnlyLoopSends == senders = {Loop}

(* When only the loop's thread sends, data that waits in the buffer of an  *)
(* open connection has a write event or a posted Close to wait for, though *)
(* HandleWrite gives up when it cannot lock mutex_ -- unless the Disconnect*)
(* that held mutex_ was refused its Close by a full scheduler: then there  *)
(* may be neither, until HandleWrite goes through again.                   *)
NoStrandedData ==
    OnlyLoopSends /\ buffer_ # <<>> /\ ~is_closed_ /\ posted = 0 /\ ~refused
        /\ (\A t \in Threads : pc[t] \in {"idle", "read"})
    => registered /\ writing

(* When only the loop's thread sends, the channel of a connection that has *)
(* closed is not in the scheduler, and never gets back.                    *)
ClosedIsUnregistered == OnlyLoopSends /\ is_closed_ => ~registered

(* When only the loop's thread sends, the callbacks of Close run once, as  *)
(* TcpServer relies on for its removals: however the read callback, a send *)
(* that fails inside it, the rest of the same event and the posted Closes  *)
(* come together.                                                          *)
ClosedOnce == OnlyLoopSends => closes <= 1

(* When only the loop's thread sends, what was taken is sent, or the       *)
(* connection closes, or a Disconnect meanwhile is refused its Close.      *)
Flushed == OnlyLoopSends /\ buffer_ # <<>> ~> buffer_ = <<>> \/ is_closed_ \/ refused
=============================================================================
