---------------------------- MODULE MediaSession -----------------------------
(***************************************************************************)
(* How a frame gets from RtspServer::PushFrame to the clients of a session *)
(* (src/rtsp/xop/RtspServer.cpp, MediaSession.cpp, RtpConnection.cpp,      *)
(* RtspConnection.cpp), over RTP in TCP.                                   *)
(*                                                                         *)
(* A pushing thread cuts the frame into packets.  For each packet it takes *)
(* the session's clients under map_mutex_ and posts a callback to the      *)
(* scheduler of each; the packet's data is copied once per scheduler and   *)
(* shared by the clients there.  The callback writes the client's RTP      *)
(* header into the copy and sends it.  The RTSP requests of a client are   *)
(* handled on its scheduler's thread too.                                  *)
(*                                                                         *)
(* An RtpConnection lives as long as its RtspConnection, which connections_ *)
(* holds until the posted RemoveConnection ran, or as a pushing thread     *)
(* holds it; a posted callback has only a plain pointer to it.             *)
(***************************************************************************)
EXTENDS Integers, Sequences

CONSTANTS
    Conns,        \* RTSP connections, with their RtpConnections
    SchedulerOf,  \* the scheduler of each
    Pushers,      \* threads that call PushFrame
    Frames,       \* the frames pushed, in the order HandleFrame gets them
    Scenes,       \* who is there: clients, those that play already, those that
                  \* may read too slowly, pushing threads, number of frames
    MaxPosted,    \* kMaxTriggetEvents
    SeqLimit        \* 2^16: the values of packet_seq

ASSUME MediaSessionAssumption ==
    /\ "remove" \notin Conns
    /\ SchedulerOf \in [Conns -> Nat]
    /\ Frames \in Seq([key : BOOLEAN, packets : Nat \ {0}])
    /\ Scenes \subseteq
          [conns : SUBSET Conns, playing : SUBSET Conns, slow : SUBSET Conns,
           pushers : SUBSET Pushers, frames : 0 .. Len(Frames)]
    /\ MaxPosted \in Nat /\ SeqLimit \in Nat \ {0}

Schedulers == {SchedulerOf[c] : c \in Conns}
None == <<>>  \* no callback, no mutex holder, nothing in a header

VARIABLES
    scene,        \* chosen at the beginning
    present,      \* the server has the session
    clients_,     \* the connections the session has a weak reference to
    mutex_,       \* the pushing thread that holds the session's mutex_
    pushed,       \* how many frames HandleFrame has got
    pc,           \* where each pushing thread is
    frame, part,  \* the frame it pushes, and the packet of that frame
    held, todo,   \* the clients it holds, and those the packet is still to go to
    connected,    \* connections in connections_
    closed,       \* connections that have closed
    described,    \* connections whose session_id_ is this session
    setup, play,  \* is_setup and is_play
    torn,         \* is_closed_ of the RtpConnection
    hasKey,       \* has_key_frame_
    packetSeq,    \* packet_seq
    posted,       \* what is posted to each scheduler
    running,      \* the callback a scheduler is in the middle of
    header,       \* the RTP header in each copy of a packet
    handed,       \* what Send was called with on each client's connection, and
                  \* whether its write buffer took it
    dropped,      \* connections that missed a packet because of a full scheduler
    broken        \* a callback was run for a destroyed RtpConnection

pushVars == <<scene, mutex_, pushed, pc, frame, part, held, todo>>
rtspVars == <<described, setup, play, torn>>
connVars == <<connected, closed, dropped>>
sendVars == <<hasKey, packetSeq, running, header, handed, broken>>
vars == <<present, clients_, pushVars, rtspVars, connVars, sendVars, posted>>

(* A callback that sends: the client and the packet, which is a frame and  *)
(* the number of the packet in it.                                         *)
Packets == UNION {{f} \X (1 .. Frames[f].packets) : f \in 1 .. Len(Frames)}
Sends == Conns \X Packets

Init ==
    /\ scene \in Scenes
    /\ present = TRUE /\ clients_ = scene.playing
    /\ mutex_ = None /\ pushed = 0
    /\ pc = [p \in Pushers |-> "idle"]
    /\ frame = [p \in Pushers |-> 0] /\ part = [p \in Pushers |-> 0]
    /\ held = [p \in Pushers |-> {}] /\ todo = [p \in Pushers |-> {}]
    /\ connected = scene.conns /\ closed = {} /\ dropped = {}
    /\ described = scene.playing /\ setup = scene.playing /\ play = scene.playing
    /\ torn = {} /\ hasKey = {}
    /\ packetSeq = [c \in Conns |-> 0]
    /\ posted = [s \in Schedulers |-> <<>>]
    /\ running = [s \in Schedulers |-> None]
    /\ header = [copy \in Packets \X Schedulers |-> None]
    /\ handed = [c \in Conns |-> <<>>]
    /\ broken = FALSE

(* The RtpConnection of c exists. *)
Alive(c) == c \in connected \/ \E p \in Pushers : c \in held[p]

-----------------------------------------------------------------------------
(* PushFrame and MediaSession::HandleFrame. *)

PushFrame(p) ==
    /\ pc[p] = "idle" /\ p \in scene.pushers
    /\ present /\ clients_ # {} /\ pushed < scene.frames
    /\ pc' = [pc EXCEPT ![p] = "lock"]
    /\ UNCHANGED <<scene, present, clients_, mutex_, pushed, frame, part, held, todo,
                   rtspVars, connVars, sendVars, posted>>

(* A slip in HandleFrame: mutex_ is not locked. *)
HandleFrameUnlocked(p) ==
    /\ pc[p] = "lock" /\ pushed < scene.frames
    /\ pushed' = pushed + 1
    /\ frame' = [frame EXCEPT ![p] = pushed + 1] /\ part' = [part EXCEPT ![p] = 1]
    /\ pc' = [pc EXCEPT ![p] = "collect"]
    /\ UNCHANGED <<scene, present, clients_, held, todo, rtspVars, connVars, sendVars, posted, mutex_>>

HandleFrame(p) ==
    /\ pc[p] = "lock" /\ mutex_ = None /\ pushed < scene.frames
    /\ mutex_' = <<p>> /\ pushed' = pushed + 1
    /\ frame' = [frame EXCEPT ![p] = pushed + 1] /\ part' = [part EXCEPT ![p] = 1]
    /\ pc' = [pc EXCEPT ![p] = "collect"]
    /\ UNCHANGED <<scene, present, clients_, held, todo, rtspVars, connVars, sendVars, posted>>

(* The first half of the callback AddSource sets: clients that are gone    *)
(* are dropped, and those with a connection are held.                      *)
CollectClients(p) ==
    /\ pc[p] = "collect"
    /\ clients_' = {c \in clients_ : Alive(c)}
    /\ LET found == clients_ \cap connected IN
          held' = [held EXCEPT ![p] = found] /\ todo' = [todo EXCEPT ![p] = found]
    /\ pc' = [pc EXCEPT ![p] = "send"]
    /\ UNCHANGED <<scene, present, mutex_, pushed, frame, part, rtspVars, connVars, sendVars, posted>>

(* The second half, for one client: SendRtpPacket posts the callback if    *)
(* the RtspConnection is still there; a full queue drops the packet.       *)
SendRtpPacket(p, c) ==
    /\ pc[p] = "send" /\ c \in todo[p]
    /\ todo' = [todo EXCEPT ![p] = @ \ {c}]
    /\ LET s == SchedulerOf[c] IN
        \/ /\ c \in torn \/ c \notin connected
           /\ UNCHANGED <<posted, dropped>>
        \/ /\ c \in connected \ torn /\ Len(posted[s]) >= MaxPosted
           /\ dropped' = dropped \cup {c}
           /\ UNCHANGED posted
        \/ /\ c \in connected \ torn /\ Len(posted[s]) < MaxPosted
           /\ posted' = [posted EXCEPT ![s] = Append(@, <<c, <<frame[p], part[p]>>>>)]
           /\ UNCHANGED dropped
    /\ UNCHANGED <<scene, present, clients_, mutex_, pushed, pc, frame, part, held,
                   rtspVars, connected, closed, sendVars>>

(* A slip in the source's loop: it goes one packet too far. *)
PacketDoneLate(p) ==
    /\ pc[p] = "send" /\ todo[p] = {}
    /\ held' = [held EXCEPT ![p] = {}]
    /\ IF part[p] <= Frames[frame[p]].packets
       THEN /\ part' = [part EXCEPT ![p] = @ + 1]
            /\ pc' = [pc EXCEPT ![p] = "collect"]
            /\ UNCHANGED <<mutex_, frame>>
       ELSE /\ mutex_' = None /\ pc' = [pc EXCEPT ![p] = "idle"]
            /\ part' = [part EXCEPT ![p] = 0] /\ frame' = [frame EXCEPT ![p] = 0]
    /\ UNCHANGED <<scene, present, clients_, pushed, todo, rtspVars, connVars, sendVars, posted>>

(* The callback returns and lets go of the clients; the source goes on to  *)
(* the next packet of the frame.                                           *)
PacketDone(p) ==
    /\ pc[p] = "send" /\ todo[p] = {}
    /\ held' = [held EXCEPT ![p] = {}]
    /\ IF part[p] < Frames[frame[p]].packets
       THEN /\ part' = [part EXCEPT ![p] = @ + 1]
            /\ pc' = [pc EXCEPT ![p] = "collect"]
            /\ UNCHANGED <<mutex_, frame>>
       ELSE /\ mutex_' = None /\ pc' = [pc EXCEPT ![p] = "idle"]
            /\ part' = [part EXCEPT ![p] = 0] /\ frame' = [frame EXCEPT ![p] = 0]
    /\ UNCHANGED <<scene, present, clients_, pushed, todo, rtspVars, connVars, sendVars, posted>>

-----------------------------------------------------------------------------
(* What a scheduler runs.  It is done with one callback before it takes    *)
(* the next, or handles a request.                                         *)

Ready(s) == running[s] = None

(* A slip in AddSource: one copy of the packet for all schedulers. *)
CopySharedByAll(packet, s) == <<packet, CHOOSE t \in Schedulers : TRUE>>

(* The copy of a packet that the clients of scheduler s share. *)
Copy(packet, s) == <<packet, s>>

(* A slip in SetFrameType: has_key_frame_ is not remembered. *)
RunSendForgets(s) ==
    /\ Ready(s) /\ posted[s] # <<>> /\ Head(posted[s]) \in Sends
    /\ posted' = [posted EXCEPT ![s] = Tail(@)]
    /\ LET c == Head(posted[s])[1]
           packet == Head(posted[s])[2]
           key == Frames[packet[1]].key
       IN IF ~Alive(c)
          THEN broken' = TRUE /\ UNCHANGED <<hasKey, packetSeq, running, header>>
          ELSE /\ hasKey' = IF key THEN hasKey \cup {c} ELSE hasKey
               /\ IF key /\ c \in play
                  THEN /\ header' = [header EXCEPT ![Copy(packet, s)] = <<c, packetSeq[c]>>]
                       /\ packetSeq' = [packetSeq EXCEPT ![c] = (@ + 1) % SeqLimit]
                       /\ running' = [running EXCEPT ![s] = Head(posted[s])]
                  ELSE UNCHANGED <<header, packetSeq, running>>
               /\ UNCHANGED broken
    /\ UNCHANGED <<present, clients_, pushVars, rtspVars, connVars, handed>>

(* SetFrameType and SetRtpHeader, if the RtpConnection is still there. *)
RunSend(s) ==
    /\ Ready(s) /\ posted[s] # <<>> /\ Head(posted[s]) \in Sends
    /\ posted' = [posted EXCEPT ![s] = Tail(@)]
    /\ LET c == Head(posted[s])[1]
           packet == Head(posted[s])[2]
           key == c \in hasKey \/ Frames[packet[1]].key
       IN IF ~Alive(c)
          THEN broken' = TRUE /\ UNCHANGED <<hasKey, packetSeq, running, header>>
          ELSE /\ hasKey' = IF key THEN hasKey \cup {c} ELSE hasKey
               /\ IF key /\ c \in play
                  THEN /\ header' = [header EXCEPT ![Copy(packet, s)] = <<c, packetSeq[c]>>]
                       /\ packetSeq' = [packetSeq EXCEPT ![c] = (@ + 1) % SeqLimit]
                       /\ running' = [running EXCEPT ![s] = Head(posted[s])]
                  ELSE UNCHANGED <<header, packetSeq, running>>
               /\ UNCHANGED broken
    /\ UNCHANGED <<present, clients_, pushVars, rtspVars, connVars, handed>>

(* SendRtpOverTcp: the copy is handed to the connection as it is now,      *)
(* unless that is closed or gone.  Its write buffer drops the packet       *)
(* without a word if its places are all taken, as they may be at any time  *)
(* when the client reads slowly (TcpConnection.tla has what fills and      *)
(* empties the buffer).                                                    *)
SendRtpOverTcp(s) ==
    /\ running[s] # None
    /\ LET c == running[s][1]  packet == running[s][2] IN
        IF ~Alive(c) THEN broken' = TRUE /\ UNCHANGED <<handed, running>>
        ELSE /\ \/ /\ c \in connected \ closed
                   /\ \E taken \in BOOLEAN :
                        /\ taken \/ c \in scene.slow
                        /\ handed' = [handed EXCEPT ![c] = Append(@,
                             [header |-> header[Copy(packet, s)], packet |-> packet, taken |-> taken])]
                \/ c \notin connected \ closed /\ UNCHANGED handed
             /\ running' = [running EXCEPT ![s] = None]
             /\ UNCHANGED broken
    /\ UNCHANGED <<present, clients_, pushVars, rtspVars, connVars, hasKey, packetSeq, header, posted>>

RemoveConnection(s) ==
    /\ Ready(s) /\ posted[s] # <<>> /\ Head(posted[s])[1] = "remove"
    /\ connected' = connected \ {Head(posted[s])[2]}
    /\ posted' = [posted EXCEPT ![s] = Tail(@)]
    /\ UNCHANGED <<present, clients_, pushVars, rtspVars, closed, dropped, sendVars>>

(* A connection can handle a request. *)
Open(c) == c \in connected \ closed /\ Ready(SchedulerOf[c])

HandleCmdDescribe(c) ==
    /\ Open(c) /\ present
    /\ described' = described \cup {c} /\ clients_' = clients_ \cup {c}
    /\ UNCHANGED <<present, pushVars, setup, play, torn, connVars, sendVars, posted>>

HandleCmdSetup(c) ==
    /\ Open(c) /\ present /\ c \in described
    /\ setup' = setup \cup {c}
    /\ UNCHANGED <<present, clients_, pushVars, described, play, torn, connVars, sendVars, posted>>

(* PLAY is accepted without a SETUP, and after a TEARDOWN. *)
HandleCmdPlay(c) ==
    /\ Open(c) /\ c \in described
    /\ play' = IF c \in setup THEN play \cup {c} ELSE play
    /\ UNCHANGED <<present, clients_, pushVars, described, setup, torn, connVars, sendVars, posted>>

HandleCmdTeardown(c) ==
    /\ Open(c) /\ c \in described /\ c \notin torn
    /\ torn' = torn \cup {c} /\ play' = play \ {c}
    /\ UNCHANGED <<present, clients_, pushVars, described, setup, connVars, sendVars, posted>>

(* Close, OnClose and the posted removal (TcpServer.tla has the case that  *)
(* the queue is full).                                                     *)
HandleClose(c) ==
    /\ Open(c)
    /\ closed' = closed \cup {c}
    /\ clients_' = IF present /\ c \in described THEN clients_ \ {c} ELSE clients_
    /\ posted' = [posted EXCEPT ![SchedulerOf[c]] = Append(@, <<"remove", c>>)]
    /\ UNCHANGED <<present, pushVars, rtspVars, connected, dropped, sendVars>>

RemoveSession ==
    /\ present
    /\ present' = FALSE
    /\ UNCHANGED <<clients_, pushVars, rtspVars, connVars, sendVars, posted>>

-----------------------------------------------------------------------------
Push(p) ==
    \/ HandleFrame(p) \/ CollectClients(p) \/ PacketDone(p)
    \/ \E c \in Conns : SendRtpPacket(p, c)

Run(s) == RunSend(s) \/ SendRtpOverTcp(s) \/ RemoveConnection(s)

Request(c) ==
    \/ HandleCmdDescribe(c) \/ HandleCmdSetup(c) \/ HandleCmdPlay(c) \/ HandleCmdTeardown(c)
    \/ HandleClose(c)

(* Once a callback has run for a destroyed object nothing is promised. *)
Next ==
    /\ ~broken
    /\ \/ \E p \in Pushers : PushFrame(p) \/ Push(p)
       \/ \E s \in Schedulers : Run(s)
       \/ \E c \in Conns : Request(c)
       \/ RemoveSession

(* The threads run. *)
Spec ==
    /\ Init /\ [][Next]_vars
    /\ \A p \in Pushers : WF_vars(~broken /\ Push(p))
    /\ \A s \in Schedulers : WF_vars(~broken /\ Run(s))

-----------------------------------------------------------------------------
Headers == Conns \X (0 .. SeqLimit - 1)

(* The types of the variables. *)
TypeOK ==
    /\ scene \in Scenes
    /\ present \in BOOLEAN /\ broken \in BOOLEAN
    /\ clients_ \subseteq Conns
    /\ mutex_ \in {None} \cup {<<p>> : p \in Pushers}
    /\ pushed \in 0 .. Len(Frames)
    /\ pc \in [Pushers -> {"idle", "lock", "collect", "send"}]
    /\ frame \in [Pushers -> Nat] /\ part \in [Pushers -> Nat]
    /\ \A p \in Pushers : pc[p] \in {"collect", "send"} => <<frame[p], part[p]>> \in Packets
    /\ held \in [Pushers -> SUBSET Conns] /\ todo \in [Pushers -> SUBSET Conns]
    /\ connected \subseteq Conns /\ closed \subseteq Conns /\ dropped \subseteq Conns
    /\ described \subseteq Conns /\ setup \subseteq Conns /\ play \subseteq Conns
    /\ torn \subseteq Conns /\ hasKey \subseteq Conns
    /\ packetSeq \in [Conns -> 0 .. SeqLimit - 1]
    /\ posted \in [Schedulers -> Seq(Sends \cup ({"remove"} \X Conns))]
    /\ running \in [Schedulers -> Sends \cup {None}]
    /\ header \in [Packets \X Schedulers -> Headers \cup {None}]
    /\ handed \in [Conns -> Seq([header : Headers, packet : Packets, taken : BOOLEAN])]

(* Each packet handed to a client's connection carries the client's own    *)
(* header, and its numbers are consecutive: two schedulers never write     *)
(* into the same copy, and a hole in the numbers a client reads is a       *)
(* packet its full write buffer dropped.                                   *)
OwnSequence ==
    \A c \in Conns : \A i \in 1 .. Len(handed[c]) : handed[c][i].header = <<c, (i - 1) % SeqLimit>>

(* The packet after q in the order they are pushed. *)
Successor(q) ==
    IF q[2] < Frames[q[1]].packets THEN <<q[1], q[2] + 1>> ELSE <<q[1] + 1, 1>>

(* The packets handed to a client's connection are in the order they are   *)
(* pushed and without a gap once it has started, as long as it does not    *)
(* tear its session down and its scheduler's full queue refused none:      *)
(* frames pushed by two threads do not mix, and what a client then misses  *)
(* is what its write buffer dropped.                                       *)
NoGap ==
    \A c \in Conns \ (torn \cup dropped) : \A i \in 1 .. Len(handed[c]) - 1 :
        handed[c][i + 1].packet = Successor(handed[c][i].packet)

(* Packet q is on its way to client c; its write buffer had no place for   *)
(* it.                                                                     *)
Gets(c, q) == \E i \in 1 .. Len(handed[c]) : handed[c][i].packet = q /\ handed[c][i].taken
Overflows(c, q) == \E i \in 1 .. Len(handed[c]) : handed[c][i].packet = q /\ ~handed[c][i].taken

(* A packet that is posted for a client that plays and has had a key frame *)
(* gets into its write buffer, unless there is no place in it, or the      *)
(* client stops playing or closes.                                         *)
PlayingGetsIt ==
    \A c \in Conns, q \in Packets :
        (\E i \in 1 .. Len(posted[SchedulerOf[c]]) : posted[SchedulerOf[c]][i] = <<c, q>>)
            /\ c \in play \cap hasKey
        ~> Gets(c, q) \/ Overflows(c, q) \/ c \notin play \/ c \in closed \/ broken

(* The frame is sent on an RtpConnection that still exists, whichever      *)
(* thread pushed it.                                                       *)
SentOnLiveConnection == ~broken
=============================================================================
