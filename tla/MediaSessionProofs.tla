------------------------- MODULE MediaSessionProofs -------------------------
(***************************************************************************)
(* Every client of a media session gets its own consecutive sequence       *)
(* numbers, and the frames whole and in order, for any number of clients,  *)
(* schedulers, pushing threads and frames, and any limits.                 *)
(***************************************************************************)
EXTENDS MediaSession, SequenceTheorems, TLAPS

(* mutex_ is held by the pushing thread that works on the last frame, and  *)
(* only a thread that sends has clients to send to.                        *)
OnePusher ==
    \A p \in Pushers :
        /\ pc[p] \in {"collect", "send"} <=> mutex_ = <<p>>
        /\ pc[p] \in {"collect", "send"} => frame[p] = pushed
        /\ pc[p] # "send" => todo[p] = {}

(* What is posted to a scheduler is for its own connections.               *)
Routed ==
    \A s \in Schedulers :
        /\ \A i \in 1 .. Len(posted[s]) :
              posted[s][i] \in Sends => SchedulerOf[posted[s][i][1]] = s
        /\ running[s] # None => SchedulerOf[running[s][1]] = s

(* The scheduler of c is between the header and the sending of a packet.   *)
Sending(c) == running[SchedulerOf[c]] # None /\ running[SchedulerOf[c]][1] = c

(* As long as a connection is open, what it has been sent is numbered in   *)
(* full, and the copy of the packet it is being sent carries its header.   *)
Numbered ==
    \A c \in connected \ closed :
        IF Sending(c)
        THEN /\ packetSeq[c] = (Len(handed[c]) + 1) % SeqLimit
             /\ header[Copy(running[SchedulerOf[c]][2], SchedulerOf[c])]
                    = <<c, Len(handed[c]) % SeqLimit>>
        ELSE packetSeq[c] = Len(handed[c]) % SeqLimit

IInv == TypeOK /\ OnePusher /\ Routed /\ Numbered /\ OwnSequence

-----------------------------------------------------------------------------
LEMMA Constants ==
    /\ "remove" \notin Conns
    /\ SchedulerOf \in [Conns -> Nat]
    /\ Frames \in Seq([key : BOOLEAN, packets : Nat \ {0}])
    /\ Scenes \subseteq
          [conns : SUBSET Conns, playing : SUBSET Conns, slow : SUBSET Conns,
           pushers : SUBSET Pushers, frames : 0 .. Len(Frames)]
    /\ MaxPosted \in Nat /\ SeqLimit \in Nat \ {0}
    /\ \A c \in Conns : SchedulerOf[c] \in Schedulers
  BY MediaSessionAssumption DEF Schedulers

LEMMA FrameIs ==
    /\ Frames \in Seq([key : BOOLEAN, packets : Nat \ {0}]) /\ Len(Frames) \in Nat
    /\ \A f \in 1 .. Len(Frames) :
          /\ f \in Nat /\ Frames[f] \in [key : BOOLEAN, packets : Nat \ {0}]
          /\ Frames[f].key \in BOOLEAN /\ Frames[f].packets \in Nat \ {0}
  <1> DEFINE Kinds == [key : BOOLEAN, packets : Nat \ {0}]
  <1>1. Frames \in Seq(Kinds)
    BY MediaSessionAssumption
  <1>2. ASSUME NEW f \in 1 .. Len(Frames)
        PROVE  f \in Nat /\ Frames[f] \in Kinds
    <2> HIDE DEF Kinds
    <2> QED
      BY <1>1
  <1>3. QED
    BY <1>1, <1>2

LEMMA PacketIs ==
    ASSUME NEW f, NEW k
    PROVE  <<f, k>> \in Packets <=> f \in 1 .. Len(Frames) /\ k \in 1 .. Frames[f].packets
  <1>1. ASSUME NEW g \in 1 .. Len(Frames), <<f, k>> \in {g} \X (1 .. Frames[g].packets)
        PROVE  f = g /\ k \in 1 .. Frames[g].packets
    BY <1>1
  <1>2. f \in 1 .. Len(Frames) /\ k \in 1 .. Frames[f].packets
            => <<f, k>> \in {f} \X (1 .. Frames[f].packets)
    OBVIOUS
  <1>3. QED
    BY <1>1, <1>2 DEF Packets

LEMMA PacketShape ==
    ASSUME NEW q \in Packets
    PROVE  /\ q = <<q[1], q[2]>> /\ q[1] \in 1 .. Len(Frames) /\ q[2] \in 1 .. Frames[q[1]].packets
           /\ q[1] \in Nat /\ q[2] \in Nat /\ Frames[q[1]].packets \in Nat \ {0}
  <1>1. PICK f \in 1 .. Len(Frames) : q \in {f} \X (1 .. Frames[f].packets)
    BY DEF Packets
  <1>2. Frames[f] \in [key : BOOLEAN, packets : Nat \ {0}] /\ f \in Nat
    BY FrameIs
  <1>3. QED
    BY <1>1, <1>2

LEMMA SendShape ==
    ASSUME NEW e \in Sends
    PROVE  e = <<e[1], e[2]>> /\ e[1] \in Conns /\ e[2] \in Packets /\ e # None
  BY DEF Sends, None

(* Sequence numbers count modulo their range.                              *)
LEMMA ModSuccessor ==
    ASSUME NEW n \in Nat \ {0}, NEW a \in Nat
    PROVE  a % n \in 0 .. n - 1 /\ ((a % n) + 1) % n = (a + 1) % n
  <1>1. a = n * (a \div n) + (a % n) /\ a \div n \in Nat /\ a % n \in 0 .. n - 1
    OBVIOUS
  <1>2. PICK q \in Nat, r \in 0 .. n - 1 : a = n * q + r /\ r = a % n
    BY <1>1
  <1>3. ASSUME NEW m \in Nat, NEW k \in 0 .. n - 1 PROVE (n * m + k) % n = k
    OBVIOUS
  <1>4. CASE r + 1 < n
    <2>1. a + 1 = n * q + (r + 1) /\ r + 1 \in 0 .. n - 1
      BY <1>2, <1>4
    <2>2. (n * q + (r + 1)) % n = r + 1
      BY <1>3, <2>1
    <2>3. (r + 1) % n = r + 1
      BY <2>1
    <2>4. QED
      BY <1>1, <1>2, <2>1, <2>2, <2>3
  <1>5. CASE r + 1 = n
    <2>1. a + 1 = n * (q + 1) + 0 /\ q + 1 \in Nat /\ 0 \in 0 .. n - 1
      BY <1>2, <1>5
    <2>2. (n * (q + 1) + 0) % n = 0
      BY <1>3, <2>1
    <2>3. n % n = 0
      OBVIOUS
    <2>4. QED
      BY <1>1, <1>2, <1>5, <2>1, <2>2, <2>3
  <1>6. QED
    BY <1>2, <1>4, <1>5

LEMMA InitIInv == Init => IInv
  <1> SUFFICES ASSUME Init PROVE IInv
    OBVIOUS
  <1> USE DEF Init
  <1>1. /\ scene \in Scenes /\ scene.conns \subseteq Conns /\ scene.playing \subseteq Conns
        /\ scene.frames \in 0 .. Len(Frames) /\ Len(Frames) \in Nat
    BY Constants
  <1>2. TypeOK
    <2>1. packetSeq \in [Conns -> 0 .. SeqLimit - 1]
      BY Constants
    <2>2. /\ posted \in [Schedulers -> Seq(Sends \cup ({"remove"} \X Conns))]
          /\ running \in [Schedulers -> Sends \cup {None}]
          /\ header \in [Packets \X Schedulers -> Headers \cup {None}]
          /\ handed \in [Conns -> Seq([header : Headers, packet : Packets, taken : BOOLEAN])]
      OBVIOUS
    <2>3. /\ pc \in [Pushers -> {"idle", "lock", "collect", "send"}]
          /\ frame \in [Pushers -> Nat] /\ part \in [Pushers -> Nat]
          /\ held \in [Pushers -> SUBSET Conns] /\ todo \in [Pushers -> SUBSET Conns]
          /\ \A p \in Pushers : pc[p] \notin {"collect", "send"}
      OBVIOUS
    <2>4. present \in BOOLEAN /\ broken \in BOOLEAN
      OBVIOUS
    <2>5. /\ pushed \in 0 .. Len(Frames)
          /\ connected \subseteq Conns /\ closed \subseteq Conns /\ dropped \subseteq Conns
          /\ clients_ \subseteq Conns /\ mutex_ = None
          /\ described \subseteq Conns /\ setup \subseteq Conns /\ play \subseteq Conns
          /\ torn \subseteq Conns /\ hasKey \subseteq Conns
      BY <1>1
    <2> QED
      <3> HIDE DEF Init
      <3> QED
        BY <1>1, <2>1, <2>2, <2>3, <2>4, <2>5 DEF TypeOK
  <1>3. OnePusher
    BY DEF OnePusher, None
  <1>4. Routed
    BY DEF Routed
  <1>5. Numbered
    <2>1. ASSUME NEW c \in connected \ closed
          PROVE  ~Sending(c) /\ packetSeq[c] = Len(handed[c]) % SeqLimit
      <3>1. c \in Conns
        BY <1>1
      <3>2. packetSeq[c] = 0 /\ Len(handed[c]) = 0
        BY <3>1
      <3>3. 0 % SeqLimit = 0
        BY Constants
      <3>4. running[SchedulerOf[c]] = None
        BY <3>1, Constants
      <3>5. QED
        BY <3>2, <3>3, <3>4 DEF Sending
    <2>2. QED
      BY <2>1 DEF Numbered
  <1>6. OwnSequence
    BY DEF OwnSequence
  <1>7. QED
    BY <1>2, <1>3, <1>4, <1>5, <1>6 DEF IInv

(* The steps of a pushing thread: they neither send nor number anything.   *)
LEMMA PusherTypeOK ==
    ASSUME IInv, NEW p \in Pushers,
           PushFrame(p) \/ HandleFrame(p) \/ CollectClients(p) \/ PacketDone(p)
    PROVE  /\ scene' \in Scenes /\ pushed' \in 0 .. Len(Frames) /\ clients_' \subseteq Conns
           /\ mutex_' \in {None} \cup {<<r>> : r \in Pushers}
           /\ pc' \in [Pushers -> {"idle", "lock", "collect", "send"}]
           /\ frame' \in [Pushers -> Nat] /\ part' \in [Pushers -> Nat]
           /\ held' \in [Pushers -> SUBSET Conns] /\ todo' \in [Pushers -> SUBSET Conns]
           /\ \A r \in Pushers : pc'[r] \in {"collect", "send"} => <<frame'[r], part'[r]>> \in Packets
           /\ UNCHANGED <<present, broken, rtspVars, connVars, sendVars, posted>>
  <1>1. /\ scene \in Scenes /\ pushed \in 0 .. Len(Frames) /\ clients_ \subseteq Conns
        /\ mutex_ \in {None} \cup {<<r>> : r \in Pushers}
        /\ pc \in [Pushers -> {"idle", "lock", "collect", "send"}]
        /\ frame \in [Pushers -> Nat] /\ part \in [Pushers -> Nat]
        /\ held \in [Pushers -> SUBSET Conns] /\ todo \in [Pushers -> SUBSET Conns]
        /\ \A r \in Pushers : pc[r] \in {"collect", "send"} => <<frame[r], part[r]>> \in Packets
        /\ scene.frames \in 0 .. Len(Frames) /\ Len(Frames) \in Nat
    BY Constants DEF IInv, TypeOK
  <1>2. CASE PushFrame(p)
    BY <1>1, <1>2 DEF PushFrame, sendVars
  <1>3. CASE HandleFrame(p)
    <2>1. pushed < scene.frames /\ pushed + 1 \in 1 .. Len(Frames)
      BY <1>1, <1>3 DEF HandleFrame
    <2>2. <<pushed + 1, 1>> \in Packets
      <3>1. Frames[pushed + 1] \in [key : BOOLEAN, packets : Nat \ {0}]
        BY <2>1, FrameIs
      <3>2. QED
        BY <2>1, <3>1, PacketIs
    <2>3. /\ pushed' = pushed + 1 /\ frame' = [frame EXCEPT ![p] = pushed + 1]
          /\ part' = [part EXCEPT ![p] = 1] /\ pc' = [pc EXCEPT ![p] = "collect"]
          /\ mutex_' = <<p>> /\ UNCHANGED <<scene, clients_, held, todo>>
          /\ UNCHANGED <<present, broken, rtspVars, connVars, sendVars, posted>>
      BY <1>3 DEF HandleFrame, sendVars
    <2>4. \A r \in Pushers : pc'[r] \in {"collect", "send"} => <<frame'[r], part'[r]>> \in Packets
      BY <1>1, <2>2, <2>3
    <2>5. QED
      BY <1>1, <2>1, <2>3, <2>4
  <1>4. CASE CollectClients(p)
    <2>1. pc[p] = "collect" /\ pc' = [pc EXCEPT ![p] = "send"] /\ UNCHANGED <<frame, part>>
      BY <1>4 DEF CollectClients
    <2>2. \A r \in Pushers : pc'[r] \in {"collect", "send"} => <<frame'[r], part'[r]>> \in Packets
      BY <1>1, <2>1
    <2>3. held' \in [Pushers -> SUBSET Conns] /\ todo' \in [Pushers -> SUBSET Conns]
      BY <1>1, <1>4 DEF CollectClients
    <2>4. clients_' \subseteq Conns
      BY <1>1, <1>4 DEF CollectClients
    <2>5. QED
      BY <1>1, <1>4, <2>1, <2>2, <2>3, <2>4 DEF CollectClients, sendVars
  <1>5. CASE PacketDone(p)
    <2>1. /\ pc[p] = "send" /\ held' = [held EXCEPT ![p] = {}]
          /\ UNCHANGED <<scene, present, clients_, pushed, todo, rtspVars, connVars, sendVars, posted>>
      BY <1>5 DEF PacketDone
    <2>2. held' \in [Pushers -> SUBSET Conns]
      BY <1>1, <2>1
    <2>3. CASE part[p] < Frames[frame[p]].packets
      <3>1. /\ part' = [part EXCEPT ![p] = @ + 1] /\ pc' = [pc EXCEPT ![p] = "collect"]
            /\ UNCHANGED <<mutex_, frame>>
        BY <1>5, <2>3 DEF PacketDone
      <3>2. <<frame[p], part[p]>> \in Packets
        BY <1>1, <2>1
      <3>3. frame[p] \in 1 .. Len(Frames) /\ part[p] \in 1 .. Frames[frame[p]].packets
        BY <3>2, PacketIs
      <3>4. Frames[frame[p]].packets \in Nat
        BY <3>3, FrameIs
      <3>5. part[p] + 1 \in 1 .. Frames[frame[p]].packets /\ part[p] + 1 \in Nat
        BY <2>3, <3>3, <3>4
      <3>6. <<frame[p], part[p] + 1>> \in Packets
        BY <3>3, <3>5, PacketIs
      <3>7. part' \in [Pushers -> Nat] /\ pc' \in [Pushers -> {"idle", "lock", "collect", "send"}]
        BY <1>1, <3>1, <3>5
      <3>8. \A r \in Pushers : pc'[r] \in {"collect", "send"} => <<frame'[r], part'[r]>> \in Packets
        BY <1>1, <3>1, <3>6
      <3>9. QED
        BY <1>1, <2>1, <2>2, <3>1, <3>7, <3>8 DEF sendVars
    <2>4. CASE ~(part[p] < Frames[frame[p]].packets)
      <3>1. /\ part' = [part EXCEPT ![p] = 0] /\ frame' = [frame EXCEPT ![p] = 0]
            /\ pc' = [pc EXCEPT ![p] = "idle"] /\ mutex_' = None
        BY <1>5, <2>4 DEF PacketDone
      <3>2. \A r \in Pushers : pc'[r] \in {"collect", "send"} => <<frame'[r], part'[r]>> \in Packets
        BY <1>1, <3>1
      <3>3. QED
        BY <1>1, <2>1, <2>2, <3>1, <3>2 DEF sendVars
    <2>5. QED
      BY <2>3, <2>4
  <1>6. QED
    BY <1>2, <1>3, <1>4, <1>5

LEMMA PusherOnePusher ==
    ASSUME IInv, NEW p \in Pushers,
           PushFrame(p) \/ HandleFrame(p) \/ CollectClients(p) \/ PacketDone(p)
    PROVE  OnePusher'
  <1>1. /\ mutex_ \in {None} \cup {<<r>> : r \in Pushers} /\ OnePusher
        /\ pc \in [Pushers -> {"idle", "lock", "collect", "send"}]
        /\ frame \in [Pushers -> Nat] /\ todo \in [Pushers -> SUBSET Conns]
    BY DEF IInv, TypeOK
  <1>2. \A r \in Pushers : <<r>> # None /\ (<<r>> = <<p>> => r = p)
    BY DEF None
  <1>3. CASE PushFrame(p)
    BY <1>1, <1>3 DEF PushFrame, OnePusher
  <1>4. CASE HandleFrame(p)
    <2>1. /\ pc[p] = "lock" /\ mutex_ = None /\ mutex_' = <<p>> /\ pushed' = pushed + 1
          /\ frame' = [frame EXCEPT ![p] = pushed + 1] /\ pc' = [pc EXCEPT ![p] = "collect"]
          /\ UNCHANGED todo
      BY <1>4 DEF HandleFrame
    <2>2. \A r \in Pushers \ {p} : pc[r] \notin {"collect", "send"} /\ pc'[r] = pc[r]
      BY <1>1, <1>2, <2>1 DEF OnePusher
    <2>3. pc'[p] = "collect" /\ frame'[p] = pushed' /\ todo'[p] = {}
      BY <1>1, <2>1 DEF OnePusher
    <2>4. QED
      BY <1>1, <1>2, <2>1, <2>2, <2>3 DEF OnePusher
  <1>5. CASE CollectClients(p)
    <2>1. /\ pc[p] = "collect" /\ pc' = [pc EXCEPT ![p] = "send"] /\ UNCHANGED <<mutex_, frame, pushed>>
          /\ \A r \in Pushers \ {p} : todo'[r] = todo[r]
      BY <1>1, <1>5 DEF CollectClients
    <2>2. QED
      BY <1>1, <2>1 DEF OnePusher
  <1>6. CASE PacketDone(p)
    <2>1. pc[p] = "send" /\ todo[p] = {} /\ UNCHANGED <<pushed, todo>> /\ mutex_ = <<p>>
      BY <1>1, <1>6 DEF PacketDone, OnePusher
    <2>2. CASE part[p] < Frames[frame[p]].packets
      <3>1. pc' = [pc EXCEPT ![p] = "collect"] /\ UNCHANGED <<mutex_, frame>>
        BY <1>6, <2>2 DEF PacketDone
      <3>2. QED
        BY <1>1, <2>1, <3>1 DEF OnePusher
    <2>3. CASE ~(part[p] < Frames[frame[p]].packets)
      <3>1. /\ frame' = [frame EXCEPT ![p] = 0] /\ pc' = [pc EXCEPT ![p] = "idle"] /\ mutex_' = None
        BY <1>6, <2>3 DEF PacketDone
      <3>2. \A r \in Pushers \ {p} : pc[r] \notin {"collect", "send"} /\ pc'[r] = pc[r]
        BY <1>1, <1>2, <2>1, <3>1 DEF OnePusher
      <3>3. QED
        BY <1>1, <1>2, <2>1, <3>1, <3>2 DEF OnePusher
    <2>4. QED
      BY <2>2, <2>3
  <1>7. QED
    BY <1>3, <1>4, <1>5, <1>6

LEMMA PusherIInv ==
    ASSUME IInv, NEW p \in Pushers,
           PushFrame(p) \/ HandleFrame(p) \/ CollectClients(p) \/ PacketDone(p)
    PROVE  IInv'
  <1>1. UNCHANGED <<present, broken, rtspVars, connVars, sendVars, posted>>
    BY PusherTypeOK
  <1>2. TypeOK'
    BY <1>1, PusherTypeOK DEF IInv, TypeOK, rtspVars, connVars, sendVars
  <1>3. OnePusher'
    BY PusherOnePusher
  <1>4. Routed' /\ Numbered' /\ OwnSequence'
    BY <1>1 DEF IInv, Routed, Numbered, OwnSequence, Sending, connVars, sendVars
  <1>5. QED
    BY <1>2, <1>3, <1>4 DEF IInv

LEMMA SendRtpPacketIInv ==
    ASSUME IInv, NEW p \in Pushers, NEW c \in Conns, SendRtpPacket(p, c)
    PROVE  IInv'
  <1> DEFINE s == SchedulerOf[c]
             callback == <<c, <<frame[p], part[p]>>>>
             Callbacks == Sends \cup ({"remove"} \X Conns)
  <1>1. /\ pc[p] = "send" /\ todo' = [todo EXCEPT ![p] = @ \ {c}]
        /\ UNCHANGED <<scene, present, clients_, mutex_, pushed, pc, frame, part, held,
                       described, setup, play, torn, connected, closed,
                       hasKey, packetSeq, running, header, handed, broken>>
    BY DEF SendRtpPacket, rtspVars, sendVars
  <1>2. /\ dropped' = dropped \/ dropped' = dropped \cup {c}
        /\ posted' = posted \/ posted' = [posted EXCEPT ![s] = Append(@, callback)]
    BY DEF SendRtpPacket
  <1>3. /\ s \in Schedulers /\ posted \in [Schedulers -> Seq(Callbacks)]
        /\ todo \in [Pushers -> SUBSET Conns] /\ dropped \subseteq Conns
    BY Constants DEF IInv, TypeOK
  <1>4. callback \in Sends
    BY <1>1 DEF IInv, TypeOK, Sends
  <1>5. /\ posted' \in [Schedulers -> Seq(Callbacks)]
        /\ \A t \in Schedulers : \A i \in 1 .. Len(posted'[t]) :
              \/ i \in 1 .. Len(posted[t]) /\ posted'[t][i] = posted[t][i]
              \/ t = s /\ posted'[t][i] = callback
    <2>1. CASE posted' = posted
      BY <2>1, <1>3
    <2>2. CASE posted' = [posted EXCEPT ![s] = Append(@, callback)]
      <3> HIDE DEF s, callback, Callbacks
      <3>1. posted[s] \in Seq(Callbacks) /\ callback \in Callbacks
        BY <1>3, <1>4 DEF Callbacks
      <3>2. /\ posted'[s] = Append(posted[s], callback)
            /\ \A t \in Schedulers \ {s} : posted'[t] = posted[t]
        BY <1>3, <2>2
      <3>3. /\ Append(posted[s], callback) \in Seq(Callbacks)
            /\ Len(Append(posted[s], callback)) = Len(posted[s]) + 1
            /\ Append(posted[s], callback)[Len(posted[s]) + 1] = callback
            /\ \A i \in 1 .. Len(posted[s]) : Append(posted[s], callback)[i] = posted[s][i]
            /\ Len(posted[s]) \in Nat
        BY <3>1
      <3>4. posted' \in [Schedulers -> Seq(Callbacks)]
        BY <1>3, <2>2, <3>3
      <3>5. ASSUME NEW i \in 1 .. Len(posted'[s])
            PROVE  \/ i \in 1 .. Len(posted[s]) /\ posted'[s][i] = posted[s][i]
                   \/ posted'[s][i] = callback
        BY <3>2, <3>3
      <3>6. QED
        BY <3>2, <3>4, <3>5
    <2>3. QED
      BY <1>2, <2>1, <2>2
  <1>6. todo' \in [Pushers -> SUBSET Conns] /\ dropped' \subseteq Conns
    BY <1>1, <1>2, <1>3
  <1>7. TypeOK'
    BY <1>1, <1>5, <1>6 DEF IInv, TypeOK
  <1>8. OnePusher'
    BY <1>1, <1>3 DEF IInv, OnePusher
  <1>9. Routed'
    <2>1. callback[1] = c
      OBVIOUS
    <2>2. QED
      BY <1>1, <1>5, <2>1 DEF IInv, Routed
  <1>10. Numbered' /\ OwnSequence'
    BY <1>1 DEF IInv, Numbered, OwnSequence, Sending
  <1>11. QED
    BY <1>7, <1>8, <1>9, <1>10 DEF IInv

(* What taking the first callback of a scheduler does to what is posted.   *)
LEMMA PopPosted ==
    ASSUME IInv, NEW s \in Schedulers, posted[s] # <<>>,
           posted' = [posted EXCEPT ![s] = Tail(@)]
    PROVE  /\ posted' \in [Schedulers -> Seq(Sends \cup ({"remove"} \X Conns))]
           /\ Head(posted[s]) = posted[s][1] /\ 1 \in 1 .. Len(posted[s])
           /\ Head(posted[s]) \in Sends \cup ({"remove"} \X Conns)
           /\ Len(posted[s]) \in Nat \ {0} /\ Len(posted'[s]) = Len(posted[s]) - 1
           /\ \A i \in 1 .. Len(posted'[s]) :
                 i + 1 \in 1 .. Len(posted[s]) /\ posted'[s][i] = posted[s][i + 1]
           /\ \A t \in Schedulers \ {s} : posted'[t] = posted[t]
  <1> DEFINE Callbacks == Sends \cup ({"remove"} \X Conns)
  <1>1. posted \in [Schedulers -> Seq(Callbacks)]
    BY DEF IInv, TypeOK
  <1> HIDE DEF Callbacks
  <1>2. posted[s] \in Seq(Callbacks) /\ posted'[s] = Tail(posted[s])
    BY <1>1
  <1>3. /\ Head(posted[s]) = posted[s][1] /\ Head(posted[s]) \in Callbacks
        /\ Len(posted[s]) \in Nat \ {0} /\ Tail(posted[s]) \in Seq(Callbacks)
        /\ Len(Tail(posted[s])) = Len(posted[s]) - 1
        /\ \A i \in 1 .. Len(Tail(posted[s])) :
              i + 1 \in 1 .. Len(posted[s]) /\ Tail(posted[s])[i] = posted[s][i + 1]
    BY <1>2
  <1>4. posted' \in [Schedulers -> Seq(Callbacks)] /\ \A t \in Schedulers \ {s} : posted'[t] = posted[t]
    BY <1>1, <1>3
  <1>5. 1 \in 1 .. Len(posted[s])
    BY <1>3
  <1>6. QED
    BY <1>2, <1>3, <1>4, <1>5 DEF Callbacks

LEMMA PopRouted ==
    ASSUME IInv, NEW s \in Schedulers, posted[s] # <<>>,
           posted' = [posted EXCEPT ![s] = Tail(@)]
    PROVE  \A t \in Schedulers : \A i \in 1 .. Len(posted'[t]) :
               posted'[t][i] \in Sends => SchedulerOf[posted'[t][i][1]] = t
  <1>1. \A t \in Schedulers : \A i \in 1 .. Len(posted[t]) :
            posted[t][i] \in Sends => SchedulerOf[posted[t][i][1]] = t
    BY DEF IInv, Routed
  <1>2. QED
    BY <1>1, PopPosted

(* RunSend takes a packet for a client of its own scheduler; if the packet *)
(* goes out, its copy on that scheduler carries the client's next number.  *)
LEMMA RunSendIInv ==
    ASSUME IInv, NEW s \in Schedulers, RunSend(s)
    PROVE  IInv'
  <1> DEFINE e == Head(posted[s])
             c == e[1]
             packet == e[2]
  <1>1. /\ running[s] = None /\ posted[s] # <<>> /\ e \in Sends
        /\ posted' = [posted EXCEPT ![s] = Tail(@)]
        /\ UNCHANGED <<scene, present, clients_, mutex_, pushed, pc, frame, part, held, todo,
                       described, setup, play, torn, connected, closed, dropped, handed>>
    BY DEF RunSend, Ready, pushVars, rtspVars, connVars
  <1>2. c \in Conns /\ packet \in Packets /\ e = <<c, packet>> /\ e # None /\ SchedulerOf[c] = s
    BY <1>1, SendShape, PopPosted DEF IInv, Routed
  <1>3. hasKey' = hasKey \/ hasKey' = hasKey \cup {c}
    BY DEF RunSend
  <1>4. \/ UNCHANGED <<packetSeq, running, header>>
        \/ /\ header' = [header EXCEPT ![Copy(packet, s)] = <<c, packetSeq[c]>>]
           /\ packetSeq' = [packetSeq EXCEPT ![c] = (@ + 1) % SeqLimit]
           /\ running' = [running EXCEPT ![s] = e]
    BY DEF RunSend
  <1>5. broken' \in BOOLEAN
    BY DEF RunSend, IInv, TypeOK
  <1>6. /\ packetSeq \in [Conns -> 0 .. SeqLimit - 1] /\ hasKey \subseteq Conns
        /\ running \in [Schedulers -> Sends \cup {None}]
        /\ header \in [Packets \X Schedulers -> Headers \cup {None}]
        /\ connected \subseteq Conns /\ SeqLimit \in Nat \ {0}
    BY Constants DEF IInv, TypeOK
  <1> HIDE DEF e, c, packet
  <1>7. packetSeq[c] \in Nat /\ <<c, packetSeq[c]>> \in Headers /\ (packetSeq[c] + 1) % SeqLimit \in 0 .. SeqLimit - 1
    <2>1. packetSeq[c] \in 0 .. SeqLimit - 1 /\ packetSeq[c] \in Nat /\ packetSeq[c] + 1 \in Nat
      BY <1>2, <1>6
    <2>2. QED
      BY <1>2, <1>6, <2>1, ModSuccessor DEF Headers
  <1>8. Copy(packet, s) \in Packets \X Schedulers
    BY <1>2 DEF Copy
  <1>9. /\ packetSeq' \in [Conns -> 0 .. SeqLimit - 1] /\ hasKey' \subseteq Conns
        /\ running' \in [Schedulers -> Sends \cup {None}]
        /\ header' \in [Packets \X Schedulers -> Headers \cup {None}]
    <2>1. hasKey' \subseteq Conns
      BY <1>2, <1>3, <1>6
    <2>2. CASE UNCHANGED <<packetSeq, running, header>>
      BY <1>6, <2>1, <2>2
    <2>3. CASE /\ header' = [header EXCEPT ![Copy(packet, s)] = <<c, packetSeq[c]>>]
               /\ packetSeq' = [packetSeq EXCEPT ![c] = (@ + 1) % SeqLimit]
               /\ running' = [running EXCEPT ![s] = e]
      <3>1. packetSeq' \in [Conns -> 0 .. SeqLimit - 1]
        BY <1>6, <1>7, <2>3
      <3>2. running' \in [Schedulers -> Sends \cup {None}]
        BY <1>1, <1>6, <2>3
      <3>3. header' \in [Packets \X Schedulers -> Headers \cup {None}]
        BY <1>6, <1>7, <1>8, <2>3
      <3>4. QED
        BY <2>1, <3>1, <3>2, <3>3
    <2>4. QED
      BY <1>4, <2>2, <2>3
  <1>10. posted' \in [Schedulers -> Seq(Sends \cup ({"remove"} \X Conns))]
    BY <1>1, PopPosted
  <1>11. TypeOK'
    BY <1>1, <1>5, <1>9, <1>10 DEF IInv, TypeOK
  <1>12. OnePusher' /\ OwnSequence'
    BY <1>1 DEF IInv, OnePusher, OwnSequence
  <1>13. Routed'
    <2>1. \A t \in Schedulers : running'[t] # None => SchedulerOf[running'[t][1]] = t
      <3>1. e[1] = c
        BY DEF c
      <3>2. QED
        BY <1>1, <1>2, <1>4, <1>6, <3>1 DEF IInv, Routed
    <2>2. QED
      BY <1>1, <2>1, PopRouted DEF Routed
  <1>14. Numbered'
    <2>1. CASE UNCHANGED <<packetSeq, running, header>>
      BY <1>1, <2>1 DEF IInv, Numbered, Sending
    <2>2. CASE /\ header' = [header EXCEPT ![Copy(packet, s)] = <<c, packetSeq[c]>>]
               /\ packetSeq' = [packetSeq EXCEPT ![c] = (@ + 1) % SeqLimit]
               /\ running' = [running EXCEPT ![s] = e]
      <3>1. /\ running'[s] = <<c, packet>> /\ running'[s] # None
            /\ \A t \in Schedulers \ {s} : running'[t] = running[t]
            /\ packetSeq'[c] = (packetSeq[c] + 1) % SeqLimit
            /\ \A d \in Conns \ {c} : packetSeq'[d] = packetSeq[d]
            /\ header'[Copy(packet, s)] = <<c, packetSeq[c]>>
            /\ \A t \in Schedulers \ {s} : \A q \in Packets : header'[Copy(q, t)] = header[Copy(q, t)]
        BY <1>2, <1>6, <1>8, <2>2 DEF Copy
      <3>2. ASSUME NEW d \in connected \ closed
            PROVE  IF Sending(d)'
                   THEN /\ packetSeq'[d] = (Len(handed[d]) + 1) % SeqLimit
                        /\ header'[Copy(running'[SchedulerOf[d]][2], SchedulerOf[d])]
                               = <<d, Len(handed[d]) % SeqLimit>>
                   ELSE packetSeq'[d] = Len(handed[d]) % SeqLimit
        <4>1. d \in Conns /\ SchedulerOf[d] \in Schedulers
          BY <1>6, Constants
        <4>2. CASE d = c
          <5>1. packetSeq[c] = Len(handed[c]) % SeqLimit
            BY <1>1, <1>2, <4>2 DEF IInv, Numbered, Sending
          <5>2. handed[c] \in Seq([header : Headers, packet : Packets, taken : BOOLEAN])
            BY <1>2 DEF IInv, TypeOK
          <5>3. Len(handed[c]) \in Nat
            BY <5>2
          <5>4. packetSeq'[c] = (Len(handed[c]) + 1) % SeqLimit
            BY <1>6, <3>1, <5>1, <5>3, ModSuccessor
          <5>5. Sending(d)' /\ running'[SchedulerOf[d]][2] = packet
            BY <1>2, <3>1, <4>2 DEF Sending
          <5>6. QED
            BY <1>2, <3>1, <4>2, <5>1, <5>4, <5>5
        <4>3. CASE d # c /\ SchedulerOf[d] = s
          <5>1. ~Sending(d) /\ ~Sending(d)'
            BY <1>1, <3>1, <4>3 DEF Sending
          <5>2. QED
            BY <3>1, <4>1, <4>3, <5>1 DEF IInv, Numbered
        <4>4. CASE SchedulerOf[d] # s
          <5>1. running'[SchedulerOf[d]] = running[SchedulerOf[d]] /\ d # c
            BY <1>2, <3>1, <4>1, <4>4
          <5>2. Sending(d)' = Sending(d)
            BY <5>1 DEF Sending
          <5>3. ASSUME Sending(d)
                PROVE  header'[Copy(running'[SchedulerOf[d]][2], SchedulerOf[d])]
                           = header[Copy(running[SchedulerOf[d]][2], SchedulerOf[d])]
            <6>1. running[SchedulerOf[d]] \in Sends
              BY <1>6, <4>1, <5>3 DEF Sending
            <6>2. running[SchedulerOf[d]][2] \in Packets
              BY <6>1, SendShape
            <6>3. QED
              BY <3>1, <4>1, <4>4, <5>1, <6>2
          <5>4. QED
            BY <3>1, <4>1, <5>1, <5>2, <5>3 DEF IInv, Numbered
        <4>5. QED
          BY <4>2, <4>3, <4>4
      <3>3. QED
        BY <1>1, <3>2 DEF Numbered
    <2>3. QED
      BY <1>4, <2>1, <2>2
  <1>15. QED
    BY <1>11, <1>12, <1>13, <1>14 DEF IInv

(* SendRtpOverTcp with the answer of the write buffer. *)
SendsTaken(s, taken) ==
    LET c == running[s][1]  packet == running[s][2] IN
        \/ ~Alive(c) /\ broken' = TRUE /\ UNCHANGED <<handed, running>>
        \/ /\ Alive(c) /\ UNCHANGED broken
           /\ running' = [running EXCEPT ![s] = None]
           /\ handed' = IF c \in connected \ closed
                        THEN [handed EXCEPT ![c] = Append(@,
                                [header |-> header[Copy(packet, s)], packet |-> packet,
                                 taken |-> taken])]
                        ELSE handed

(* Nothing comes between the header of a packet and its sending, so what   *)
(* is handed over is the client's own header.                              *)
LEMMA SendRtpOverTcpIInv ==
    ASSUME IInv, NEW s \in Schedulers, SendRtpOverTcp(s)
    PROVE  IInv'
  <1>a. PICK taken \in BOOLEAN : SendsTaken(s, taken)
    BY DEF SendRtpOverTcp, SendsTaken
  <1> DEFINE c == running[s][1]
             packet == running[s][2]
             Sent == [header : Headers, packet : Packets, taken : BOOLEAN]
             entry == [header |-> header[Copy(packet, s)], packet |-> packet, taken |-> taken]
  <1>1. /\ running[s] # None
        /\ UNCHANGED <<scene, present, clients_, mutex_, pushed, pc, frame, part, held, todo,
                       described, setup, play, torn, connected, closed, dropped,
                       hasKey, packetSeq, header, posted>>
    BY DEF SendRtpOverTcp, pushVars, rtspVars, connVars
  <1>2. broken' \in BOOLEAN
    BY DEF SendRtpOverTcp, IInv, TypeOK
  <1>3. /\ \/ UNCHANGED <<handed, running>>
           \/ /\ running' = [running EXCEPT ![s] = None]
              /\ handed' = IF c \in connected \ closed
                         THEN [handed EXCEPT ![c] = Append(@, entry)] ELSE handed
    BY <1>a DEF SendsTaken
  <1>4. /\ running \in [Schedulers -> Sends \cup {None}] /\ handed \in [Conns -> Seq(Sent)]
        /\ connected \subseteq Conns /\ SeqLimit \in Nat \ {0}
    BY Constants DEF IInv, TypeOK
  <1>5. running[s] \in Sends /\ c \in Conns /\ packet \in Packets /\ SchedulerOf[c] = s /\ Sending(c)
    BY <1>1, <1>4, SendShape DEF IInv, Routed, Sending
  <1>6. ASSUME NEW n \in Nat PROVE <<c, n % SeqLimit>> \in Headers
    BY <1>4, <1>5, ModSuccessor DEF Headers
  <1>7. Len(handed[c]) \in Nat /\ handed[c] \in Seq(Sent)
    <2> HIDE DEF Sent, c
    <2> QED
      BY <1>4, <1>5
  <1>8. c \in connected \ closed =>
            /\ header[Copy(packet, s)] = <<c, Len(handed[c]) % SeqLimit>>
            /\ packetSeq[c] = (Len(handed[c]) + 1) % SeqLimit
    BY <1>5 DEF IInv, Numbered
  <1>9. CASE UNCHANGED <<handed, running>>
    <2>1. TypeOK' /\ OnePusher' /\ Routed' /\ Numbered' /\ OwnSequence'
      BY <1>1, <1>2, <1>9 DEF IInv, TypeOK, OnePusher, Routed, Numbered, Sending, OwnSequence
    <2>2. QED
      BY <2>1 DEF IInv
  <1>10. CASE /\ running' = [running EXCEPT ![s] = None]
              /\ handed' = IF c \in connected \ closed
                         THEN [handed EXCEPT ![c] = Append(@, entry)] ELSE handed
    <2>1. /\ running' \in [Schedulers -> Sends \cup {None}] /\ running'[s] = None
          /\ \A t \in Schedulers \ {s} : running'[t] = running[t]
      BY <1>4, <1>10
    <2>2. \A d \in Conns : ~(d = c /\ c \in connected \ closed) => handed'[d] = handed[d]
      BY <1>4, <1>10
    <2>3. c \in connected \ closed => entry \in Sent
      BY <1>5, <1>6, <1>7, <1>8
    <2>4. c \in connected \ closed =>
              /\ handed' \in [Conns -> Seq(Sent)] /\ handed'[c] = Append(handed[c], entry)
              /\ Len(handed'[c]) = Len(handed[c]) + 1 /\ handed'[c][Len(handed[c]) + 1] = entry
              /\ \A i \in 1 .. Len(handed[c]) : handed'[c][i] = handed[c][i]
      <3> SUFFICES ASSUME c \in connected \ closed
                   PROVE  /\ handed' \in [Conns -> Seq(Sent)] /\ handed'[c] = Append(handed[c], entry)
                          /\ Len(handed'[c]) = Len(handed[c]) + 1 /\ handed'[c][Len(handed[c]) + 1] = entry
                          /\ \A i \in 1 .. Len(handed[c]) : handed'[c][i] = handed[c][i]
        OBVIOUS
      <3>1. entry \in Sent /\ handed' = [handed EXCEPT ![c] = Append(@, entry)]
        BY <1>10, <2>3
      <3> HIDE DEF entry, Sent, c
      <3>2. handed'[c] = Append(handed[c], entry) /\ Append(handed[c], entry) \in Seq(Sent)
        BY <1>4, <1>5, <1>7, <3>1
      <3>3. handed' \in [Conns -> Seq(Sent)]
        BY <1>4, <1>5, <3>1, <3>2
      <3>4. QED
        BY <1>7, <3>1, <3>2, <3>3
    <2>5. handed' \in [Conns -> Seq(Sent)]
      <3>1. c \notin connected \ closed => handed' = handed
        BY <1>10
      <3>2. QED
        BY <1>4, <2>4, <3>1
    <2>6. TypeOK'
      BY <1>1, <1>2, <2>1, <2>5 DEF IInv, TypeOK
    <2>7. OnePusher'
      BY <1>1 DEF IInv, OnePusher
    <2>8. Routed'
      BY <1>1, <2>1 DEF IInv, Routed
    <2>9. Numbered'
      <3>1. ASSUME NEW d \in connected \ closed
            PROVE  IF Sending(d)'
                   THEN /\ packetSeq[d] = (Len(handed'[d]) + 1) % SeqLimit
                        /\ header[Copy(running'[SchedulerOf[d]][2], SchedulerOf[d])]
                               = <<d, Len(handed'[d]) % SeqLimit>>
                   ELSE packetSeq[d] = Len(handed'[d]) % SeqLimit
        <4>1. d \in Conns /\ SchedulerOf[d] \in Schedulers
          BY <1>4, Constants
        <4>2. CASE d = c
          <5>1. ~Sending(d)'
            BY <1>5, <2>1, <4>2 DEF Sending
          <5>2. QED
            BY <1>8, <2>4, <4>2, <5>1
        <4>3. CASE d # c /\ SchedulerOf[d] = s
          <5>1. ~Sending(d) /\ ~Sending(d)' /\ handed'[d] = handed[d]
            BY <2>1, <2>2, <4>1, <4>3 DEF Sending
          <5>2. QED
            BY <5>1 DEF IInv, Numbered
        <4>4. CASE SchedulerOf[d] # s
          <5>1. running'[SchedulerOf[d]] = running[SchedulerOf[d]] /\ handed'[d] = handed[d]
            BY <1>5, <2>1, <2>2, <4>1, <4>4
          <5>2. Sending(d)' = Sending(d)
            BY <5>1 DEF Sending
          <5>3. QED
            BY <5>1, <5>2 DEF IInv, Numbered
        <4>5. QED
          BY <4>2, <4>3, <4>4
      <3>2. QED
        BY <1>1, <3>1 DEF Numbered
    <2>10. OwnSequence'
      <3>1. \A d \in Conns : \A i \in 1 .. Len(handed[d]) : handed[d][i].header = <<d, (i - 1) % SeqLimit>>
        BY DEF IInv, OwnSequence
      <3>2. ASSUME c \in connected \ closed, NEW i \in 1 .. Len(handed'[c])
            PROVE  handed'[c][i].header = <<c, (i - 1) % SeqLimit>>
        <4>1. CASE i \in 1 .. Len(handed[c])
          BY <1>5, <2>4, <3>1, <3>2, <4>1
        <4>2. CASE i = Len(handed[c]) + 1
          <5>1. i - 1 = Len(handed[c]) /\ handed'[c][i] = entry
            BY <1>7, <2>4, <3>2, <4>2
          <5>2. QED
            BY <1>8, <3>2, <5>1
        <4>3. QED
          <5> HIDE DEF c
          <5> QED
            BY <1>7, <2>4, <3>2, <4>1, <4>2
      <3>3. ASSUME NEW d \in Conns, NEW i \in 1 .. Len(handed'[d])
            PROVE  handed'[d][i].header = <<d, (i - 1) % SeqLimit>>
        BY <2>2, <3>1, <3>2, <3>3
      <3>4. QED
        BY <3>3 DEF OwnSequence
    <2>11. QED
      BY <2>6, <2>7, <2>8, <2>9, <2>10 DEF IInv
  <1>11. QED
    BY <1>3, <1>9, <1>10

LEMMA RemoveConnectionIInv ==
    ASSUME IInv, NEW s \in Schedulers, RemoveConnection(s)
    PROVE  IInv'
  <1>1. /\ posted[s] # <<>> /\ posted' = [posted EXCEPT ![s] = Tail(@)]
        /\ connected' \subseteq connected
        /\ UNCHANGED <<scene, present, clients_, mutex_, pushed, pc, frame, part, held, todo,
                       described, setup, play, torn, closed, dropped,
                       hasKey, packetSeq, running, header, handed, broken>>
    BY DEF RemoveConnection, pushVars, rtspVars, sendVars
  <1>2. TypeOK'
    BY <1>1, PopPosted DEF IInv, TypeOK
  <1>3. OnePusher' /\ OwnSequence'
    BY <1>1 DEF IInv, OnePusher, OwnSequence
  <1>4. Routed'
    BY <1>1, PopRouted DEF IInv, Routed
  <1>5. Numbered'
    BY <1>1 DEF IInv, Numbered, Sending
  <1>6. QED
    BY <1>2, <1>3, <1>4, <1>5 DEF IInv

(* The requests other than the closing of the connection.                  *)
LEMMA RequestIInv ==
    ASSUME IInv, NEW c \in Conns,
           \/ HandleCmdDescribe(c) \/ HandleCmdSetup(c) \/ HandleCmdPlay(c) \/ HandleCmdTeardown(c)
    PROVE  IInv'
  <1>1. UNCHANGED <<scene, mutex_, pushed, pc, frame, part, held, todo,
                    connected, closed, dropped, hasKey, packetSeq, running, header, handed, broken, posted>>
    BY DEF HandleCmdDescribe, HandleCmdSetup, HandleCmdPlay, HandleCmdTeardown,
           pushVars, connVars, sendVars
  <1>2. /\ clients_' \in {clients_, clients_ \cup {c}} /\ described' \in {described, described \cup {c}}
        /\ setup' \in {setup, setup \cup {c}} /\ play' \in {play, play \cup {c}, play \ {c}}
        /\ torn' \in {torn, torn \cup {c}}
    BY DEF HandleCmdDescribe, HandleCmdSetup, HandleCmdPlay, HandleCmdTeardown, rtspVars
  <1>4. present' = present
    BY DEF HandleCmdDescribe, HandleCmdSetup, HandleCmdPlay, HandleCmdTeardown
  <1>5. TypeOK'
    BY <1>1, <1>2, <1>4 DEF IInv, TypeOK
  <1>6. OnePusher' /\ OwnSequence' /\ Routed' /\ Numbered'
    BY <1>1 DEF IInv, OnePusher, OwnSequence, Routed, Numbered, Sending
  <1>7. QED
    BY <1>5, <1>6 DEF IInv

LEMMA HandleCloseIInv ==
    ASSUME IInv, NEW c \in Conns, HandleClose(c)
    PROVE  IInv'
  <1> DEFINE s == SchedulerOf[c]
             callback == <<"remove", c>>
             Callbacks == Sends \cup ({"remove"} \X Conns)
  <1>1. /\ closed' = closed \cup {c} /\ clients_' \subseteq clients_
        /\ posted' = [posted EXCEPT ![s] = Append(@, callback)]
        /\ UNCHANGED <<scene, present, mutex_, pushed, pc, frame, part, held, todo,
                       described, setup, play, torn, connected, dropped,
                       hasKey, packetSeq, running, header, handed, broken>>
    BY DEF HandleClose, pushVars, rtspVars, sendVars
  <1>2. s \in Schedulers /\ posted \in [Schedulers -> Seq(Callbacks)]
    BY Constants DEF IInv, TypeOK
  <1>3. callback \in Callbacks /\ callback \notin Sends
    BY Constants DEF Sends
  <1>4. /\ posted' \in [Schedulers -> Seq(Callbacks)]
        /\ \A t \in Schedulers : \A i \in 1 .. Len(posted'[t]) :
              \/ i \in 1 .. Len(posted[t]) /\ posted'[t][i] = posted[t][i]
              \/ posted'[t][i] = callback
    <2> HIDE DEF s, callback, Callbacks
    <2>1. posted[s] \in Seq(Callbacks) /\ posted'[s] = Append(posted[s], callback)
      BY <1>1, <1>2
    <2>2. /\ Append(posted[s], callback) \in Seq(Callbacks)
          /\ \A i \in 1 .. Len(Append(posted[s], callback)) :
                \/ i \in 1 .. Len(posted[s]) /\ Append(posted[s], callback)[i] = posted[s][i]
                \/ Append(posted[s], callback)[i] = callback
      BY <1>3, <2>1
    <2>3. QED
      BY <1>1, <1>2, <2>1, <2>2
  <1>5. TypeOK'
    <2>1. closed' \subseteq Conns /\ clients_' \subseteq Conns
      BY <1>1 DEF IInv, TypeOK
    <2>2. QED
      BY <1>1, <1>4, <2>1 DEF IInv, TypeOK
  <1>6. OnePusher' /\ OwnSequence'
    BY <1>1 DEF IInv, OnePusher, OwnSequence
  <1>7. Routed'
    <2> HIDE DEF callback
    <2> QED
      BY <1>1, <1>3, <1>4 DEF IInv, Routed
  <1>8. Numbered'
    BY <1>1 DEF IInv, Numbered, Sending
  <1>9. QED
    BY <1>5, <1>6, <1>7, <1>8 DEF IInv

LEMMA NextIInv == IInv /\ [Next]_vars => IInv'
  <1> SUFFICES ASSUME IInv, [Next]_vars PROVE IInv'
    OBVIOUS
  <1>1. CASE UNCHANGED vars
    <2>1. TypeOK' /\ OnePusher' /\ Routed' /\ Numbered' /\ OwnSequence'
      BY <1>1 DEF vars, pushVars, rtspVars, connVars, sendVars,
                  IInv, TypeOK, OnePusher, Routed, Numbered, Sending, OwnSequence
    <2>2. QED
      BY <2>1 DEF IInv
  <1>2. ASSUME NEW p \in Pushers, PushFrame(p) \/ Push(p)
        PROVE  IInv'
    BY <1>2, PusherIInv, SendRtpPacketIInv DEF Push
  <1>3. ASSUME NEW s \in Schedulers, Run(s)
        PROVE  IInv'
    BY <1>3, RunSendIInv, SendRtpOverTcpIInv, RemoveConnectionIInv DEF Run
  <1>4. ASSUME NEW c \in Conns, Request(c)
        PROVE  IInv'
    BY <1>4, RequestIInv, HandleCloseIInv DEF Request
  <1>5. CASE RemoveSession
    <2>1. UNCHANGED <<clients_, pushVars, rtspVars, connVars, sendVars, posted>> /\ present' \in BOOLEAN
      BY <1>5 DEF RemoveSession
    <2>2. TypeOK' /\ OnePusher' /\ Routed' /\ Numbered' /\ OwnSequence'
      BY <2>1 DEF pushVars, rtspVars, connVars, sendVars,
                  IInv, TypeOK, OnePusher, Routed, Numbered, Sending, OwnSequence
    <2>3. QED
      BY <2>2 DEF IInv
  <1>6. QED
    BY <1>1, <1>2, <1>3, <1>4, <1>5 DEF Next

LEMMA AlwaysIInv == Spec => []IInv
  BY InitIInv, NextIInv, PTL DEF Spec

(* The variables have their types, and what is posted, numbered or sent    *)
(* has the right shape.                                                    *)
THEOREM TypeCorrect == Spec => []TypeOK
  BY AlwaysIInv, PTL DEF IInv

(* What a client's connection is handed carries the client's own headers   *)
(* with consecutive sequence numbers, also when its write buffer drops it, *)
(* however its schedulers and the pushing threads interleave: a copy of a  *)
(* packet is written by one scheduler only, which sends it before it       *)
(* writes the next header into it.                                         *)
THEOREM OwnNumbers == Spec => []OwnSequence
  BY AlwaysIInv, PTL DEF IInv

-----------------------------------------------------------------------------
(* The packets of all frames in the order they are pushed.                 *)
Before(q, r) == q[1] < r[1] \/ (q[1] = r[1] /\ q[2] < r[2])

(* The next packet that is posted for c, if c is a client.                 *)
Coming(c) ==
    IF mutex_ = None THEN <<pushed + 1, 1>>
    ELSE LET p == mutex_[1] IN
         IF c \in todo[p] \/ pc[p] = "collect"
         THEN <<pushed, part[p]>> ELSE Successor(<<pushed, part[p]>>)

Passed(c, q) == Before(q, Coming(c))

(* The packet is posted for c.                                             *)
Queued(c, q) ==
    \E i \in 1 .. Len(posted[SchedulerOf[c]]) : posted[SchedulerOf[c]][i] = <<c, q>>

(* The packet after q is posted for c, or is the next to be.               *)
Followed(c, q) == Queued(c, Successor(q)) \/ Coming(c) = Successor(q)

(* The packet that c was sent last or is being sent.                       *)
Started(c) == Sending(c) \/ handed[c] # <<>>
LastHanded(c) == handed[c][Len(handed[c])].packet
Latest(c) == IF Sending(c) THEN running[SchedulerOf[c]][2] ELSE LastHanded(c)

(* The open connections of which the property speaks.                      *)
Streaming == (connected \ closed) \ (torn \cup dropped)

(* A connection that a packet is meant for is a client: no later packet    *)
(* leaves it out.                                                          *)
Listed(c) ==
    Started(c) \/ (\E q \in Packets : Queued(c, q)) \/ (\E p \in Pushers : c \in todo[p])
        => c \in clients_

QueueOrdered(c) ==
    LET queue == posted[SchedulerOf[c]] IN
    \A i, j \in 1 .. Len(queue) : \A q, r \in Packets :
        i < j /\ queue[i] = <<c, q>> /\ queue[j] = <<c, r>> => Before(q, r)

QueueComplete(c) ==
    \A q \in Packets : Queued(c, q) => Passed(c, q) /\ Followed(c, q)

LatestJoins(c) ==
    \A q \in Packets : Started(c) /\ Latest(c) = q =>
        /\ c \in play \cap hasKey
        /\ Passed(c, q) /\ Followed(c, q)
        /\ \A r \in Packets : Queued(c, r) => Before(q, r)

RunningJoins(c) ==
    \A q \in Packets : Sending(c) /\ handed[c] # <<>> /\ LastHanded(c) = q =>
        running[SchedulerOf[c]][2] = Successor(q)

(* What c has been sent, is being sent, has posted and has coming follow   *)
(* each other without a gap.                                               *)
Whole(c) ==
    Listed(c) /\ QueueOrdered(c) /\ QueueComplete(c) /\ LatestJoins(c) /\ RunningJoins(c)

Stream == NoGap /\ \A c \in Streaming : Whole(c)

(* The order of the packets, and that nothing is between a packet and the  *)
(* one after it.                                                           *)
LEMMA SuccessorNext ==
    ASSUME NEW q \in Packets
    PROVE  /\ Successor(q) \in Nat \X Nat /\ Before(q, Successor(q)) /\ Successor(q) # q
           /\ \A r \in Packets : Before(r, q) => Before(r, Successor(q)) /\ r # q
           /\ \A r \in Packets : Before(q, r) => r = Successor(q) \/ Before(Successor(q), r)
           /\ \A r \in Packets : ~(Before(q, r) /\ Before(r, q))
           /\ ~Before(q, q)
  <1>1. /\ q = <<q[1], q[2]>> /\ q[1] \in Nat /\ q[2] \in Nat /\ q[2] >= 1
        /\ Frames[q[1]].packets \in Nat /\ q[2] <= Frames[q[1]].packets
    BY PacketShape
  <1>2. PICK f \in Nat, k \in Nat, n \in Nat :
            q = <<f, k>> /\ q[1] = f /\ q[2] = k /\ Frames[f].packets = n /\ 1 <= k /\ k <= n
    BY <1>1
  <1>3. ASSUME NEW r \in Packets
        PROVE  \E g \in Nat, l \in Nat :
                   r = <<g, l>> /\ r[1] = g /\ r[2] = l /\ 1 <= l /\ (g = f => l <= n)
    <2>1. /\ r = <<r[1], r[2]>> /\ r[1] \in Nat /\ r[2] \in Nat /\ r[2] >= 1
          /\ r[2] <= Frames[r[1]].packets
      BY PacketShape
    <2>2. QED
      BY <1>2, <2>1
  <1>4. CASE k < n
    <2>1. Successor(q) = <<f, k + 1>>
      BY <1>2, <1>4 DEF Successor
    <2>2. ASSUME NEW r \in Packets
          PROVE  /\ Before(r, q) => Before(r, Successor(q)) /\ r # q
                 /\ Before(q, r) => r = Successor(q) \/ Before(Successor(q), r)
                 /\ ~(Before(q, r) /\ Before(r, q))
      <3>1. PICK g \in Nat, l \in Nat :
                r = <<g, l>> /\ r[1] = g /\ r[2] = l /\ 1 <= l /\ (g = f => l <= n)
        BY <1>3
      <3>2. QED
        BY <1>2, <1>4, <2>1, <3>1 DEF Before
    <2>3. QED
      BY <1>2, <1>4, <2>1, <2>2 DEF Before
  <1>5. CASE ~(k < n)
    <2>1. Successor(q) = <<f + 1, 1>>
      BY <1>2, <1>5 DEF Successor
    <2>2. ASSUME NEW r \in Packets
          PROVE  /\ Before(r, q) => Before(r, Successor(q)) /\ r # q
                 /\ Before(q, r) => r = Successor(q) \/ Before(Successor(q), r)
                 /\ ~(Before(q, r) /\ Before(r, q))
      <3>1. PICK g \in Nat, l \in Nat :
                r = <<g, l>> /\ r[1] = g /\ r[2] = l /\ 1 <= l /\ (g = f => l <= n)
        BY <1>3
      <3>2. QED
        BY <1>2, <1>5, <2>1, <3>1 DEF Before
    <2>3. QED
      BY <1>2, <1>5, <2>1, <2>2 DEF Before
  <1>6. QED
    BY <1>4, <1>5

(* What is posted for a connection is a packet.                            *)
LEMMA QueuedPacket ==
    ASSUME IInv, NEW c \in Conns, NEW q, Queued(c, q)
    PROVE  q \in Packets
  <1>1. PICK i \in 1 .. Len(posted[SchedulerOf[c]]) : posted[SchedulerOf[c]][i] = <<c, q>>
    BY DEF Queued
  <1> DEFINE Callbacks == Sends \cup ({"remove"} \X Conns)
  <1>2. posted[SchedulerOf[c]] \in Seq(Callbacks)
    BY Constants DEF IInv, TypeOK
  <1>3. <<c, q>> \in Callbacks
    <2> HIDE DEF Callbacks
    <2> QED
      BY <1>1, <1>2
  <1>4. <<c, q>> \in Sends
    BY <1>3, Constants
  <1>5. QED
    BY <1>4, SendShape

(* A step that takes nothing of a connection from its queue but the front, *)
(* and adds nothing for it, keeps the order.                               *)
LEMMA QueueShift ==
    ASSUME IInv, NEW c \in Conns, QueueOrdered(c), NEW k \in {0, 1},
           Len(posted[SchedulerOf[c]]) \in Nat, Len(posted'[SchedulerOf[c]]) \in Nat,
           \A i \in 1 .. Len(posted'[SchedulerOf[c]]) : \A q \in Packets :
               posted'[SchedulerOf[c]][i] = <<c, q>> =>
                   i + k \in 1 .. Len(posted[SchedulerOf[c]]) /\ posted[SchedulerOf[c]][i + k] = <<c, q>>
    PROVE  /\ QueueOrdered(c)'
           /\ \A q \in Packets : Queued(c, q)' => Queued(c, q)
  <1>1. QueueOrdered(c)'
    <2>1. SUFFICES ASSUME NEW i \in 1 .. Len(posted'[SchedulerOf[c]]),
                          NEW j \in 1 .. Len(posted'[SchedulerOf[c]]),
                          NEW q \in Packets, NEW r \in Packets, i < j,
                          posted'[SchedulerOf[c]][i] = <<c, q>>, posted'[SchedulerOf[c]][j] = <<c, r>>
                   PROVE  Before(q, r)
      BY DEF QueueOrdered
    <2>2. /\ i + k \in 1 .. Len(posted[SchedulerOf[c]]) /\ posted[SchedulerOf[c]][i + k] = <<c, q>>
          /\ j + k \in 1 .. Len(posted[SchedulerOf[c]]) /\ posted[SchedulerOf[c]][j + k] = <<c, r>>
      BY <2>1
    <2>3. i + k < j + k
      BY <2>1
    <2>4. QED
      BY <2>2, <2>3 DEF QueueOrdered
  <1>2. QED
    BY <1>1 DEF Queued

(* A step that changes nothing for a connection keeps it whole.            *)
LEMMA WholeKept ==
    ASSUME IInv, NEW c \in Conns, Whole(c), Coming(c)' = Coming(c),
           QueueOrdered(c)', \A q \in Packets : Queued(c, q)' => Queued(c, q),
           \A q : Queued(c, q) => Queued(c, q)',
           handed'[c] = handed[c], Sending(c)' <=> Sending(c),
           Sending(c) => running'[SchedulerOf[c]] = running[SchedulerOf[c]],
           c \in clients_ => c \in clients_', c \in play \cap hasKey => c \in play' \cap hasKey',
           \A p \in Pushers : c \in todo'[p] => c \in todo[p] \/ c \in clients_'
    PROVE  Whole(c)'
  <1>1. /\ Listed(c) /\ QueueComplete(c) /\ LatestJoins(c) /\ RunningJoins(c)
    BY DEF Whole
  <1>2. ASSUME NEW q
        PROVE  (Passed(c, q)' <=> Passed(c, q)) /\ (Followed(c, q) => Followed(c, q)')
    BY DEF Passed, Followed, Before, Successor
  <1>3. /\ Started(c)' <=> Started(c)
        /\ LastHanded(c)' = LastHanded(c)
        /\ Started(c) => Latest(c)' = Latest(c)
    BY DEF Started, LastHanded, Latest
  <1>4. Listed(c)'
    BY <1>1, <1>3 DEF Listed
  <1>5. QueueComplete(c)'
    BY <1>1, <1>2 DEF QueueComplete
  <1>6. LatestJoins(c)'
    BY <1>1, <1>2, <1>3 DEF LatestJoins
  <1>7. RunningJoins(c)'
    BY <1>1, <1>3 DEF RunningJoins
  <1>8. QED
    BY <1>4, <1>5, <1>6, <1>7 DEF Whole

(* A connection no packet is meant for is whole.                           *)
LEMMA IdleIsWhole ==
    ASSUME NEW c \in Conns, ~Started(c)', \A q \in Packets : ~Queued(c, q)',
           \A p \in Pushers : c \notin todo'[p]
    PROVE  Whole(c)'
  <1>1. Listed(c)' /\ QueueComplete(c)' /\ LatestJoins(c)'
    BY DEF Listed, QueueComplete, LatestJoins
  <1>2. RunningJoins(c)' /\ QueueOrdered(c)'
    BY DEF RunningJoins, QueueOrdered, Started, Queued
  <1>3. QED
    BY <1>1, <1>2 DEF Whole

(* The steps of the pushing thread other than the posting of a packet move *)
(* the thread, and not the packet that comes next.                         *)
LEMMA ComingKept ==
    ASSUME IInv, NEW p \in Pushers, NEW c \in Conns,
           \/ PushFrame(p) \/ HandleFrame(p) \/ PacketDone(p)
           \/ (CollectClients(p) /\ c \in clients_ \cap connected)
    PROVE  Coming(c)' = Coming(c)
  <1>1. /\ mutex_ \in {None} \cup {<<r>> : r \in Pushers} /\ OnePusher
        /\ pc \in [Pushers -> {"idle", "lock", "collect", "send"}]
        /\ frame \in [Pushers -> Nat] /\ part \in [Pushers -> Nat]
        /\ todo \in [Pushers -> SUBSET Conns]
    BY DEF IInv, TypeOK
  <1>2. \A r \in Pushers : <<r>> # None /\ <<r>>[1] = r
    BY DEF None
  <1>3. CASE PushFrame(p)
    <2>1. pc[p] = "idle" /\ pc' = [pc EXCEPT ![p] = "lock"] /\ UNCHANGED <<mutex_, pushed, part, todo>>
      BY <1>3 DEF PushFrame
    <2>2. CASE mutex_ = None
      BY <2>1, <2>2 DEF Coming
    <2>3. ASSUME NEW r \in Pushers, mutex_ = <<r>> PROVE Coming(c)' = Coming(c)
      <3>1. pc[r] \in {"collect", "send"}
        BY <1>1, <2>3 DEF OnePusher
      <3>2. pc'[r] = pc[r]
        BY <1>1, <2>1, <3>1
      <3>3. QED
        BY <1>2, <2>1, <2>3, <3>2 DEF Coming, Successor
    <2>4. QED
      BY <1>1, <2>2, <2>3
  <1>4. CASE HandleFrame(p)
    <2>1. /\ mutex_ = None /\ mutex_' = <<p>> /\ pushed' = pushed + 1 /\ pc'[p] = "collect" /\ part'[p] = 1
      BY <1>1, <1>4 DEF HandleFrame
    <2>2. QED
      BY <1>2, <2>1 DEF Coming
  <1>5. CASE CollectClients(p) /\ c \in clients_ \cap connected
    <2>1. /\ pc[p] = "collect" /\ UNCHANGED <<mutex_, pushed, part>> /\ mutex_ = <<p>> /\ c \in todo'[p]
      BY <1>1, <1>5 DEF CollectClients, OnePusher
    <2>2. QED
      BY <1>2, <2>1 DEF Coming
  <1>6. CASE PacketDone(p)
    <2>1. pc[p] = "send" /\ todo[p] = {} /\ UNCHANGED <<pushed, todo>> /\ mutex_ = <<p>> /\ frame[p] = pushed
      BY <1>1, <1>6 DEF PacketDone, OnePusher
    <2>2. Coming(c) = IF part[p] < Frames[pushed].packets
                      THEN <<pushed, part[p] + 1>> ELSE <<pushed + 1, 1>>
      BY <1>2, <2>1 DEF Coming, Successor
    <2>3. CASE part[p] < Frames[frame[p]].packets
      <3>1. pc'[p] = "collect" /\ part'[p] = part[p] + 1 /\ mutex_' = <<p>>
        BY <1>1, <1>6, <2>1, <2>3 DEF PacketDone
      <3>2. QED
        BY <1>2, <2>1, <2>2, <2>3, <3>1 DEF Coming
    <2>4. CASE ~(part[p] < Frames[frame[p]].packets)
      <3>1. mutex_' = None
        BY <1>6, <2>4 DEF PacketDone
      <3>2. QED
        BY <2>1, <2>2, <2>4, <3>1 DEF Coming
    <2>5. QED
      BY <2>3, <2>4
  <1>7. QED
    BY <1>3, <1>4, <1>5, <1>6

LEMMA PusherWhole ==
    ASSUME IInv, NEW p \in Pushers, NEW c \in Conns, c \in Streaming, Whole(c),
           PushFrame(p) \/ HandleFrame(p) \/ CollectClients(p) \/ PacketDone(p)
    PROVE  Whole(c)'
  <1>1. UNCHANGED <<play, hasKey, running, handed, posted>>
    BY PusherTypeOK DEF rtspVars, sendVars
  <1>2. /\ QueueOrdered(c)' /\ (Sending(c)' <=> Sending(c)) /\ (Started(c)' <=> Started(c))
        /\ \A q : Queued(c, q)' <=> Queued(c, q)
    BY <1>1 DEF Whole, QueueOrdered, Sending, Started, Queued
  <1>3. CASE ~CollectClients(p)
    <2>1. UNCHANGED <<clients_, todo>>
      BY <1>3 DEF PushFrame, HandleFrame, PacketDone
    <2>2. QED
      BY <1>1, <1>2, <1>3, <2>1, ComingKept, WholeKept
  <1>4. CASE CollectClients(p)
    <2>1. /\ clients_' = {d \in clients_ : Alive(d)} /\ c \in connected
          /\ \A r \in Pushers : todo'[r] = IF r = p THEN clients_ \cap connected ELSE todo[r]
      BY <1>4 DEF CollectClients, IInv, TypeOK, Streaming
    <2>2. CASE c \in clients_
      <3>1. c \in clients_' /\ Coming(c)' = Coming(c)
        BY <1>4, <2>1, <2>2, ComingKept DEF Alive
      <3>2. QED
        BY <1>1, <1>2, <3>1, WholeKept
    <2>3. CASE c \notin clients_
      <3>1. ~Started(c) /\ (\A q \in Packets : ~Queued(c, q)) /\ \A r \in Pushers : c \notin todo[r]
        BY <2>3 DEF Whole, Listed
      <3>2. \A r \in Pushers : c \notin todo'[r]
        BY <2>1, <2>3, <3>1
      <3>3. QED
        BY <1>2, <3>1, <3>2, IdleIsWhole
    <2>4. QED
      BY <2>2, <2>3
  <1>5. QED
    BY <1>3, <1>4

(* Posting a callback, and taking one, for another connection.             *)
LEMMA AppendQueue ==
    ASSUME IInv, NEW t \in Schedulers, NEW e \in Sends \cup ({"remove"} \X Conns),
           posted' = [posted EXCEPT ![t] = Append(@, e)]
    PROVE  /\ Len(posted[t]) \in Nat /\ Len(posted'[t]) = Len(posted[t]) + 1
           /\ posted'[t][Len(posted[t]) + 1] = e
           /\ \A i \in 1 .. Len(posted[t]) : i \in 1 .. Len(posted'[t]) /\ posted'[t][i] = posted[t][i]
           /\ \A u \in Schedulers \ {t} : posted'[u] = posted[u]
  <1> DEFINE Callbacks == Sends \cup ({"remove"} \X Conns)
  <1>1. posted \in [Schedulers -> Seq(Callbacks)] /\ e \in Callbacks
    BY DEF IInv, TypeOK
  <1> HIDE DEF Callbacks
  <1>2. posted[t] \in Seq(Callbacks) /\ posted'[t] = Append(posted[t], e)
    BY <1>1
  <1>3. \A u \in Schedulers \ {t} : posted'[u] = posted[u]
    BY <1>1
  <1>4. QED
    BY <1>1, <1>2, <1>3

LEMMA QueueLength ==
    ASSUME IInv, NEW t \in Schedulers
    PROVE  Len(posted[t]) \in Nat
  <1> DEFINE Callbacks == Sends \cup ({"remove"} \X Conns)
  <1>1. posted[t] \in Seq(Callbacks)
    BY DEF IInv, TypeOK
  <1> HIDE DEF Callbacks
  <1>2. QED
    BY <1>1

(* A queue that stays the same is as it was.                               *)
LEMMA SameQueue ==
    ASSUME NEW c, QueueOrdered(c), posted'[SchedulerOf[c]] = posted[SchedulerOf[c]]
    PROVE  QueueOrdered(c)' /\ \A q : Queued(c, q)' <=> Queued(c, q)
  <1>1. PICK queue : queue = posted[SchedulerOf[c]]
    OBVIOUS
  <1>2. \A i, j \in 1 .. Len(queue) : \A q, r \in Packets :
           i < j /\ queue[i] = <<c, q>> /\ queue[j] = <<c, r>> => Before(q, r)
    BY <1>1 DEF QueueOrdered
  <1>3. posted'[SchedulerOf[c]] = queue
    BY <1>1
  <1>4. QueueOrdered(c)'
    BY <1>2, <1>3 DEF QueueOrdered
  <1>5. \A q : Queued(c, q)' <=> Queued(c, q)
    BY DEF Queued
  <1>6. QED
    BY <1>4, <1>5

LEMMA AppendKept ==
    ASSUME IInv, NEW c \in Conns, QueueOrdered(c),
           NEW t \in Schedulers, NEW e \in Sends \cup ({"remove"} \X Conns), e[1] # c,
           posted' = [posted EXCEPT ![t] = Append(@, e)]
    PROVE  /\ QueueOrdered(c)' /\ \A q \in Packets : Queued(c, q)' => Queued(c, q)
           /\ \A q : Queued(c, q) => Queued(c, q)'
  <1>1. SchedulerOf[c] \in Schedulers
    BY Constants
  <1>2. CASE SchedulerOf[c] # t
    <2>1. posted'[SchedulerOf[c]] = posted[SchedulerOf[c]]
      BY <1>1, <1>2, AppendQueue
    <2>2. QED
      BY <2>1, SameQueue
  <1>3. CASE SchedulerOf[c] = t
    <2>1. /\ Len(posted[t]) \in Nat /\ Len(posted'[t]) = Len(posted[t]) + 1
          /\ posted'[t][Len(posted[t]) + 1] = e
          /\ \A i \in 1 .. Len(posted[t]) : i \in 1 .. Len(posted'[t]) /\ posted'[t][i] = posted[t][i]
      BY AppendQueue
    <2>2. ASSUME NEW i \in 1 .. Len(posted'[t]), NEW q \in Packets, posted'[t][i] = <<c, q>>
          PROVE  i + 0 \in 1 .. Len(posted[t]) /\ posted[t][i + 0] = <<c, q>>
      <3>1. i \in 1 .. Len(posted[t]) \/ i = Len(posted[t]) + 1
        BY <2>1
      <3>2. posted'[t][i][1] = c
        BY <2>2
      <3>3. i \in 1 .. Len(posted[t]) /\ i + 0 = i
        BY <2>1, <3>1, <3>2
      <3>4. QED
        BY <2>1, <2>2, <3>3
    <2>3. QueueOrdered(c)' /\ \A q \in Packets : Queued(c, q)' => Queued(c, q)
      <3>1. Len(posted'[t]) \in Nat /\ 0 \in {0, 1}
        BY <2>1
      <3>2. \A i \in 1 .. Len(posted'[SchedulerOf[c]]) : \A q \in Packets :
                posted'[SchedulerOf[c]][i] = <<c, q>> =>
                    /\ i + 0 \in 1 .. Len(posted[SchedulerOf[c]])
                    /\ posted[SchedulerOf[c]][i + 0] = <<c, q>>
        BY <1>3, <2>2
      <3>3. Len(posted[SchedulerOf[c]]) \in Nat /\ Len(posted'[SchedulerOf[c]]) \in Nat
        BY <1>3, <2>1, <3>1
      <3>4. QED
        BY <3>1, <3>2, <3>3, QueueShift
    <2>4. \A q : Queued(c, q) => Queued(c, q)'
      BY <1>3, <2>1 DEF Queued
    <2>5. QED
      BY <2>3, <2>4
  <1>4. QED
    BY <1>2, <1>3

LEMMA PopKept ==
    ASSUME IInv, NEW c \in Conns, QueueOrdered(c), NEW t \in Schedulers, posted[t] # <<>>,
           posted' = [posted EXCEPT ![t] = Tail(@)]
    PROVE  /\ QueueOrdered(c)' /\ \A q \in Packets : Queued(c, q)' => Queued(c, q)
           /\ \A q : Queued(c, q) /\ posted[t][1] # <<c, q>> => Queued(c, q)'
  <1>1. SchedulerOf[c] \in Schedulers
    BY Constants
  <1>2. CASE SchedulerOf[c] # t
    <2>1. posted'[SchedulerOf[c]] = posted[SchedulerOf[c]]
      BY <1>1, <1>2, PopPosted
    <2>2. QED
      BY <2>1, SameQueue
  <1>3. CASE SchedulerOf[c] = t
    <2>1. /\ Len(posted[t]) \in Nat \ {0} /\ Len(posted'[t]) = Len(posted[t]) - 1
          /\ \A i \in 1 .. Len(posted'[t]) :
                i + 1 \in 1 .. Len(posted[t]) /\ posted'[t][i] = posted[t][i + 1]
      BY PopPosted
    <2>2. QueueOrdered(c)' /\ \A q \in Packets : Queued(c, q)' => Queued(c, q)
      <3>1. Len(posted[t]) \in Nat /\ Len(posted'[t]) \in Nat
        BY <2>1
      <3>2. QED
        BY <1>3, <2>1, <3>1, QueueShift
    <2>3. ASSUME NEW q, NEW i \in 1 .. Len(posted[t]), posted[t][i] = <<c, q>>, posted[t][1] # <<c, q>>
          PROVE  \E j \in 1 .. Len(posted'[t]) : posted'[t][j] = <<c, q>>
      <3>1. i # 1 /\ i \in Nat
        BY <2>3
      <3>2. i - 1 \in 1 .. Len(posted'[t]) /\ (i - 1) + 1 = i
        BY <2>1, <3>1
      <3>3. QED
        BY <2>1, <2>3, <3>2
    <2>4. QED
      BY <1>3, <2>2, <2>3 DEF Queued
  <1>4. QED
    BY <1>2, <1>3

(* Posting the packet that comes next moves on to the packet after it.     *)
LEMMA SendRtpPacketWhole ==
    ASSUME IInv, NEW p \in Pushers, NEW d \in Conns, SendRtpPacket(p, d),
           NEW c \in Conns, c \in Streaming, c \in Streaming', Whole(c)
    PROVE  Whole(c)'
  <1>1. /\ pc[p] = "send" /\ d \in todo[p] /\ todo' = [todo EXCEPT ![p] = @ \ {d}]
        /\ UNCHANGED <<clients_, mutex_, pushed, pc, frame, part, play, hasKey, running, handed>>
    BY DEF SendRtpPacket, rtspVars, sendVars
  <1>2. /\ mutex_ = <<p>> /\ frame[p] = pushed /\ <<frame[p], part[p]>> \in Packets
        /\ todo \in [Pushers -> SUBSET Conns]
    BY <1>1 DEF IInv, TypeOK, OnePusher
  <1>3. /\ todo'[p] = todo[p] \ {d} /\ \A r \in Pushers \ {p} : todo'[r] = todo[r]
    BY <1>1, <1>2
  <1>4. <<p>> # None /\ <<p>>[1] = p
    BY DEF None
  <1>5. (Sending(c)' <=> Sending(c)) /\ (Started(c)' <=> Started(c)) /\ Latest(c)' = Latest(c)
        /\ LastHanded(c)' = LastHanded(c)
    BY <1>1 DEF Sending, Started, Latest, LastHanded
  <1>6. PICK last \in Packets : last = <<frame[p], part[p]>>
    BY <1>2
  <1>7. <<d, last>> \in Sends
    BY <1>6 DEF Sends
  <1>8. SchedulerOf[c] \in Schedulers /\ SchedulerOf[d] \in Schedulers
    BY Constants
  <1>9. CASE c # d
    <2>1. Coming(c)' = Coming(c)
      BY <1>1, <1>2, <1>3, <1>4, <1>9 DEF Coming, Successor
    <2>2. posted' = posted \/ posted' = [posted EXCEPT ![SchedulerOf[d]] = Append(@, <<d, last>>)]
      BY <1>6 DEF SendRtpPacket
    <2>3. /\ QueueOrdered(c)' /\ \A q \in Packets : Queued(c, q)' => Queued(c, q)
          /\ \A q : Queued(c, q) => Queued(c, q)'
      <3>1. CASE posted' = posted
        BY <3>1 DEF Whole, QueueOrdered, Queued
      <3>2. CASE posted' = [posted EXCEPT ![SchedulerOf[d]] = Append(@, <<d, last>>)]
        <4>1. <<d, last>>[1] # c
          BY <1>9
        <4>2. QueueOrdered(c)
          BY DEF Whole
        <4>3. QED
          BY <1>7, <1>8, <3>2, <4>1, <4>2, AppendKept
      <3>3. QED
        BY <2>2, <3>1, <3>2
    <2>4. QED
      BY <1>1, <1>3, <1>5, <2>1, <2>3, WholeKept
  <1>10. CASE c = d
    <2>1. posted' = [posted EXCEPT ![SchedulerOf[c]] = Append(@, <<c, last>>)]
      BY <1>6, <1>10 DEF SendRtpPacket, Streaming
    <2>2. Coming(c) = last /\ Coming(c)' = Successor(last)
      BY <1>1, <1>2, <1>3, <1>4, <1>6, <1>10 DEF Coming
    <2>3. /\ Listed(c) /\ QueueOrdered(c) /\ QueueComplete(c) /\ LatestJoins(c) /\ RunningJoins(c)
      BY DEF Whole
    <2>4. \A q \in Packets : Passed(c, q) => Before(q, last) /\ Passed(c, q)'
      BY <2>2, SuccessorNext DEF Passed
    <2>5. Passed(c, last)' /\ Followed(c, last)'
      BY <2>2, SuccessorNext DEF Passed, Followed
    <2>6. PICK n \in Nat : n = Len(posted[SchedulerOf[c]])
      BY <1>8, QueueLength
    <2>7. /\ Len(posted'[SchedulerOf[c]]) = n + 1 /\ posted'[SchedulerOf[c]][n + 1] = <<c, last>>
          /\ \A i \in 1 .. n : posted'[SchedulerOf[c]][i] = posted[SchedulerOf[c]][i]
      <3>1. <<c, last>> \in Sends \cup ({"remove"} \X Conns)
        BY <1>7, <1>10
      <3>2. /\ Len(posted'[SchedulerOf[c]]) = Len(posted[SchedulerOf[c]]) + 1
            /\ posted'[SchedulerOf[c]][Len(posted[SchedulerOf[c]]) + 1] = <<c, last>>
            /\ \A i \in 1 .. Len(posted[SchedulerOf[c]]) :
                  posted'[SchedulerOf[c]][i] = posted[SchedulerOf[c]][i]
        BY <1>8, <2>1, <3>1, AppendQueue
      <3>3. QED
        BY <2>6, <3>2
    <2>8. \A i \in 1 .. n + 1 : i \in 1 .. n \/ i = n + 1
      OBVIOUS
    <2>9. \A i \in 1 .. n : i \in 1 .. n + 1
      OBVIOUS
    <2>10. \A q : Queued(c, q)' <=> Queued(c, q) \/ q = last
      <3>1. ASSUME NEW q, Queued(c, q)' PROVE Queued(c, q) \/ q = last
        BY <2>6, <2>7, <2>8, <3>1, SMTT(30) DEF Queued
      <3>2. ASSUME NEW q, Queued(c, q) PROVE Queued(c, q)'
        BY <2>6, <2>7, <2>9, <3>2 DEF Queued
      <3>3. Queued(c, last)'
        <4>1. n + 1 \in 1 .. n + 1
          OBVIOUS
        <4>2. QED
          BY <2>7, <4>1 DEF Queued
      <3>4. QED
        BY <3>1, <3>2, <3>3
    <2>11. \A q \in Packets : Followed(c, q) => Followed(c, q)'
      BY <2>2, <2>10 DEF Followed
    <2>12. Listed(c)'
      BY <1>1, <1>10, <2>3 DEF Listed
    <2>13. QueueOrdered(c)'
      <3>1. SUFFICES ASSUME NEW i \in 1 .. n + 1, NEW j \in 1 .. n + 1,
                            NEW q \in Packets, NEW r \in Packets, i < j,
                            posted'[SchedulerOf[c]][i] = <<c, q>>, posted'[SchedulerOf[c]][j] = <<c, r>>
                     PROVE  Before(q, r)
        BY <2>7 DEF QueueOrdered
      <3>2. i \in 1 .. n
        BY <3>1
      <3>3. posted[SchedulerOf[c]][i] = <<c, q>>
        BY <2>7, <3>1, <3>2
      <3>4. CASE j \in 1 .. n
        BY <2>3, <2>6, <2>7, <3>1, <3>2, <3>3, <3>4 DEF QueueOrdered
      <3>5. CASE j = n + 1
        <4>1. r = last
          BY <2>7, <3>1, <3>5
        <4>2. Queued(c, q)
          BY <2>6, <3>2, <3>3 DEF Queued
        <4>3. QED
          BY <2>3, <2>4, <4>1, <4>2 DEF QueueComplete
      <3>6. QED
        BY <2>8, <3>4, <3>5
    <2>14. QueueComplete(c)'
      BY <2>3, <2>4, <2>5, <2>10, <2>11 DEF QueueComplete
    <2>15. LatestJoins(c)'
      BY <1>1, <1>5, <2>3, <2>4, <2>10, <2>11 DEF LatestJoins
    <2>16. RunningJoins(c)'
      BY <1>1, <1>5, <2>3 DEF RunningJoins
    <2>17. QED
      BY <2>12, <2>13, <2>14, <2>15, <2>16 DEF Whole
  <1>11. QED
    BY <1>9, <1>10

(* The packet a scheduler takes for a client follows the one the client    *)
(* had before, because none in between is posted or still to come.         *)
LEMMA HeadFollows ==
    ASSUME IInv, NEW c \in Conns, Whole(c), NEW packet \in Packets,
           posted[SchedulerOf[c]] # <<>>, posted[SchedulerOf[c]][1] = <<c, packet>>
    PROVE  /\ Queued(c, packet) /\ Passed(c, packet) /\ Followed(c, packet) /\ c \in clients_
           /\ \A q \in Packets : Queued(c, q) => q = packet \/ Before(packet, q)
           /\ \A q \in Packets : Started(c) /\ Latest(c) = q => packet = Successor(q)
  <1>1. /\ Listed(c) /\ QueueOrdered(c) /\ QueueComplete(c) /\ LatestJoins(c)
    BY DEF Whole
  <1>2. 1 \in 1 .. Len(posted[SchedulerOf[c]]) /\ Len(posted[SchedulerOf[c]]) \in Nat
    <2> DEFINE Callbacks == Sends \cup ({"remove"} \X Conns)
    <2>1. posted[SchedulerOf[c]] \in Seq(Callbacks)
      BY Constants DEF IInv, TypeOK
    <2> HIDE DEF Callbacks
    <2>2. QED
      BY <2>1
  <1>3. Queued(c, packet)
    BY <1>2 DEF Queued
  <1>4. Passed(c, packet) /\ Followed(c, packet) /\ c \in clients_
    BY <1>1, <1>3 DEF QueueComplete, Listed
  <1>5. ASSUME NEW q \in Packets, Queued(c, q)
        PROVE  q = packet \/ Before(packet, q)
    <2>1. PICK i \in 1 .. Len(posted[SchedulerOf[c]]) : posted[SchedulerOf[c]][i] = <<c, q>>
      BY <1>5 DEF Queued
    <2>2. CASE i = 1
      BY <2>1, <2>2
    <2>3. CASE i # 1
      <3>1. 1 < i
        BY <1>2, <2>3
      <3>2. QED
        BY <1>1, <1>2, <2>1, <3>1 DEF QueueOrdered
    <2>4. QED
      BY <2>2, <2>3
  <1>6. ASSUME NEW q \in Packets, Started(c), Latest(c) = q
        PROVE  packet = Successor(q)
    <2>1. Before(q, packet) /\ Followed(c, q)
      BY <1>1, <1>3, <1>6 DEF LatestJoins
    <2>2. packet = Successor(q) \/ Before(Successor(q), packet)
      BY <2>1, SuccessorNext
    <2>3. CASE Queued(c, Successor(q))
      <3>1. Successor(q) \in Packets
        BY <2>3, QueuedPacket
      <3>2. Successor(q) = packet \/ Before(packet, Successor(q))
        BY <1>5, <2>3, <3>1
      <3>3. QED
        BY <2>2, <3>1, <3>2, SuccessorNext
    <2>4. CASE Coming(c) = Successor(q)
      <3>1. Before(packet, Successor(q))
        BY <1>4, <2>4 DEF Passed
      <3>2. Successor(q) \in Nat \X Nat /\ packet[1] \in Nat /\ packet[2] \in Nat
        BY SuccessorNext, PacketShape
      <3>3. ~Before(Successor(q), packet)
        BY <3>1, <3>2 DEF Before
      <3>4. QED
        BY <2>2, <3>3
    <2>5. QED
      BY <2>1, <2>3, <2>4 DEF Followed
  <1>7. QED
    BY <1>3, <1>4, <1>5, <1>6

LEMMA LatestPacket ==
    ASSUME IInv, NEW c \in Conns
    PROVE  /\ handed[c] # <<>> => LastHanded(c) \in Packets
           /\ Sending(c) => running[SchedulerOf[c]][2] \in Packets
           /\ Started(c) => Latest(c) \in Packets
  <1> DEFINE Sent == [header : Headers, packet : Packets, taken : BOOLEAN]
  <1>1. handed[c] \in Seq(Sent)
    BY DEF IInv, TypeOK
  <1>2. handed[c] # <<>> => handed[c][Len(handed[c])] \in Sent
    <2> HIDE DEF Sent
    <2> QED
      BY <1>1
  <1>3. Sending(c) => running[SchedulerOf[c]] \in Sends
    BY Constants DEF IInv, TypeOK, Sending
  <1>4. Sending(c) => running[SchedulerOf[c]][2] \in Packets
    BY <1>3, SendShape
  <1>5. QED
    BY <1>2, <1>4 DEF Started, Latest, LastHanded

(* Taking a packet and writing its header.                                 *)
LEMMA RunSendWhole ==
    ASSUME IInv, NEW s \in Schedulers, RunSend(s), NEW c \in Conns, c \in Streaming, Whole(c)
    PROVE  Whole(c)'
  <1>1. /\ running[s] = None /\ posted[s] # <<>> /\ Head(posted[s]) \in Sends
        /\ posted' = [posted EXCEPT ![s] = Tail(@)]
        /\ UNCHANGED <<clients_, mutex_, pushed, pc, part, todo, play, handed>>
    BY DEF RunSend, Ready, pushVars, rtspVars
  <1>2. Head(posted[s]) = posted[s][1] /\ 1 \in 1 .. Len(posted[s])
    BY <1>1, PopPosted
  <1>3. PICK d \in Conns, packet \in Packets : posted[s][1] = <<d, packet>>
    BY <1>1, <1>2, SendShape
  <1>4. SchedulerOf[d] = s /\ posted[s][1][1] = d /\ posted[s][1][2] = packet
    BY <1>1, <1>2, <1>3 DEF IInv, Routed
  <1>5. hasKey \subseteq hasKey'
    BY DEF RunSend
  <1>6. \/ running' = running /\ (d \in connected => d \notin play \cap hasKey)
        \/ running' = [running EXCEPT ![s] = <<d, packet>>] /\ d \in play \cap hasKey'
    <2>1. Head(posted[s]) = <<d, packet>> /\ Head(posted[s])[1] = d
      BY <1>2, <1>3
    <2>2. QED
      BY <2>1 DEF RunSend, Alive
  <1>7. /\ running \in [Schedulers -> Sends \cup {None}] /\ SchedulerOf[c] \in Schedulers
        /\ <<d, packet>> # None /\ <<d, packet>>[1] = d
    BY Constants DEF IInv, TypeOK, None
  <1>8. Coming(c)' = Coming(c) /\ LastHanded(c)' = LastHanded(c)
    BY <1>1 DEF Coming, Successor, LastHanded
  <1>9. QueueOrdered(c)
    BY DEF Whole
  <1>10. CASE c # d
    <2>1. /\ Sending(c)' <=> Sending(c)
          /\ Sending(c) => running'[SchedulerOf[c]] = running[SchedulerOf[c]]
      <3>1. CASE SchedulerOf[c] # s
        BY <1>6, <1>7, <3>1 DEF Sending
      <3>2. CASE SchedulerOf[c] = s
        BY <1>1, <1>6, <1>7, <1>10, <3>2 DEF Sending
      <3>3. QED
        BY <3>1, <3>2
    <2>2. \A q : posted[s][1] # <<c, q>>
      BY <1>4, <1>10
    <2>3. /\ QueueOrdered(c)' /\ \A q \in Packets : Queued(c, q)' => Queued(c, q)
          /\ \A q : Queued(c, q) => Queued(c, q)'
      BY <1>1, <1>9, <2>2, PopKept
    <2>4. QED
      BY <1>1, <1>5, <1>8, <2>1, <2>3, WholeKept
  <1>11. CASE c = d
    <2>1. ~Sending(c) /\ Alive(c) /\ posted[SchedulerOf[c]][1] = <<c, packet>>
      BY <1>1, <1>3, <1>4, <1>11 DEF Sending, Alive, Streaming
    <2>2. /\ Queued(c, packet) /\ Passed(c, packet) /\ Followed(c, packet) /\ c \in clients_
          /\ \A q \in Packets : Queued(c, q) => q = packet \/ Before(packet, q)
          /\ \A q \in Packets : Started(c) /\ Latest(c) = q => packet = Successor(q)
      BY <1>1, <1>4, <1>11, <2>1, HeadFollows
    <2>3. /\ QueueOrdered(c)' /\ \A q \in Packets : Queued(c, q)' => Queued(c, q)
          /\ \A q : Queued(c, q) /\ q # packet => Queued(c, q)'
      <3>1. \A q : q # packet => posted[s][1] # <<c, q>>
        BY <1>3
      <3>2. QED
        BY <1>1, <1>9, <3>1, PopKept
    <2>4. ASSUME NEW q \in Packets, Queued(c, q)' PROVE Before(packet, q)
      <3>1. PICK i \in 1 .. Len(posted'[s]) : posted'[s][i] = <<c, q>>
        BY <1>4, <1>11, <2>4 DEF Queued
      <3>2. i + 1 \in 1 .. Len(posted[s]) /\ posted[s][i + 1] = <<c, q>>
        BY <1>1, <3>1, PopPosted
      <3>3. 1 < i + 1
        BY <3>1
      <3>4. QED
        BY <1>2, <1>4, <1>9, <1>11, <2>1, <3>2, <3>3 DEF QueueOrdered
    <2>5. ASSUME NEW q \in Packets, Passed(c, q), Followed(c, q), q = packet \/ Before(packet, q)
          PROVE  Passed(c, q)' /\ Followed(c, q)'
      <3>1. Successor(q) # packet
        BY <2>5, SuccessorNext
      <3>2. QED
        BY <1>8, <2>3, <2>5, <3>1 DEF Passed, Followed, Before
    <2>6. QueueComplete(c)'
      BY <2>2, <2>3, <2>5 DEF Whole, QueueComplete
    <2>7. Listed(c)'
      BY <1>1, <2>2 DEF Listed
    <2>8. CASE running' = [running EXCEPT ![s] = <<d, packet>>]
      <3>1. /\ Sending(c)' /\ running'[SchedulerOf[c]][2] = packet /\ Started(c)'
            /\ Latest(c)' = packet
        BY <1>4, <1>7, <1>11, <2>8 DEF Sending, Started, Latest
      <3>2. c \in play' \cap hasKey'
        BY <1>1, <1>6, <1>7, <1>11, <2>8
      <3>3. LatestJoins(c)'
        BY <2>2, <2>4, <2>5, <3>1, <3>2 DEF LatestJoins
      <3>4. RunningJoins(c)'
        <4>1. ASSUME NEW q \in Packets, handed[c] # <<>>, LastHanded(c) = q
              PROVE  packet = Successor(q)
          BY <2>1, <2>2, <4>1 DEF Started, Latest
        <4>2. QED
          BY <1>1, <1>8, <3>1, <4>1 DEF RunningJoins
      <3>5. QED
        BY <2>3, <2>6, <2>7, <3>3, <3>4 DEF Whole
    <2>9. CASE running' = running
      <3>1. c \notin play \cap hasKey
        BY <1>1, <1>3, <1>4, <1>6, <1>7, <1>11, <2>9 DEF Streaming
      <3>2. ~Started(c)
        BY <3>1, LatestPacket DEF Whole, LatestJoins
      <3>3. ~Started(c)' /\ ~Sending(c)'
        BY <1>1, <2>9, <3>2 DEF Started, Sending
      <3>4. LatestJoins(c)' /\ RunningJoins(c)'
        BY <3>3 DEF LatestJoins, RunningJoins
      <3>5. QED
        BY <2>3, <2>6, <2>7, <3>4 DEF Whole
    <2>10. QED
      BY <1>6, <2>8, <2>9
  <1>12. QED
    BY <1>10, <1>11

(* Sending the packet moves it from running to what was handed over.       *)
LEMMA SendRtpOverTcpWhole ==
    ASSUME IInv, NEW s \in Schedulers, SendRtpOverTcp(s), NEW c \in Conns, c \in Streaming, Whole(c)
    PROVE  /\ Whole(c)'
           /\ \A i \in 1 .. Len(handed'[c]) - 1 :
                 \/ i \in 1 .. Len(handed[c]) - 1 /\ handed'[c][i] = handed[c][i] /\ handed'[c][i + 1] = handed[c][i + 1]
                 \/ handed'[c][i + 1].packet = Successor(handed'[c][i].packet)
  <1>1. /\ running[s] # None
        /\ UNCHANGED <<clients_, mutex_, pushed, pc, part, todo, play, hasKey, posted>>
    BY DEF SendRtpOverTcp, pushVars, rtspVars
  <1>2. running[s] \in Sends /\ SchedulerOf[running[s][1]] = s
    BY <1>1 DEF IInv, TypeOK, Routed
  <1>3. PICK d \in Conns, packet \in Packets : running[s] = <<d, packet>>
    BY <1>2, SendShape
  <1>4. SchedulerOf[d] = s /\ running[s][1] = d /\ running[s][2] = packet
    BY <1>2, <1>3
  <1>a. PICK taken \in BOOLEAN : SendsTaken(s, taken)
    BY DEF SendRtpOverTcp, SendsTaken
  <1>5. PICK entry : entry = [header |-> header[Copy(packet, s)], packet |-> packet, taken |-> taken]
    OBVIOUS
  <1>6. \/ UNCHANGED <<handed, running>> /\ d \notin connected
        \/ /\ running' = [running EXCEPT ![s] = None]
           /\ handed' = IF d \in connected \ closed
                      THEN [handed EXCEPT ![d] = Append(@, entry)] ELSE handed
    BY <1>a, <1>4, <1>5 DEF SendsTaken, Alive
  <1>7. /\ running \in [Schedulers -> Sends \cup {None}] /\ SchedulerOf[c] \in Schedulers
        /\ handed \in [Conns -> Seq([header : Headers, packet : Packets, taken : BOOLEAN])]
    BY Constants DEF IInv, TypeOK
  <1>8. Coming(c)' = Coming(c)
    BY <1>1 DEF Coming, Successor
  <1>9. /\ QueueOrdered(c)' /\ \A q : Queued(c, q)' <=> Queued(c, q)
    BY <1>1 DEF Whole, QueueOrdered, Queued
  <1>10. CASE UNCHANGED <<handed, running>>
    <2>1. Sending(c)' <=> Sending(c)
      BY <1>10 DEF Sending
    <2>2. Whole(c)'
      BY <1>1, <1>8, <1>9, <1>10, <2>1, WholeKept
    <2>3. QED
      BY <1>10, <2>2
  <1>11. CASE c # d
    <2>1. handed'[c] = handed[c]
      BY <1>6, <1>7, <1>11
    <2>2. /\ Sending(c)' <=> Sending(c)
          /\ Sending(c) => running'[SchedulerOf[c]] = running[SchedulerOf[c]]
      <3>1. CASE SchedulerOf[c] # s
        BY <1>6, <1>7, <3>1 DEF Sending
      <3>2. CASE SchedulerOf[c] = s
        BY <1>4, <1>6, <1>7, <1>11, <3>2 DEF Sending
      <3>3. QED
        BY <3>1, <3>2
    <2>3. Whole(c)'
      BY <1>1, <1>8, <1>9, <2>1, <2>2, WholeKept
    <2>4. QED
      BY <2>1, <2>3
  <1>12. CASE c = d /\ ~UNCHANGED <<handed, running>>
    <2>1. /\ running' = [running EXCEPT ![s] = None]
          /\ handed' = [handed EXCEPT ![c] = Append(@, entry)]
      BY <1>6, <1>12 DEF Streaming
    <2>2. Sending(c) /\ running[SchedulerOf[c]][2] = packet /\ ~Sending(c)'
      BY <1>1, <1>4, <1>7, <1>12, <2>1 DEF Sending
    <2>3. PICK n \in Nat : n = Len(handed[c])
      <3> DEFINE Sent == [header : Headers, packet : Packets, taken : BOOLEAN]
      <3>1. handed[c] \in Seq(Sent)
        BY <1>7
      <3> HIDE DEF Sent
      <3>2. QED
        BY <3>1
    <2>4. /\ Len(handed'[c]) = n + 1 /\ handed'[c][n + 1] = entry
          /\ \A i \in 1 .. n : handed'[c][i] = handed[c][i]
      <3> DEFINE Sent == [header : Headers, packet : Packets, taken : BOOLEAN]
      <3>1. handed[c] \in Seq(Sent) /\ handed'[c] = Append(handed[c], entry)
        BY <1>7, <2>1
      <3> HIDE DEF Sent
      <3>2. QED
        BY <2>3, <3>1
    <2>5. n + 1 # 0 /\ entry.packet = packet
      BY <1>5
    <2>6. handed'[c] # <<>>
      BY <2>4, <2>5
    <2>7. LastHanded(c)' = packet
      BY <2>4, <2>5 DEF LastHanded
    <2>8. Started(c) /\ Started(c)' /\ Latest(c) = packet /\ Latest(c)' = packet
      BY <2>2, <2>6, <2>7 DEF Started, Latest
    <2>9. ASSUME NEW q
          PROVE  (Passed(c, q)' <=> Passed(c, q)) /\ (Followed(c, q) => Followed(c, q)')
      BY <1>8, <1>9 DEF Passed, Followed, Before, Successor
    <2>10. Listed(c)' /\ QueueComplete(c)' /\ LatestJoins(c)'
      <3>1. Listed(c)'
        BY <1>1, <1>9, <2>8 DEF Whole, Listed
      <3>2. QueueComplete(c)'
        BY <1>9, <2>9 DEF Whole, QueueComplete
      <3>3. LatestJoins(c)'
        BY <1>1, <1>9, <2>8, <2>9 DEF Whole, LatestJoins
      <3>4. QED
        BY <3>1, <3>2, <3>3
    <2>11. RunningJoins(c)'
      BY <2>2 DEF RunningJoins
    <2>12. ASSUME NEW i \in 1 .. (n + 1) - 1
           PROVE  \/ i \in 1 .. n - 1 /\ handed'[c][i] = handed[c][i] /\ handed'[c][i + 1] = handed[c][i + 1]
                  \/ handed'[c][i + 1].packet = Successor(handed'[c][i].packet)
      <3>1. CASE i < n
        <4>1. i \in 1 .. n - 1 /\ i \in 1 .. n /\ i + 1 \in 1 .. n
          BY <3>1
        <4>2. QED
          BY <2>4, <4>1
      <3>2. CASE ~(i < n)
        <4>1. i = n /\ n # 0 /\ n \in 1 .. n
          BY <3>2
        <4>2. handed[c] # <<>>
          BY <2>3, <4>1
        <4>3. PICK last \in Packets : last = LastHanded(c)
          BY <4>2, LatestPacket
        <4>4. packet = Successor(last)
          BY <2>2, <4>2, <4>3 DEF Whole, RunningJoins
        <4>5. handed'[c][n].packet = last /\ handed'[c][n + 1].packet = packet
          BY <2>3, <2>4, <2>5, <4>1, <4>3 DEF LastHanded
        <4>6. QED
          BY <4>1, <4>4, <4>5
      <3>3. QED
        BY <3>1, <3>2
    <2>13. QED
      BY <1>9, <2>3, <2>4, <2>10, <2>11, <2>12 DEF Whole
  <1>13. QED
    BY <1>10, <1>11, <1>12

LEMMA RemoveConnectionWhole ==
    ASSUME IInv, NEW s \in Schedulers, RemoveConnection(s), NEW c \in Conns, Whole(c)
    PROVE  Whole(c)'
  <1>1. /\ posted[s] # <<>> /\ posted' = [posted EXCEPT ![s] = Tail(@)] /\ Head(posted[s])[1] = "remove"
        /\ UNCHANGED <<clients_, mutex_, pushed, pc, part, todo, play, hasKey, running, handed>>
    BY DEF RemoveConnection, pushVars, rtspVars, sendVars
  <1>2. \A q : posted[s][1] # <<c, q>>
    <2>1. posted[s][1][1] = "remove"
      BY <1>1, PopPosted
    <2>2. \A q : <<c, q>>[1] # "remove"
      BY Constants
    <2>3. QED
      BY <2>1, <2>2
  <1>3. /\ QueueOrdered(c)' /\ \A q \in Packets : Queued(c, q)' => Queued(c, q)
        /\ \A q : Queued(c, q) => Queued(c, q)'
    BY <1>1, <1>2, PopKept DEF Whole
  <1>4. Coming(c)' = Coming(c) /\ (Sending(c)' <=> Sending(c))
    BY <1>1 DEF Coming, Successor, Sending
  <1>5. QED
    BY <1>1, <1>3, <1>4, WholeKept

(* The requests of a client leave the others alone; a client that tears    *)
(* its session down or closes is no longer spoken of.                      *)
LEMMA RequestWhole ==
    ASSUME IInv, NEW d \in Conns, Request(d), NEW c \in Conns, c \in Streaming', Whole(c)
    PROVE  Whole(c)'
  <1>1. UNCHANGED <<mutex_, pushed, pc, part, todo, hasKey, running, handed>>
    BY DEF Request, HandleCmdDescribe, HandleCmdSetup, HandleCmdPlay, HandleCmdTeardown, HandleClose,
           pushVars, sendVars
  <1>2. c \in clients_ => c \in clients_'
    BY DEF Request, HandleCmdDescribe, HandleCmdSetup, HandleCmdPlay, HandleCmdTeardown, HandleClose,
           Streaming
  <1>3. c \in play => c \in play'
    BY DEF Request, HandleCmdDescribe, HandleCmdSetup, HandleCmdPlay, HandleCmdTeardown, HandleClose,
           Streaming, rtspVars
  <1>4. posted' = posted \/ posted' = [posted EXCEPT ![SchedulerOf[d]] = Append(@, <<"remove", d>>)]
    BY DEF Request, HandleCmdDescribe, HandleCmdSetup, HandleCmdPlay, HandleCmdTeardown, HandleClose
  <1>5. /\ QueueOrdered(c)' /\ \A q \in Packets : Queued(c, q)' => Queued(c, q)
        /\ \A q : Queued(c, q) => Queued(c, q)'
    <2>1. CASE posted' = posted
      BY <2>1 DEF Whole, QueueOrdered, Queued
    <2>2. CASE posted' = [posted EXCEPT ![SchedulerOf[d]] = Append(@, <<"remove", d>>)]
      <3>1. /\ SchedulerOf[d] \in Schedulers /\ <<"remove", d>>[1] # c
            /\ <<"remove", d>> \in Sends \cup ({"remove"} \X Conns)
        BY Constants
      <3>2. QueueOrdered(c)
        BY DEF Whole
      <3>3. QED
        BY <2>2, <3>1, <3>2, AppendKept
    <2>3. QED
      BY <1>4, <2>1, <2>2
  <1>6. Coming(c)' = Coming(c) /\ (Sending(c)' <=> Sending(c))
    BY <1>1 DEF Coming, Successor, Sending
  <1>7. QED
    BY <1>1, <1>2, <1>3, <1>5, <1>6, WholeKept

LEMMA IdleStepWhole ==
    ASSUME IInv, NEW c \in Conns, Whole(c), UNCHANGED vars \/ RemoveSession
    PROVE  Whole(c)'
  <1>1. UNCHANGED <<clients_, mutex_, pushed, pc, part, todo, play, hasKey, running, handed, posted>>
    BY DEF RemoveSession, vars, pushVars, rtspVars, sendVars
  <1>2. /\ QueueOrdered(c)' /\ (\A q : Queued(c, q)' <=> Queued(c, q))
        /\ Coming(c)' = Coming(c) /\ (Sending(c)' <=> Sending(c))
    BY <1>1 DEF Whole, QueueOrdered, Queued, Coming, Successor, Sending
  <1>3. QED
    BY <1>1, <1>2, WholeKept

(* Connections only leave the set of those spoken of, and only             *)
(* SendRtpOverTcp sends.                                                   *)
LEMMA StreamingShrinks == [Next]_vars => Streaming' \subseteq Streaming /\ torn \subseteq torn' /\ dropped \subseteq dropped'
  <1> SUFFICES ASSUME [Next]_vars
               PROVE  /\ torn \subseteq torn' /\ dropped \subseteq dropped'
                      /\ connected' \subseteq connected /\ closed \subseteq closed'
    BY DEF Streaming
  <1>1. CASE UNCHANGED vars
    BY <1>1 DEF vars, rtspVars, connVars
  <1>2. ASSUME NEW p \in Pushers, PushFrame(p) \/ Push(p)
        PROVE  /\ torn \subseteq torn' /\ dropped \subseteq dropped'
               /\ connected' \subseteq connected /\ closed \subseteq closed'
    BY <1>2 DEF PushFrame, Push, HandleFrame, CollectClients, PacketDone, SendRtpPacket, rtspVars, connVars
  <1>3. ASSUME NEW s \in Schedulers, Run(s)
        PROVE  /\ torn \subseteq torn' /\ dropped \subseteq dropped'
               /\ connected' \subseteq connected /\ closed \subseteq closed'
    BY <1>3 DEF Run, RunSend, SendRtpOverTcp, RemoveConnection, rtspVars, connVars
  <1>4. ASSUME NEW c \in Conns, Request(c)
        PROVE  /\ torn \subseteq torn' /\ dropped \subseteq dropped'
               /\ connected' \subseteq connected /\ closed \subseteq closed'
    BY <1>4 DEF Request, HandleCmdDescribe, HandleCmdSetup, HandleCmdPlay, HandleCmdTeardown,
                HandleClose, rtspVars, connVars
  <1>5. CASE RemoveSession
    BY <1>5 DEF RemoveSession, rtspVars, connVars
  <1>6. QED
    BY <1>1, <1>2, <1>3, <1>4, <1>5 DEF Next

LEMMA InitStream == Init => Stream
  <1> SUFFICES ASSUME Init PROVE Stream
    OBVIOUS
  <1>1. \A c \in Conns : handed[c] = <<>> /\ posted[SchedulerOf[c]] = <<>> /\ running[SchedulerOf[c]] = None
    BY Constants DEF Init
  <1>2. \A p \in Pushers : todo[p] = {}
    BY DEF Init
  <1>3. NoGap
    BY <1>1 DEF NoGap
  <1>4. ASSUME NEW c \in Streaming PROVE Whole(c)
    <2>1. c \in Conns
      BY <1>4, Constants DEF Streaming, Init
    <2>2. ~Started(c) /\ ~Sending(c)
      BY <1>1, <2>1 DEF Started, Sending
    <2>3. \A q \in Packets : ~Queued(c, q)
      BY <1>1, <2>1 DEF Queued
    <2>4. QueueOrdered(c)
      BY <1>1, <2>1 DEF QueueOrdered
    <2>5. QED
      BY <1>2, <2>2, <2>3, <2>4 DEF Whole, Listed, QueueComplete, LatestJoins, RunningJoins
  <1>5. QED
    BY <1>3, <1>4 DEF Stream

LEMMA NextStream == IInv /\ Stream /\ [Next]_vars => Stream'
  <1> SUFFICES ASSUME IInv, Stream, [Next]_vars PROVE Stream'
    OBVIOUS
  <1>1. connected \subseteq Conns
    BY DEF IInv, TypeOK
  <1>2. Streaming' \subseteq Streaming /\ torn \subseteq torn' /\ dropped \subseteq dropped'
    BY StreamingShrinks
  <1>3. ASSUME NEW c \in Conns, c \in Streaming' PROVE Whole(c)'
    <2>1. c \in Streaming /\ Whole(c)
      BY <1>2, <1>3 DEF Stream
    <2>2. CASE UNCHANGED vars \/ RemoveSession
      BY <2>1, <2>2, IdleStepWhole
    <2>3. ASSUME NEW p \in Pushers, PushFrame(p) \/ Push(p) PROVE Whole(c)'
      BY <1>3, <2>1, <2>3, PusherWhole, SendRtpPacketWhole DEF Push
    <2>4. ASSUME NEW s \in Schedulers, Run(s) PROVE Whole(c)'
      BY <2>1, <2>4, RunSendWhole, SendRtpOverTcpWhole, RemoveConnectionWhole DEF Run
    <2>5. ASSUME NEW d \in Conns, Request(d) PROVE Whole(c)'
      BY <1>3, <2>1, <2>5, RequestWhole
    <2>6. QED
      BY <2>2, <2>3, <2>4, <2>5 DEF Next
  <1>4. NoGap'
    <2>1. ASSUME NEW c \in Conns, c \notin torn', c \notin dropped', NEW i \in 1 .. Len(handed'[c]) - 1
          PROVE  handed'[c][i + 1].packet = Successor(handed'[c][i].packet)
      <3>1. \A j \in 1 .. Len(handed[c]) - 1 : handed[c][j + 1].packet = Successor(handed[c][j].packet)
        BY <1>2, <2>1 DEF Stream, NoGap
      <3>2. CASE handed'[c] = handed[c]
        BY <2>1, <3>1, <3>2
      <3>3. ASSUME NEW s \in Schedulers, SendRtpOverTcp(s), handed'[c] # handed[c]
            PROVE  handed'[c][i + 1].packet = Successor(handed'[c][i].packet)
        <4>1. c \in connected \ closed
          <5>1. handed \in [Conns -> Seq([header : Headers, packet : Packets, taken : BOOLEAN])]
            BY DEF IInv, TypeOK
          <5>2. QED
            BY <3>3, <5>1 DEF SendRtpOverTcp
        <4>2. c \in Streaming
          BY <1>2, <2>1, <4>1 DEF Streaming
        <4>3. \/ /\ i \in 1 .. Len(handed[c]) - 1
                 /\ handed'[c][i] = handed[c][i] /\ handed'[c][i + 1] = handed[c][i + 1]
              \/ handed'[c][i + 1].packet = Successor(handed'[c][i].packet)
          BY <2>1, <3>3, <4>2, SendRtpOverTcpWhole DEF Stream
        <4>4. QED
          BY <3>1, <4>3
      <3>4. handed' = handed \/ \E s \in Schedulers : SendRtpOverTcp(s)
        <4>1. CASE UNCHANGED vars
          BY <4>1 DEF vars, sendVars
        <4>2. CASE Next
          BY <4>2 DEF Next, PushFrame, Push, HandleFrame, CollectClients, PacketDone, SendRtpPacket,
                      Run, RunSend, RemoveConnection, Request, HandleCmdDescribe, HandleCmdSetup,
                      HandleCmdPlay, HandleCmdTeardown, HandleClose, RemoveSession, sendVars
        <4>3. QED
          BY <4>1, <4>2
      <3>5. QED
        BY <3>2, <3>3, <3>4
    <2>2. QED
      BY <2>1 DEF NoGap, Successor
  <1>5. QED
    BY <1>1, <1>2, <1>3, <1>4 DEF Stream, Streaming

(* A client that does not tear its session down, and for which no full     *)
(* queue dropped a packet, gets the packets of the frames pushed from its  *)
(* first one on, each once and in order, whichever threads push them and   *)
(* however the schedulers run.                                             *)
THEOREM FramesWhole == Spec => []NoGap
  <1>1. IInv /\ Stream /\ [Next]_vars => (IInv /\ Stream)'
    BY NextIInv, NextStream
  <1>2. Init => IInv /\ Stream
    BY InitIInv, InitStream
  <1>3. IInv /\ Stream => NoGap
    BY DEF Stream
  <1>4. QED
    BY <1>1, <1>2, <1>3, PTL DEF Spec
=============================================================================
