---------------------------- MODULE ServerProofs -----------------------------
(***************************************************************************)
(* The two servers, each for every value of its constants.                 *)
(*                                                                         *)
(* TcpServer: no removal takes out a connection that is still open.  A     *)
(* posted removal names a socket whose entry is a closed connection, there *)
(* is one removal per entry, and a socket number is not given away while   *)
(* its entry is there.                                                     *)
(*                                                                         *)
(* SipServer: nobody has left a session that is Connected.  Every message  *)
(* on its way says how far the two phones of its call are; of the messages *)
(* that end a state there is at most one, wherever it is; and the answer   *)
(* that connects a session is gone before anything ends the call.          *)
(*                                                                         *)
(* And a session ends with its call, as long as nothing goes wrong: in     *)
(* every state the message, or the party, that will move the session on is *)
(* there; a caller's CANCEL, ACK and BYE stay in order; and what a message *)
(* that has passed the server did to the session is still true.            *)
(***************************************************************************)
EXTENDS TcpServer, SipServer, SequenceTheorems, TLAPS

(***************************************************************************)
(* TcpServer.                                                              *)
(***************************************************************************)


(* The entry for f is a closed connection of scheduler s. *)
Target(f, s) ==
    /\ connections_[f] \in Conns /\ connections_[f] \in informed
    /\ is_closed_[connections_[f]] /\ scheduler[connections_[f]] = s

(* The removals posted in P are justified, and none is posted twice. *)
RemovalsOk(P) ==
    \A s \in Schedulers : \A i \in 1 .. Len(P[s]) : \A f \in Sockets :
        P[s][i] = <<"remove", f>> =>
            /\ Target(f, s) /\ f \notin timers[s]
            /\ \A j \in 1 .. Len(P[s]) : P[s][j] = <<"remove", f>> => j = i

ClosesOk(P) ==
    \A s \in Schedulers : \A i \in 1 .. Len(P[s]) : \A c \in Conns :
        P[s][i] = <<"close", c>> => scheduler[c] = s

TimersOk == \A s \in Schedulers : \A f \in timers[s] : Target(f, s)

(* An entry is under the socket number of its connection. *)
OwnSocket ==
    \A f \in Sockets : connections_[f] # Nobody =>
        scheduler[connections_[f]] # -1 /\ socket[connections_[f]] = f

(* What the acceptor's callback has done for the connection it works on. *)
Accepting ==
    /\ acceptPc = "idle" <=> accepted = Nobody
    /\ accepted # Nobody => scheduler[accepted] # -1 /\ accepted \notin informed
    /\ acceptPc = "add" => connections_[socket[accepted]] = Nobody
    /\ acceptPc = "inform" => connections_[socket[accepted]] = accepted

Fresh ==
    /\ \A c \in Conns : scheduler[c] = -1 => c \notin informed /\ ~is_closed_[c]
    /\ \A c \in todo : scheduler[c] # -1

IInv ==
    /\ TypeOK /\ OpenIsListed /\ OwnSocket /\ Accepting /\ Fresh
    /\ RemovalsOk(posted) /\ ClosesOk(posted) /\ TimersOk

USE TcpServerAssumption

LEMMA InitIInv == Init => IInv
  <1> SUFFICES ASSUME Init PROVE IInv
    OBVIOUS
  <1>1. \A s \in Schedulers : posted[s] = <<>> /\ Len(posted[s]) = 0
    BY DEF Init
  <1>2. TypeOK
    <2>1. posted \in [Schedulers -> Seq(Callbacks)]
      BY DEF Init
    <2>2. is_closed_ \in [Conns -> BOOLEAN] /\ listening \in BOOLEAN
      BY DEF Init
    <2>3. QED
      BY <2>1, <2>2 DEF Init, TypeOK
  <1>3. RemovalsOk(posted) /\ ClosesOk(posted)
    BY <1>1 DEF RemovalsOk, ClosesOk
  <1>4. TimersOk /\ OwnSocket /\ Accepting /\ Fresh /\ OpenIsListed
    BY DEF Init, TimersOk, OwnSocket, Accepting, Fresh, OpenIsListed
  <1>5. QED
    BY <1>2, <1>3, <1>4 DEF IInv

(* What a queue holds after its first callback is taken, and after one     *)
(* more is posted.                                                         *)
LEMMA TailAt ==
    ASSUME NEW S, NEW q \in Seq(S), q # <<>>
    PROVE  /\ Tail(q) \in Seq(S) /\ Len(Tail(q)) = Len(q) - 1 /\ Len(q) \in Nat
           /\ \A i \in 1 .. Len(Tail(q)) : i + 1 \in 2 .. Len(q) /\ Tail(q)[i] = q[i + 1]
           /\ 1 \in 1 .. Len(q) /\ Head(q) = q[1] /\ Head(q) \in S
  OBVIOUS

LEMMA AppendAt ==
    ASSUME NEW S, NEW q \in Seq(S), NEW x \in S
    PROVE  /\ Append(q, x) \in Seq(S) /\ Len(Append(q, x)) = Len(q) + 1 /\ Len(q) \in Nat
           /\ \A i \in 1 .. Len(q) : Append(q, x)[i] = q[i]
           /\ Append(q, x)[Len(q) + 1] = x
  OBVIOUS

LEMMA TailOk ==
    ASSUME IInv, NEW s \in Schedulers, posted[s] # <<>>
    PROVE  LET Q == [posted EXCEPT ![s] = Tail(posted[s])] IN
           /\ Q \in [Schedulers -> Seq(Callbacks)]
           /\ RemovalsOk(Q) /\ ClosesOk(Q)
           /\ \A f \in Sockets : Head(posted[s]) = <<"remove", f>> =>
                 \A i \in 1 .. Len(Q[s]) : Q[s][i] # <<"remove", f>>
  <1> DEFINE Q == [posted EXCEPT ![s] = Tail(posted[s])]
  <1>1. posted \in [Schedulers -> Seq(Callbacks)] /\ posted[s] \in Seq(Callbacks)
    BY DEF IInv, TypeOK
  <1>2. /\ Tail(posted[s]) \in Seq(Callbacks) /\ Len(Tail(posted[s])) = Len(posted[s]) - 1
        /\ Len(posted[s]) \in Nat
        /\ \A i \in 1 .. Len(Tail(posted[s])) :
              i + 1 \in 2 .. Len(posted[s]) /\ Tail(posted[s])[i] = posted[s][i + 1]
        /\ 1 \in 1 .. Len(posted[s]) /\ Head(posted[s]) = posted[s][1]
    BY <1>1, TailAt
  <1>3. Q \in [Schedulers -> Seq(Callbacks)] /\ Q[s] = Tail(posted[s])
        /\ \A t \in Schedulers \ {s} : Q[t] = posted[t]
    BY <1>1, <1>2
  <1>4. RemovalsOk(Q)
    <2> SUFFICES ASSUME NEW t \in Schedulers, NEW i \in 1 .. Len(Q[t]), NEW f \in Sockets,
                        Q[t][i] = <<"remove", f>>
                 PROVE  /\ Target(f, t) /\ f \notin timers[t]
                        /\ \A j \in 1 .. Len(Q[t]) : Q[t][j] = <<"remove", f>> => j = i
      BY DEF RemovalsOk
    <2>1. CASE t # s
      <3>1. Q[t] = posted[t]
        BY <2>1, <1>3
      <3>2. i \in 1 .. Len(posted[t]) /\ posted[t][i] = <<"remove", f>>
        BY <3>1
      <3>3. QED
        BY <3>1, <3>2 DEF IInv, RemovalsOk
    <2>2. CASE t = s
      <3>1. i + 1 \in 1 .. Len(posted[s]) /\ posted[s][i + 1] = <<"remove", f>>
        BY <2>2, <1>2, <1>3
      <3>2. /\ Target(f, s) /\ f \notin timers[s]
            /\ \A j \in 1 .. Len(posted[s]) : posted[s][j] = <<"remove", f>> => j = i + 1
        BY <3>1 DEF IInv, RemovalsOk
      <3>3. ASSUME NEW j \in 1 .. Len(Q[s]), Q[s][j] = <<"remove", f>>
            PROVE  j = i
        <4>1. j + 1 \in 1 .. Len(posted[s]) /\ posted[s][j + 1] = <<"remove", f>>
          BY <3>3, <1>2, <1>3
        <4>2. j + 1 = i + 1
          BY <4>1, <3>2
        <4>3. QED
          BY <4>2, <2>2, <1>2, <1>3
      <3>4. QED
        BY <2>2, <3>2, <3>3
    <2>3. QED
      BY <2>1, <2>2
  <1>5. ClosesOk(Q)
    <2> SUFFICES ASSUME NEW t \in Schedulers, NEW i \in 1 .. Len(Q[t]), NEW c \in Conns,
                        Q[t][i] = <<"close", c>>
                 PROVE  scheduler[c] = t
      BY DEF ClosesOk
    <2>1. CASE t # s
      BY <2>1, <1>3 DEF IInv, ClosesOk
    <2>2. CASE t = s
      <3>1. i + 1 \in 1 .. Len(posted[s]) /\ posted[s][i + 1] = <<"close", c>>
        BY <2>2, <1>2, <1>3
      <3>2. QED
        BY <3>1, <2>2 DEF IInv, ClosesOk
    <2>3. QED
      BY <2>1, <2>2
  <1>6. ASSUME NEW f \in Sockets, Head(posted[s]) = <<"remove", f>>, NEW i \in 1 .. Len(Q[s])
        PROVE  Q[s][i] # <<"remove", f>>
    <2> SUFFICES ASSUME Q[s][i] = <<"remove", f>> PROVE FALSE
      OBVIOUS
    <2>1. i + 1 \in 2 .. Len(posted[s]) /\ posted[s][i + 1] = <<"remove", f>>
      BY <1>2, <1>3
    <2>2. posted[s][1] = <<"remove", f>> /\ 1 \in 1 .. Len(posted[s])
      BY <1>2, <1>6
    <2>3. i + 1 \in 1 .. Len(posted[s])
      BY <2>1, <1>2
    <2>4. i + 1 = 1
      BY <2>1, <2>2, <2>3 DEF IInv, RemovalsOk
    <2>5. QED
      BY <2>1, <2>4
  <1>7. QED
    BY <1>3, <1>4, <1>5, <1>6

(* Closing c keeps the invariant, when queue is what is posted to its      *)
(* scheduler otherwise.                                                    *)
LEMMA CloseIInv ==
    ASSUME IInv, NEW c \in Conns, NEW queue \in Seq(Callbacks), scheduler[c] # -1,
           RemovalsOk([posted EXCEPT ![scheduler[c]] = queue]),
           ClosesOk([posted EXCEPT ![scheduler[c]] = queue]),
           Close(c, queue), draining' \subseteq Schedulers,
           UNCHANGED <<connections_, socket, scheduler, informed, acceptVars, stopVars>>
    PROVE  IInv'
  <1> DEFINE s == scheduler[c]
             f == socket[c]
             Q == [posted EXCEPT ![s] = queue]
             item == <<"remove", f>>
  <1>1. /\ is_closed_' = [is_closed_ EXCEPT ![c] = TRUE]
        /\ \/ posted' = Q /\ timers' = timers
           \/ /\ ~is_closed_[c] /\ c \in informed
              /\ posted' = [posted EXCEPT ![s] = Append(queue, item)] /\ timers' = timers
           \/ /\ ~is_closed_[c] /\ c \in informed
              /\ posted' = Q /\ timers' = [timers EXCEPT ![s] = @ \cup {f}]
        /\ UNCHANGED <<connections_, socket, scheduler, informed, index_, listening,
                       acceptPc, accepted, stopPc, todo>>
    BY DEF Close, acceptVars, stopVars
  <1>2. /\ s \in Schedulers /\ f \in Sockets
        /\ posted \in [Schedulers -> Seq(Callbacks)] /\ timers \in [Schedulers -> SUBSET Sockets]
        /\ is_closed_ \in [Conns -> BOOLEAN] /\ item \in Callbacks
    BY DEF IInv, TypeOK, Callbacks
  <1>3. /\ Q \in [Schedulers -> Seq(Callbacks)] /\ Q[s] = queue
        /\ is_closed_' \in [Conns -> BOOLEAN] /\ is_closed_'[c]
        /\ \A d \in Conns : is_closed_[d] => is_closed_'[d]
        /\ \A d \in Conns : ~is_closed_'[d] => ~is_closed_[d]
    BY <1>1, <1>2
  <1>4. \A g \in Sockets, t \in Schedulers : Target(g, t) => Target(g, t)'
    BY <1>1, <1>3 DEF Target
  <1>5. TypeOK'
    <2>1. posted' \in [Schedulers -> Seq(Callbacks)]
      <3>1. Append(queue, item) \in Seq(Callbacks)
        BY <1>2
      <3>2. [posted EXCEPT ![s] = Append(queue, item)] \in [Schedulers -> Seq(Callbacks)]
        BY <3>1, <1>2
      <3>3. QED
        BY <3>2, <1>1, <1>3
    <2>2. timers' \in [Schedulers -> SUBSET Sockets]
      BY <1>1, <1>2
    <2>3. QED
      BY <1>1, <1>3, <2>1, <2>2 DEF IInv, TypeOK
  <1>6. OpenIsListed' /\ OwnSocket' /\ Accepting'
    BY <1>1, <1>3 DEF IInv, OpenIsListed, OwnSocket, Accepting
  <1>7. Fresh'
    BY <1>1, <1>2 DEF IInv, Fresh
  <1>8. CASE posted' = Q /\ timers' = timers
    <2>1. RemovalsOk(posted)'
      BY <1>4, <1>8 DEF RemovalsOk
    <2>2. ClosesOk(posted)'
      BY <1>1, <1>8 DEF ClosesOk
    <2>3. TimersOk'
      BY <1>2, <1>4, <1>8 DEF IInv, TimersOk
    <2>4. QED
      BY <1>5, <1>6, <1>7, <2>1, <2>2, <2>3 DEF IInv
  <1>9. ASSUME ~is_closed_[c], c \in informed
        PROVE  /\ connections_[f] = c /\ Target(f, s)' /\ f \notin timers[s]
               /\ \A t \in Schedulers : ~Target(f, t)
               /\ \A i \in 1 .. Len(queue) : queue[i] # item
    <2>1. c # accepted
      BY <1>9 DEF IInv, Accepting, TypeOK
    <2>2. connections_[f] = c
      BY <2>1, <1>9 DEF IInv, OpenIsListed
    <2>3. \A t \in Schedulers : ~Target(f, t)
      BY <2>2, <1>9 DEF Target
    <2>4. Target(f, s)'
      BY <2>2, <1>1, <1>3, <1>9 DEF Target
    <2>5. f \notin timers[s]
      BY <2>3, <1>2 DEF IInv, TimersOk
    <2>6. \A i \in 1 .. Len(queue) : queue[i] # item
      BY <2>3, <1>2, <1>3 DEF RemovalsOk
    <2>7. QED
      BY <2>2, <2>3, <2>4, <2>5, <2>6
  <1>10. CASE ~is_closed_[c] /\ c \in informed
              /\ posted' = [posted EXCEPT ![s] = Append(queue, item)] /\ timers' = timers
    <2>1. /\ posted'[s] = Append(queue, item) /\ Len(posted'[s]) = Len(queue) + 1
          /\ Len(queue) \in Nat
          /\ \A i \in 1 .. Len(queue) : posted'[s][i] = queue[i]
          /\ posted'[s][Len(queue) + 1] = item
          /\ \A t \in Schedulers \ {s} : posted'[t] = Q[t]
      BY <1>10, <1>2, AppendAt
    <2>2. RemovalsOk(posted)'
      <3> SUFFICES ASSUME NEW t \in Schedulers, NEW i \in 1 .. Len(posted'[t]), NEW g \in Sockets,
                          posted'[t][i] = <<"remove", g>>
                   PROVE  /\ Target(g, t)' /\ g \notin timers'[t]
                          /\ \A j \in 1 .. Len(posted'[t]) : posted'[t][j] = <<"remove", g>> => j = i
        BY <1>1 DEF RemovalsOk, Schedulers
      <3>1. CASE t # s
        <4>1. posted'[t] = Q[t]
          BY <3>1, <2>1
        <4>2. /\ Target(g, t) /\ g \notin timers[t]
              /\ \A j \in 1 .. Len(Q[t]) : Q[t][j] = <<"remove", g>> => j = i
          BY <4>1 DEF RemovalsOk
        <4>3. QED
          BY <4>1, <4>2, <1>4, <1>10
      <3>2. CASE t = s /\ i \in 1 .. Len(queue)
        <4>1. queue[i] = <<"remove", g>> /\ g # f
          BY <3>2, <2>1, <1>9, <1>10
        <4>2. /\ Target(g, s) /\ g \notin timers[s]
              /\ \A j \in 1 .. Len(queue) : queue[j] = <<"remove", g>> => j = i
          BY <4>1, <3>2, <1>2, <1>3 DEF RemovalsOk
        <4>3. ASSUME NEW j \in 1 .. Len(posted'[s]), posted'[s][j] = <<"remove", g>>
              PROVE  j = i
          <5>1. j # Len(queue) + 1
            BY <4>1, <4>3, <2>1
          <5>2. j \in 1 .. Len(queue)
            BY <5>1, <2>1
          <5>3. QED
            BY <5>2, <4>2, <4>3, <2>1
        <4>4. QED
          BY <4>2, <4>3, <3>2, <1>4, <1>10
      <3>3. CASE t = s /\ i = Len(queue) + 1
        <4>1. g = f
          BY <3>3, <2>1
        <4>2. ASSUME NEW j \in 1 .. Len(posted'[s]), posted'[s][j] = <<"remove", f>>
              PROVE  j = i
          <5>1. j \notin 1 .. Len(queue)
            BY <4>2, <2>1, <1>9, <1>10
          <5>2. QED
            BY <5>1, <2>1, <3>3
        <4>3. QED
          BY <4>1, <4>2, <3>3, <1>9, <1>10
      <3>4. t = s => i \in 1 .. Len(queue) \/ i = Len(queue) + 1
        <4>1. PICK n \in Nat : n = Len(queue) /\ Len(posted'[s]) = n + 1
          BY <2>1
        <4>2. t = s => i \in 1 .. n + 1
          BY <4>1
        <4>3. QED
          BY <4>1, <4>2
      <3>5. QED
        BY <3>1, <3>2, <3>3, <3>4
    <2>3. ClosesOk(posted)'
      <3> SUFFICES ASSUME NEW t \in Schedulers, NEW i \in 1 .. Len(posted'[t]), NEW d \in Conns,
                          posted'[t][i] = <<"close", d>>
                   PROVE  scheduler[d] = t
        BY <1>1 DEF ClosesOk, Schedulers
      <3>1. CASE t # s
        BY <3>1, <2>1 DEF ClosesOk
      <3>2. CASE t = s
        <4>1. i # Len(queue) + 1
          BY <2>1, <3>2
        <4>2. i \in 1 .. Len(queue) /\ queue[i] = <<"close", d>>
          BY <4>1, <3>2, <2>1
        <4>3. QED
          BY <4>2, <3>2, <1>2, <1>3 DEF ClosesOk
      <3>3. QED
        BY <3>1, <3>2
    <2>4. TimersOk'
      BY <1>2, <1>4, <1>10 DEF IInv, TimersOk, Schedulers
    <2>5. QED
      BY <1>5, <1>6, <1>7, <2>2, <2>3, <2>4 DEF IInv
  <1>11. CASE ~is_closed_[c] /\ c \in informed
              /\ posted' = Q /\ timers' = [timers EXCEPT ![s] = @ \cup {f}]
    <2>1. RemovalsOk(posted)'
      <3> SUFFICES ASSUME NEW t \in Schedulers, NEW i \in 1 .. Len(Q[t]), NEW g \in Sockets,
                          Q[t][i] = <<"remove", g>>
                   PROVE  /\ Target(g, t)' /\ g \notin timers'[t]
                          /\ \A j \in 1 .. Len(Q[t]) : Q[t][j] = <<"remove", g>> => j = i
        BY <1>11 DEF RemovalsOk, Schedulers
      <3>1. /\ Target(g, t) /\ g \notin timers[t]
            /\ \A j \in 1 .. Len(Q[t]) : Q[t][j] = <<"remove", g>> => j = i
        BY DEF RemovalsOk
      <3>2. g # f
        BY <3>1, <1>9, <1>11
      <3>3. QED
        BY <3>1, <3>2, <1>2, <1>4, <1>11
    <2>2. ClosesOk(posted)'
      BY <1>1, <1>11 DEF ClosesOk, Schedulers
    <2>3. TimersOk'
      BY <1>2, <1>4, <1>9, <1>11 DEF IInv, TimersOk, Schedulers
    <2>4. QED
      BY <1>5, <1>6, <1>7, <2>1, <2>2, <2>3 DEF IInv
  <1>12. QED
    BY <1>1, <1>8, <1>10, <1>11

LEMMA OnConnectIInv ==
    ASSUME IInv, NEW c \in Conns, NEW f \in Sockets, NEW s \in Schedulers, OnConnect(c, f, s)
    PROVE  IInv'
  <1>1. /\ scheduler[c] = -1 /\ Free(f) /\ acceptPc = "idle" /\ accepted = Nobody
        /\ socket' = [socket EXCEPT ![c] = f] /\ scheduler' = [scheduler EXCEPT ![c] = s]
        /\ accepted' = c /\ acceptPc' = "add"
        /\ UNCHANGED <<connections_, is_closed_, informed, listening, stopPc, todo,
                       posted, draining, timers>>
    BY DEF OnConnect, BetweenHandlers, stopVars, loopVars, IInv, Accepting, Schedulers
  <1>2. index_' = 1 \/ index_' \in Schedulers
    BY DEF OnConnect, GetTaskScheduler, IInv, TypeOK, Schedulers
  <1>3. s # -1 /\ s \in Schedulers
    BY DEF Schedulers
  <1>4. /\ socket \in [Conns -> Sockets] /\ scheduler \in [Conns -> Schedulers \cup {-1}]
        /\ connections_ \in [Sockets -> Conns \cup {Nobody}]
    BY DEF IInv, TypeOK
  <1>5. /\ socket'[c] = f /\ scheduler'[c] = s
        /\ \A d \in Conns \ {c} : socket'[d] = socket[d] /\ scheduler'[d] = scheduler[d]
    BY <1>1, <1>4
  <1>6. \A g \in Sockets : connections_[g] # c
    BY <1>1, <1>4 DEF IInv, OwnSocket
  <1>7. connections_[f] = Nobody
    <2> SUFFICES ASSUME connections_[f] # Nobody PROVE FALSE
      OBVIOUS
    <2>1. connections_[f] \in Listed /\ connections_[f] \in Conns
      BY <1>4 DEF Listed
    <2>2. scheduler[connections_[f]] # -1 /\ socket[connections_[f]] = f
      BY DEF IInv, OwnSocket
    <2>3. QED
      BY <1>1, <2>1, <2>2 DEF Free, Referenced
  <1>8. \A g \in Sockets, t \in Schedulers : Target(g, t) => Target(g, t)'
    BY <1>1, <1>5, <1>6 DEF Target
  <1>9. TypeOK'
    BY <1>1, <1>2, <1>4 DEF IInv, TypeOK
  <1>10. OpenIsListed' /\ OwnSocket' /\ Accepting' /\ Fresh'
    <2>1. OpenIsListed'
      BY <1>1, <1>5 DEF IInv, OpenIsListed
    <2>2. OwnSocket'
      BY <1>1, <1>4, <1>5, <1>6 DEF IInv, OwnSocket
    <2>3. Accepting'
      BY <1>1, <1>3, <1>5, <1>7 DEF IInv, Accepting, Fresh
    <2>4. Fresh'
      BY <1>1, <1>3, <1>5 DEF IInv, Fresh, TypeOK
    <2>5. QED
      BY <2>1, <2>2, <2>3, <2>4
  <1>11. RemovalsOk(posted)'
    BY <1>1, <1>8 DEF IInv, RemovalsOk
  <1>12. ClosesOk(posted)'
    BY <1>1, <1>5 DEF IInv, ClosesOk, Schedulers
  <1>13. TimersOk'
    BY <1>1, <1>8 DEF IInv, TimersOk, TypeOK
  <1>14. QED
    BY <1>9, <1>10, <1>11, <1>12, <1>13 DEF IInv

(* Taking out an entry whose connection is closed, when nothing in the     *)
(* queues or the timers refers to it any more.                             *)
LEMMA RemoveIInv ==
    ASSUME IInv, NEW f \in Sockets, NEW s \in Schedulers, Target(f, s),
           connections_' = [connections_ EXCEPT ![f] = Nobody],
           posted' \in [Schedulers -> Seq(Callbacks)], RemovalsOk(posted'), ClosesOk(posted'),
           timers' \in [Schedulers -> SUBSET Sockets],
           \A t \in Schedulers : timers'[t] \subseteq timers[t],
           \A i \in 1 .. Len(posted'[s]) : posted'[s][i] # <<"remove", f>>,
           f \notin timers'[s], draining' \subseteq Schedulers,
           UNCHANGED <<connVars, acceptVars, stopVars>>
    PROVE  IInv'
  <1>1. UNCHANGED <<socket, scheduler, is_closed_, informed, index_, listening, acceptPc,
                    accepted, stopPc, todo>>
    BY DEF connVars, acceptVars, stopVars
  <1>2. /\ connections_ \in [Sockets -> Conns \cup {Nobody}]
        /\ connections_'[f] = Nobody
        /\ \A g \in Sockets \ {f} : connections_'[g] = connections_[g]
    BY DEF IInv, TypeOK
  <1>3. \A g \in Sockets \ {f}, t \in Schedulers : Target(g, t) => Target(g, t)'
    BY <1>1, <1>2 DEF Target
  <1>4. \A t \in Schedulers : Target(f, t) => t = s
    BY DEF Target
  <1>5. TypeOK'
    BY <1>1 DEF IInv, TypeOK
  <1>6. OpenIsListed'
    BY <1>1, <1>2 DEF IInv, OpenIsListed, Target
  <1>7. OwnSocket' /\ Fresh'
    BY <1>1, <1>2 DEF IInv, OwnSocket, Fresh
  <1>8. Accepting'
    <2>1. acceptPc = "inform" => socket[accepted] # f
      BY DEF IInv, Accepting, Target
    <2>2. accepted # Nobody => socket[accepted] \in Sockets
      BY DEF IInv, TypeOK
    <2>3. acceptPc # "idle" => accepted # Nobody
      BY DEF IInv, Accepting
    <2>4. QED
      BY <1>1, <1>2, <2>1, <2>2, <2>3 DEF IInv, Accepting
  <1>9. RemovalsOk(posted)'
    <2> SUFFICES ASSUME NEW t \in Schedulers, NEW i \in 1 .. Len(posted'[t]), NEW g \in Sockets,
                        posted'[t][i] = <<"remove", g>>
                 PROVE  /\ Target(g, t)' /\ g \notin timers'[t]
                        /\ \A j \in 1 .. Len(posted'[t]) : posted'[t][j] = <<"remove", g>> => j = i
      BY DEF RemovalsOk, Schedulers
    <2>1. /\ Target(g, t) /\ g \notin timers[t]
          /\ \A j \in 1 .. Len(posted'[t]) : posted'[t][j] = <<"remove", g>> => j = i
      BY DEF RemovalsOk
    <2>2. g # f
      BY <2>1, <1>4
    <2>3. QED
      BY <2>1, <2>2, <1>3
  <1>10. ClosesOk(posted)'
    BY <1>1 DEF ClosesOk, Schedulers
  <1>11. TimersOk'
    <2> SUFFICES ASSUME NEW t \in Schedulers, NEW g \in timers'[t] PROVE Target(g, t)'
      BY DEF TimersOk, Schedulers
    <2>1. g \in timers[t] /\ g \in Sockets /\ Target(g, t)
      BY DEF IInv, TimersOk, TypeOK
    <2>2. g # f
      BY <2>1, <1>4
    <2>3. QED
      BY <2>1, <2>2, <1>3
  <1>12. QED
    BY <1>5, <1>6, <1>7, <1>8, <1>9, <1>10, <1>11 DEF IInv

LEMMA RunPostedIInv ==
    ASSUME IInv, NEW s \in Schedulers, RunPosted(s)
    PROVE  IInv'
  <1> DEFINE Q == [posted EXCEPT ![s] = Tail(posted[s])]
  <1>1. /\ posted[s] # <<>> /\ draining' \subseteq Schedulers
        /\ UNCHANGED <<socket, scheduler, informed, acceptVars, stopVars>>
    BY DEF RunPosted, IInv, TypeOK
  <1>2. /\ Q \in [Schedulers -> Seq(Callbacks)] /\ RemovalsOk(Q) /\ ClosesOk(Q)
        /\ \A f \in Sockets : Head(posted[s]) = <<"remove", f>> =>
              \A i \in 1 .. Len(Q[s]) : Q[s][i] # <<"remove", f>>
    BY <1>1, TailOk
  <1>3. /\ posted[s] \in Seq(Callbacks) /\ Tail(posted[s]) \in Seq(Callbacks)
        /\ 1 \in 1 .. Len(posted[s]) /\ Head(posted[s]) = posted[s][1]
    BY <1>1, TailAt DEF IInv, TypeOK
  <1>4. ASSUME NEW c \in Conns, Head(posted[s]) = <<"close", c>>, Close(c, Tail(posted[s])),
               UNCHANGED connections_
        PROVE  IInv'
    <2>1. scheduler[c] = s
      BY <1>3, <1>4 DEF IInv, ClosesOk
    <2>2. s # -1
      BY DEF Schedulers
    <2>3. QED
      BY <1>1, <1>2, <1>3, <1>4, <2>1, <2>2, CloseIInv
  <1>5. ASSUME NEW f \in Sockets, Head(posted[s]) = <<"remove", f>>, RemoveConnection(f),
               posted' = Q, UNCHANGED <<is_closed_, timers>>
        PROVE  IInv'
    <2>1. Target(f, s) /\ f \notin timers[s]
      BY <1>3, <1>5 DEF IInv, RemovalsOk
    <2>2. timers \in [Schedulers -> SUBSET Sockets]
      BY DEF IInv, TypeOK
    <2>3. connections_' = [connections_ EXCEPT ![f] = Nobody]
      BY <1>5 DEF RemoveConnection
    <2>4. UNCHANGED <<connVars, acceptVars, stopVars>>
      BY <1>1, <1>5 DEF connVars
    <2>5. RemovalsOk(posted') /\ ClosesOk(posted') /\ posted' \in [Schedulers -> Seq(Callbacks)]
          /\ \A i \in 1 .. Len(posted'[s]) : posted'[s][i] # <<"remove", f>>
      BY <1>2, <1>5
    <2>6. timers' \in [Schedulers -> SUBSET Sockets] /\ f \notin timers'[s]
          /\ \A t \in Schedulers : timers'[t] \subseteq timers[t]
      BY <2>1, <2>2, <1>5
    <2>7. QED
      BY <1>1, <2>1, <2>3, <2>4, <2>5, <2>6, RemoveIInv
  <1>6. QED
    BY <1>4, <1>5 DEF RunPosted

LEMMA RunTimerIInv ==
    ASSUME IInv, NEW s \in Schedulers, NEW f \in Sockets, RunTimer(s, f)
    PROVE  IInv'
  <1>1. /\ f \in timers[s] /\ connections_' = [connections_ EXCEPT ![f] = Nobody]
        /\ timers' = [timers EXCEPT ![s] = @ \ {f}]
        /\ posted' = posted /\ draining' = draining
        /\ UNCHANGED <<connVars, acceptVars, stopVars>>
    BY DEF RunTimer, RemoveConnection
  <1>2. /\ timers \in [Schedulers -> SUBSET Sockets]
        /\ posted \in [Schedulers -> Seq(Callbacks)] /\ draining \subseteq Schedulers
    BY DEF IInv, TypeOK
  <1>3. Target(f, s)
    BY <1>1 DEF IInv, TimersOk
  <1>4. \A i \in 1 .. Len(posted[s]) : posted[s][i] # <<"remove", f>>
    BY <1>1 DEF IInv, RemovalsOk
  <1>5. /\ timers' \in [Schedulers -> SUBSET Sockets] /\ f \notin timers'[s]
        /\ \A t \in Schedulers : timers'[t] \subseteq timers[t]
    BY <1>1, <1>2
  <1>6. /\ posted' \in [Schedulers -> Seq(Callbacks)] /\ draining' \subseteq Schedulers
        /\ \A i \in 1 .. Len(posted'[s]) : posted'[s][i] # <<"remove", f>>
    BY <1>1, <1>2, <1>4
  <1>7. RemovalsOk(posted') /\ ClosesOk(posted')
    BY <1>1 DEF IInv
  <1>8. QED
    BY <1>1, <1>3, <1>5, <1>6, <1>7, RemoveIInv

LEMMA DisconnectIInv ==
    ASSUME IInv, NEW c \in Conns, Disconnect(c)
    PROVE  IInv'
  <1> DEFINE s == scheduler[c]
             item == <<"close", c>>
  <1>1. /\ c \in todo /\ todo' = todo \ {c}
        /\ posted' = [posted EXCEPT ![s] =
               IF Len(posted[s]) < MaxPosted THEN Append(posted[s], item) ELSE posted[s]]
        /\ UNCHANGED <<connections_, socket, scheduler, is_closed_, informed, index_, listening,
                       acceptPc, accepted, stopPc, draining, timers>>
    BY DEF Disconnect, connVars, acceptVars
  <1>2. /\ s \in Schedulers /\ item \in Callbacks
        /\ posted \in [Schedulers -> Seq(Callbacks)] /\ posted[s] \in Seq(Callbacks)
    BY <1>1 DEF IInv, Fresh, TypeOK, Callbacks
  <1>3. OpenIsListed' /\ OwnSocket' /\ Accepting' /\ Fresh' /\ TimersOk'
    <2>1. \A g \in Sockets, t \in Schedulers : Target(g, t) => Target(g, t)'
      BY <1>1 DEF Target
    <2>2. QED
      BY <1>1, <2>1 DEF IInv, OpenIsListed, OwnSocket, Accepting, Fresh, TimersOk, TypeOK
  <1>4. CASE posted' = posted
    <2>1. TypeOK'
      BY <1>1, <1>4 DEF IInv, TypeOK
    <2>2. \A g \in Sockets, t \in Schedulers : Target(g, t) => Target(g, t)'
      BY <1>1 DEF Target
    <2>3. RemovalsOk(posted)'
      BY <1>1, <1>4, <2>2 DEF IInv, RemovalsOk
    <2>4. ClosesOk(posted)'
      BY <1>1, <1>4 DEF IInv, ClosesOk
    <2>5. QED
      BY <1>3, <2>1, <2>3, <2>4 DEF IInv
  <1>5. CASE posted' = [posted EXCEPT ![s] = Append(posted[s], item)]
    <2>1. /\ posted'[s] = Append(posted[s], item) /\ Len(posted'[s]) = Len(posted[s]) + 1
          /\ Len(posted[s]) \in Nat /\ posted'[s] \in Seq(Callbacks)
          /\ \A i \in 1 .. Len(posted[s]) : posted'[s][i] = posted[s][i]
          /\ posted'[s][Len(posted[s]) + 1] = item
          /\ \A t \in Schedulers \ {s} : posted'[t] = posted[t]
      BY <1>5, <1>2, AppendAt
    <2>2. TypeOK'
      <3>1. posted' \in [Schedulers -> Seq(Callbacks)]
        BY <1>2, <1>5, <2>1
      <3>2. QED
        BY <1>1, <3>1 DEF IInv, TypeOK
    <2>3. ASSUME NEW t \in Schedulers, NEW i \in 1 .. Len(posted'[t]), NEW g \in Sockets,
                 posted'[t][i] = <<"remove", g>>
          PROVE  i \in 1 .. Len(posted[t]) /\ posted[t][i] = <<"remove", g>>
      <3>1. CASE t # s
        BY <2>1, <2>3, <3>1
      <3>2. CASE t = s
        <4>1. i # Len(posted[s]) + 1
          BY <2>1, <2>3, <3>2
        <4>2. i \in 1 .. Len(posted[s]) + 1
          BY <2>1, <3>2
        <4>3. i \in 1 .. Len(posted[s])
          BY <2>1, <4>1, <4>2
        <4>4. QED
          BY <2>1, <2>3, <3>2, <4>3
      <3>3. QED
        BY <3>1, <3>2
    <2>4. RemovalsOk(posted)'
      <3> SUFFICES ASSUME NEW t \in Schedulers, NEW i \in 1 .. Len(posted'[t]), NEW g \in Sockets,
                          posted'[t][i] = <<"remove", g>>
                   PROVE  /\ Target(g, t)' /\ g \notin timers'[t]
                          /\ \A j \in 1 .. Len(posted'[t]) : posted'[t][j] = <<"remove", g>> => j = i
        BY <1>1 DEF RemovalsOk, Schedulers
      <3>1. i \in 1 .. Len(posted[t]) /\ posted[t][i] = <<"remove", g>>
        BY <2>3
      <3>2. /\ Target(g, t) /\ g \notin timers[t]
            /\ \A j \in 1 .. Len(posted[t]) : posted[t][j] = <<"remove", g>> => j = i
        BY <3>1 DEF IInv, RemovalsOk
      <3>3. Target(g, t)' /\ g \notin timers'[t]
        BY <3>2, <1>1 DEF Target
      <3>4. QED
        BY <3>2, <3>3, <2>3
    <2>5. ClosesOk(posted)'
      <3> SUFFICES ASSUME NEW t \in Schedulers, NEW i \in 1 .. Len(posted'[t]), NEW d \in Conns,
                          posted'[t][i] = <<"close", d>>
                   PROVE  scheduler[d] = t
        BY <1>1 DEF ClosesOk, Schedulers
      <3>1. CASE t = s /\ i = Len(posted[s]) + 1
        BY <2>1, <3>1
      <3>2. CASE t = s /\ i # Len(posted[s]) + 1
        <4>1. i \in 1 .. Len(posted[s]) + 1
          BY <2>1, <3>2
        <4>2. i \in 1 .. Len(posted[s])
          BY <2>1, <3>2, <4>1
        <4>3. posted[s][i] = <<"close", d>>
          BY <2>1, <3>2, <4>2
        <4>4. QED
          BY <4>2, <4>3, <3>2, <1>2 DEF IInv, ClosesOk
      <3>3. CASE t # s
        <4>1. posted'[t] = posted[t]
          BY <2>1, <3>3
        <4>2. i \in 1 .. Len(posted[t]) /\ posted[t][i] = <<"close", d>>
          BY <4>1
        <4>3. QED
          BY <4>2 DEF IInv, ClosesOk
      <3>4. QED
        BY <3>1, <3>2, <3>3
    <2>6. QED
      BY <1>3, <2>2, <2>4, <2>5 DEF IInv
  <1>6. posted' = posted \/ posted' = [posted EXCEPT ![s] = Append(posted[s], item)]
    <2>1. CASE Len(posted[s]) < MaxPosted
      BY <1>1, <2>1
    <2>2. CASE ~(Len(posted[s]) < MaxPosted)
      BY <1>1, <1>2, <2>2
    <2>3. QED
      BY <2>1, <2>2
  <1>7. QED
    BY <1>4, <1>5, <1>6

LEMMA AcceptIInv ==
    ASSUME IInv, AcceptStep
    PROVE  IInv'
  <1>1. ASSUME AddConnection PROVE IInv'
    <2> DEFINE f == socket[accepted]
    <2>1. /\ acceptPc = "add" /\ accepted \in Conns /\ accepted # Nobody /\ f \in Sockets
          /\ connections_[f] = Nobody /\ scheduler[accepted] # -1
      BY <1>1 DEF AddConnection, IInv, Accepting, TypeOK
    <2>2. /\ connections_' = [connections_ EXCEPT ![f] = accepted] /\ acceptPc' = "inform"
          /\ UNCHANGED <<socket, scheduler, is_closed_, informed, index_, listening,
                         accepted, stopPc, todo, posted, draining, timers>>
      BY <1>1, <2>1 DEF AddConnection, connVars, stopVars, loopVars
    <2>3. /\ connections_ \in [Sockets -> Conns \cup {Nobody}]
          /\ connections_' \in [Sockets -> Conns \cup {Nobody}]
          /\ connections_'[f] = accepted
          /\ \A g \in Sockets \ {f} : connections_'[g] = connections_[g]
      BY <2>1, <2>2 DEF IInv, TypeOK
    <2>4. \A g \in Sockets, t \in Schedulers : Target(g, t) => Target(g, t)'
      BY <2>1, <2>2, <2>3 DEF Target
    <2>5. TypeOK'
      BY <2>2, <2>3 DEF IInv, TypeOK
    <2>6. OpenIsListed'
      BY <2>1, <2>2, <2>3 DEF IInv, OpenIsListed, TypeOK
    <2>7. OwnSocket' /\ Accepting' /\ Fresh'
      BY <2>1, <2>2, <2>3 DEF IInv, OwnSocket, Accepting, Fresh
    <2>8. RemovalsOk(posted)'
      BY <2>2, <2>4 DEF IInv, RemovalsOk
    <2>9. ClosesOk(posted)' /\ TimersOk'
      BY <2>2, <2>4 DEF IInv, ClosesOk, TimersOk, TypeOK
    <2>10. QED
      BY <2>5, <2>6, <2>7, <2>8, <2>9 DEF IInv
  <1>2. ASSUME SetDisconnectCallback PROVE IInv'
    <2>1. /\ acceptPc = "inform" /\ accepted \in Conns /\ scheduler[accepted] # -1
          /\ connections_[socket[accepted]] = accepted
      BY <1>2 DEF SetDisconnectCallback, IInv, Accepting, TypeOK
    <2>2. /\ informed' = informed \cup {accepted} /\ acceptPc' = "idle" /\ accepted' = Nobody
          /\ UNCHANGED <<connections_, socket, scheduler, is_closed_, index_, listening,
                         stopPc, todo, posted, draining, timers>>
      BY <1>2 DEF SetDisconnectCallback, stopVars, loopVars
    <2>3. \A g \in Sockets, t \in Schedulers : Target(g, t) => Target(g, t)'
      BY <2>2 DEF Target
    <2>4. TypeOK'
      BY <2>1, <2>2 DEF IInv, TypeOK
    <2>5. OpenIsListed' /\ OwnSocket' /\ Accepting' /\ Fresh'
      BY <2>1, <2>2 DEF IInv, OpenIsListed, OwnSocket, Accepting, Fresh
    <2>6. RemovalsOk(posted)'
      BY <2>2, <2>3 DEF IInv, RemovalsOk
    <2>7. ClosesOk(posted)' /\ TimersOk'
      BY <2>2, <2>3 DEF IInv, ClosesOk, TimersOk, TypeOK
    <2>8. QED
      BY <2>4, <2>5, <2>6, <2>7 DEF IInv
  <1>3. QED
    BY <1>1, <1>2 DEF AcceptStep

LEMMA NextIInv == IInv /\ [Next]_vars => IInv'
  <1> SUFFICES ASSUME IInv, [Next]_vars PROVE IInv'
    OBVIOUS
  <1>1. ASSUME NEW c \in Conns, HandleClose(c) PROVE IInv'
    <2> DEFINE s == scheduler[c]
    <2>1. /\ s # -1 /\ s \in Schedulers /\ posted \in [Schedulers -> Seq(Callbacks)]
          /\ Close(c, posted[s]) /\ draining' \subseteq Schedulers
          /\ UNCHANGED <<connections_, socket, scheduler, informed, acceptVars, stopVars>>
      BY <1>1 DEF HandleClose, IInv, TypeOK
    <2>2. [posted EXCEPT ![s] = posted[s]] = posted /\ posted[s] \in Seq(Callbacks)
      BY <2>1
    <2>3. /\ RemovalsOk([posted EXCEPT ![s] = posted[s]])
          /\ ClosesOk([posted EXCEPT ![s] = posted[s]])
      BY <2>2 DEF IInv
    <2>4. QED
      BY <2>1, <2>2, <2>3, CloseIInv
  <1>2. ASSUME Start \/ LockAndList \/ Unlock \/ CloseAcceptor \/ SeeEmpty \/ UNCHANGED vars
        PROVE IInv'
    <2>1. /\ UNCHANGED <<connections_, socket, scheduler, is_closed_, informed, index_, acceptPc,
                         accepted, posted, draining, timers>>
          /\ listening' \in BOOLEAN
          /\ stopPc' \in {"stopped", "started", "disconnecting", "closing", "waiting"}
          /\ todo' = todo \/ todo' = Listed
      BY <1>2 DEF Start, LockAndList, Unlock, CloseAcceptor, SeeEmpty, vars, connVars, acceptVars,
                  stopVars, loopVars, IInv, TypeOK
    <2>2. \A c \in Listed : c \in Conns /\ scheduler[c] # -1
      BY DEF Listed, IInv, OwnSocket
    <2>3. TypeOK' /\ Fresh'
      BY <2>1, <2>2 DEF IInv, TypeOK, Fresh
    <2>4. \A g \in Sockets, t \in Schedulers : Target(g, t) => Target(g, t)'
      BY <2>1 DEF Target
    <2>5. OpenIsListed' /\ OwnSocket' /\ Accepting'
      BY <2>1 DEF IInv, OpenIsListed, OwnSocket, Accepting
    <2>6. RemovalsOk(posted)'
      BY <2>1, <2>4 DEF IInv, RemovalsOk
    <2>7. ClosesOk(posted)' /\ TimersOk'
      BY <2>1, <2>4 DEF IInv, ClosesOk, TimersOk, TypeOK
    <2>8. QED
      BY <2>3, <2>5, <2>6, <2>7 DEF IInv
  <1>3. QED
    BY <1>1, <1>2, OnConnectIInv, RunPostedIInv, RunTimerIInv, DisconnectIInv, AcceptIInv
    DEF Next, SchedulerStep, StopStep

LEMMA AlwaysIInv == Spec => []IInv
  BY InitIInv, NextIInv, PTL DEF Spec

(* Every variable keeps its type; in particular index_ stays in range.     *)
THEOREM TypeCorrect == Spec => []TypeOK
  <1>1. IInv => TypeOK
    BY DEF IInv
  <1>2. QED
    BY <1>1, AlwaysIInv, PTL

(* A connection that is open is the entry of its socket: RemoveConnection  *)
(* never takes out the connection that came after on the same number.      *)
THEOREM RemovalHitsItsOwn == Spec => []OpenIsListed
  <1>1. IInv => OpenIsListed
    BY DEF IInv
  <1>2. QED
    BY <1>1, AlwaysIInv, PTL

-----------------------------------------------------------------------------
(* Stop has closed the acceptor before it waits. *)
NobodyComes == stopPc \in {"waiting", "stopped"} => ~listening /\ acceptPc = "idle"

LEMMA ClosedStaysClosed ==
    ASSUME TypeOK, NEW c \in Conns, is_closed_[c],
           NEW d \in Conns, NEW queue, Close(d, queue)
    PROVE  is_closed_'[c]
  BY DEF TypeOK, Close

LEMMA NextStopped ==
    ASSUME IInv, NobodyComes, StoppedMeansClosed, [Next]_vars
    PROVE  NobodyComes' /\ StoppedMeansClosed'
  <1>1. CASE \E c \in Conns, f \in Sockets, s \in Schedulers : OnConnect(c, f, s)
    BY <1>1 DEF OnConnect, stopVars, NobodyComes, StoppedMeansClosed
  <1>2. CASE (\E c \in Conns : HandleClose(c)) \/ (\E s \in Schedulers : RunPosted(s))
    <2>1. /\ UNCHANGED <<scheduler, listening, acceptPc, stopPc>>
          /\ \/ is_closed_' = is_closed_
             \/ \E d \in Conns : Close(d, posted[scheduler[d]])
             \/ \E d \in Conns, s \in Schedulers : Close(d, Tail(posted[s]))
      BY <1>2 DEF HandleClose, RunPosted, acceptVars, stopVars
    <2>2. \A c \in Conns : is_closed_[c] => is_closed_'[c]
      BY <2>1, ClosedStaysClosed DEF IInv
    <2>3. QED
      BY <2>1, <2>2 DEF NobodyComes, StoppedMeansClosed
  <1>3. CASE \/ \E s \in Schedulers, f \in Sockets : RunTimer(s, f)
             \/ AcceptStep \/ (\E c \in Conns : Disconnect(c)) \/ Start \/ LockAndList
             \/ Unlock \/ CloseAcceptor \/ UNCHANGED vars
    <2>1. UNCHANGED <<scheduler, is_closed_>>
      BY <1>3 DEF RunTimer, AcceptStep, AddConnection, SetDisconnectCallback, Disconnect, Start,
         LockAndList, Unlock, CloseAcceptor, vars, connVars
    <2>2. stopPc' = "stopped" => stopPc = "stopped"
      BY <1>3 DEF RunTimer, AcceptStep, AddConnection, SetDisconnectCallback, Disconnect, Start,
         LockAndList, Unlock, CloseAcceptor, vars, stopVars
    <2>3. NobodyComes'
      BY <1>3 DEF RunTimer, AcceptStep, AddConnection, SetDisconnectCallback, Disconnect, Start,
         LockAndList, Unlock, CloseAcceptor, vars, stopVars, acceptVars, NobodyComes
    <2>4. QED
      BY <2>1, <2>2, <2>3 DEF StoppedMeansClosed
  <1>4. CASE SeeEmpty
    <2>1. stopPc = "waiting" /\ Listed = {} /\ UNCHANGED <<scheduler, is_closed_, listening, acceptPc>>
      BY <1>4 DEF SeeEmpty, connVars, acceptVars
    <2>2. accepted = Nobody
      BY <2>1 DEF NobodyComes, IInv, Accepting
    <2>3. ASSUME NEW c \in Conns, scheduler[c] # -1 PROVE is_closed_[c]
      <3>1. connections_[socket[c]] # c
        BY <2>1 DEF Listed, IInv, TypeOK
      <3>2. QED
        BY <2>2, <2>3, <3>1 DEF IInv, OpenIsListed
    <2>4. QED
      BY <2>1, <2>3 DEF NobodyComes, StoppedMeansClosed
  <1>5. QED
    BY <1>1, <1>2, <1>3, <1>4 DEF Next, SchedulerStep, StopStep

(* When Stop has returned every connection has closed, those included that *)
(* were accepted while it disconnected the others.                         *)
THEOREM StopClosesAll == Spec => []StoppedMeansClosed
  <1>1. Init => NobodyComes /\ StoppedMeansClosed
    BY DEF Init, NobodyComes, StoppedMeansClosed
  <1>2. IInv /\ NobodyComes /\ StoppedMeansClosed /\ [Next]_vars
            => NobodyComes' /\ StoppedMeansClosed'
    BY NextStopped
  <1>3. QED
    BY <1>1, <1>2, AlwaysIInv, PTL DEF Spec

-----------------------------------------------------------------------------
(***************************************************************************)
(* SipServer.                                                              *)
(***************************************************************************)

(***************************************************************************)
(* Sequences.                                                              *)
(***************************************************************************)

(* t has elements of s only, each place of s at most once.                 *)
Thinned(s, t) ==
    \E f \in [1 .. Len(t) -> 1 .. Len(s)] :
        /\ \A i, j \in 1 .. Len(t) : f[i] = f[j] => i = j
        /\ \A i \in 1 .. Len(t) : t[i] = s[f[i]]

LEMMA InSequence ==
    ASSUME NEW S, NEW s \in Seq(S)
    PROVE  \A x : x \in ToSet(s) <=> \E i \in 1 .. Len(s) : x = s[i]
  <1>1. DOMAIN s = 1 .. Len(s)
    OBVIOUS
  <1>2. QED
    BY <1>1 DEF ToSet

LEMMA PopFacts ==
    ASSUME NEW S, NEW s \in Seq(S), s # <<>>
    PROVE  /\ Head(s) \in S /\ Head(s) = s[1] /\ Len(s) \in Nat \ {0}
           /\ Tail(s) \in Seq(S) /\ Len(Tail(s)) = Len(s) - 1
           /\ \A i \in 1 .. Len(s) - 1 : Tail(s)[i] = s[i + 1]
  OBVIOUS

LEMMA AppendFacts ==
    ASSUME NEW S, NEW s \in Seq(S), NEW e \in S
    PROVE  /\ Append(s, e) \in Seq(S) /\ Len(s) \in Nat /\ Len(Append(s, e)) = Len(s) + 1
           /\ \A i \in 1 .. Len(s) : Append(s, e)[i] = s[i]
           /\ Append(s, e)[Len(s) + 1] = e
  OBVIOUS

LEMMA AppendSet ==
    ASSUME NEW S, NEW s \in Seq(S), NEW e \in S
    PROVE  ToSet(Append(s, e)) = ToSet(s) \cup {e}
  <1>1. PICK n \in Nat : n = Len(s)
    BY AppendFacts
  <1>2. PICK t \in Seq(S) : t = Append(s, e)
    BY AppendFacts
  <1>3. /\ Len(t) = n + 1 /\ t[n + 1] = e
        /\ \A i \in 1 .. n : t[i] = s[i]
    BY <1>1, <1>2, AppendFacts
  <1>4. \A x : x \in ToSet(t) <=> \E i \in 1 .. n + 1 : x = t[i]
    <2>1. \A x : x \in ToSet(t) <=> \E i \in 1 .. Len(t) : x = t[i]
      BY <1>2, InSequence
    <2>2. Len(t) = n + 1
      BY <1>3
    <2>3. QED
      BY <2>1, <2>2
  <1>5. \A x : x \in ToSet(s) <=> \E i \in 1 .. n : x = s[i]
    BY <1>1, InSequence
  <1>6. \A i : i \in 1 .. n + 1 <=> i \in 1 .. n \/ i = n + 1
    OBVIOUS
  <1>7. \A x : x \in ToSet(t) <=> x \in ToSet(s) \/ x = e
    BY <1>3, <1>4, <1>5, <1>6
  <1>8. QED
    BY <1>2, <1>7

LEMMA ThinnedSet ==
    ASSUME NEW S, NEW s \in Seq(S), NEW t \in Seq(S), Thinned(s, t)
    PROVE  ToSet(t) \subseteq ToSet(s)
  BY InSequence DEF Thinned

LEMMA ThinnedPlaces ==
    ASSUME NEW s, NEW t, Thinned(s, t)
    PROVE  \A i \in 1 .. Len(t) : \E j \in 1 .. Len(s) : t[i] = s[j]
  BY DEF Thinned

LEMMA ThinnedSame ==
    ASSUME NEW S, NEW s \in Seq(S)
    PROVE  Thinned(s, s)
  <1> DEFINE f == [i \in 1 .. Len(s) |-> i]
  <1>1. f \in [1 .. Len(s) -> 1 .. Len(s)]
    OBVIOUS
  <1>2. QED
    BY <1>1 DEF Thinned

LEMMA ThinnedTail ==
    ASSUME NEW S, NEW s \in Seq(S), s # <<>>
    PROVE  Thinned(s, Tail(s))
  <1>1. PICK n \in Nat \ {0} : n = Len(s)
    BY PopFacts
  <1>2. PICK t \in Seq(S) : t = Tail(s)
    BY PopFacts
  <1>3. Len(t) = n - 1 /\ \A i \in 1 .. n - 1 : t[i] = s[i + 1]
    BY <1>1, <1>2, PopFacts
  <1> DEFINE f == [i \in 1 .. n - 1 |-> i + 1]
  <1>4. f \in [1 .. n - 1 -> 1 .. n]
    OBVIOUS
  <1>5. /\ \A i, j \in 1 .. n - 1 : f[i] = f[j] => i = j
        /\ \A i \in 1 .. n - 1 : t[i] = s[f[i]]
    BY <1>3
  <1> HIDE DEF f
  <1>6. Len(t) = n - 1 /\ Len(s) = n
    BY <1>1, <1>3
  <1>7. /\ f \in [1 .. Len(t) -> 1 .. Len(s)]
        /\ \A i, j \in 1 .. Len(t) : f[i] = f[j] => i = j
        /\ \A i \in 1 .. Len(t) : t[i] = s[f[i]]
    BY <1>4, <1>5, <1>6
  <1>8. Thinned(s, t)
    BY <1>7, Zenon DEF Thinned
  <1>9. QED
    BY <1>2, <1>8

LEMMA ThinnedRemoved ==
    ASSUME NEW S, NEW s \in Seq(S), NEW i \in 1 .. Len(s)
    PROVE  RemoveAt(s, i) \in Seq(S) /\ Thinned(s, RemoveAt(s, i))
  <1>1. PICK n \in Nat : n = Len(s)
    OBVIOUS
  <1>2. i \in 1 .. n /\ i - 1 \in Nat /\ n - i \in Nat
    BY <1>1
  <1>3. /\ SubSeq(s, 1, i - 1) \in Seq(S) /\ Len(SubSeq(s, 1, i - 1)) = i - 1
        /\ \A j \in 1 .. i - 1 : SubSeq(s, 1, i - 1)[j] = s[j]
    <2>1. \A j \in 1 .. i - 1 : s[j] \in S
      BY <1>1, <1>2
    <2>2. QED
      BY <1>1, <1>2, <2>1, SubSeqProperties
  <1>4. /\ SubSeq(s, i + 1, n) \in Seq(S) /\ Len(SubSeq(s, i + 1, n)) = n - i
        /\ \A j \in 1 .. n - i : SubSeq(s, i + 1, n)[j] = s[i + j]
    <2>1. \A j \in i + 1 .. n : s[j] \in S
      BY <1>1, <1>2
    <2>2. CASE i + 1 <= n + 1
      BY <1>1, <1>2, <2>1, <2>2, SubSeqProperties
    <2>3. QED
      BY <1>2, <2>2
  <1>5. PICK a \in Seq(S) : a = SubSeq(s, 1, i - 1)
    BY <1>3
  <1>6. PICK b \in Seq(S) : b = SubSeq(s, i + 1, n)
    BY <1>4
  <1>7. PICK t : t = a \o b
    OBVIOUS
  <1>8. /\ t \in Seq(S) /\ Len(t) = n - 1
        /\ \A j \in 1 .. n - 1 : t[j] = IF j < i THEN s[j] ELSE s[j + 1]
    <2>1. Len(a) = i - 1 /\ Len(b) = n - i
      BY <1>3, <1>4, <1>5, <1>6
    <2>2. t \in Seq(S) /\ Len(t) = n - 1
      <3>1. t \in Seq(S) /\ Len(t) = Len(a) + Len(b)
        BY <1>5, <1>6, <1>7, ConcatProperties
      <3>2. QED
        BY <1>2, <2>1, <3>1
    <2>3. \A j \in 1 .. n - 1 : j < i => t[j] = a[j] /\ a[j] = s[j]
      BY <1>2, <1>3, <1>5, <1>7, <2>1
    <2>4. \A j \in 1 .. n - 1 : ~(j < i) => t[j] = b[j - (i - 1)] /\ b[j - (i - 1)] = s[j + 1]
      <3>1. TAKE j \in 1 .. n - 1
      <3>2. HAVE ~(j < i)
      <3>3. j - (i - 1) \in 1 .. n - i /\ i + (j - (i - 1)) = j + 1
        BY <1>2, <3>2
      <3>4. b[j - (i - 1)] = s[j + 1]
        BY <1>4, <1>6, <3>3
      <3>5. t[j] = b[j - (i - 1)]
        BY <1>2, <1>7, <2>1, <3>2
      <3>6. QED
        BY <3>4, <3>5
    <2>5. QED
      BY <2>2, <2>3, <2>4
  <1> DEFINE f == [j \in 1 .. n - 1 |-> IF j < i THEN j ELSE j + 1]
  <1>9. f \in [1 .. n - 1 -> 1 .. n]
    BY <1>2
  <1>10. /\ \A j, l \in 1 .. n - 1 : f[j] = f[l] => j = l
         /\ \A j \in 1 .. n - 1 : t[j] = s[f[j]]
    BY <1>2, <1>8
  <1> HIDE DEF f
  <1>11. Thinned(s, t)
    <2>1. Len(s) = n /\ Len(t) = n - 1
      BY <1>1, <1>8
    <2>2. /\ f \in [1 .. Len(t) -> 1 .. Len(s)]
          /\ \A j, l \in 1 .. Len(t) : f[j] = f[l] => j = l
          /\ \A j \in 1 .. Len(t) : t[j] = s[f[j]]
      BY <1>9, <1>10, <2>1
    <2>3. QED
      BY <2>2, Zenon DEF Thinned
  <1>12. RemoveAt(s, i) = t
    BY <1>1, <1>5, <1>6, <1>7 DEF RemoveAt
  <1>13. QED
    BY <1>8, <1>11, <1>12

LEMMA ThinnedOvertaken ==
    ASSUME NEW S, NEW s \in Seq(S), NEW i \in 1 .. Len(s) - 1
    PROVE  Overtaken(s, i) \in Seq(S) /\ Thinned(s, Overtaken(s, i))
  <1>1. PICK n \in Nat : n = Len(s)
    OBVIOUS
  <1>2. i \in 1 .. n /\ i + 1 \in 1 .. n
    BY <1>1
  <1>3. PICK t : t = Overtaken(s, i)
    OBVIOUS
  <1>4. /\ t \in Seq(S) /\ Len(t) = n
        /\ \A j \in 1 .. n : t[j] = IF j = i THEN s[i + 1] ELSE IF j = i + 1 THEN s[i] ELSE s[j]
    <2>1. s[i] \in S /\ s[i + 1] \in S
      BY <1>1, <1>2
    <2>2. s \in [1 .. n -> S]
      BY <1>1
    <2>3. t \in [1 .. n -> S]
      BY <1>2, <1>3, <2>1, <2>2 DEF Overtaken
    <2>4. t \in Seq(S) /\ Len(t) = n
      BY <2>3
    <2>5. \A j \in 1 .. n : t[j] = IF j = i THEN s[i + 1] ELSE IF j = i + 1 THEN s[i] ELSE s[j]
      BY <1>2, <1>3, <2>2 DEF Overtaken
    <2>6. QED
      BY <2>4, <2>5
  <1> DEFINE f == [j \in 1 .. n |-> IF j = i THEN i + 1 ELSE IF j = i + 1 THEN i ELSE j]
  <1>5. f \in [1 .. n -> 1 .. n]
    BY <1>2
  <1>6. /\ \A j, l \in 1 .. n : f[j] = f[l] => j = l
        /\ \A j \in 1 .. n : t[j] = s[f[j]]
    BY <1>2, <1>4
  <1> HIDE DEF f
  <1>7. Thinned(s, t)
    <2>1. Len(s) = n /\ Len(t) = n
      BY <1>1, <1>4
    <2>2. /\ f \in [1 .. Len(t) -> 1 .. Len(s)]
          /\ \A j, l \in 1 .. Len(t) : f[j] = f[l] => j = l
          /\ \A j \in 1 .. Len(t) : t[j] = s[f[j]]
      BY <1>5, <1>6, <2>1
    <2>3. QED
      BY <2>2, Zenon DEF Thinned
  <1>8. QED
    BY <1>3, <1>4, <1>7

(* A disturbance loses a message or lets one overtake its predecessor.      *)
LEMMA DisturbanceThins ==
    ASSUME NEW S, NEW s \in Seq(S), NEW t \in Disturbances(s)
    PROVE  t \in Seq(S) /\ Thinned(s, t)
  BY ThinnedRemoved, ThinnedOvertaken DEF Disturbances

(***************************************************************************)
(* What a phone sends, and what the server sends to it.                    *)
(***************************************************************************)
Methods == {"REGISTER", "INVITE", "CANCEL", "ACK", "BYE"}
Finals == {"OK", "Busy", "Unavailable", "RequestTerminated"}
Types == Methods \cup Finals \cup {"UNREGISTER", "Trying", "Ringing", "NotFound"}

Messages ==
    [type : Types, method : Methods, call : Calls \cup {"registration"},
     from : Phones, to : Phones, sdp : BOOLEAN]

Queues == [Phones -> Seq(Messages)]

(* A queue without its first message, and with one message more.          *)
Popped(u, p) == [u EXCEPT ![p] = Tail(@)]
Added(u, p, m) == [u EXCEPT ![p] = Append(@, m)]

(* Whose request a message of a call belongs to.                           *)
ByCaller(m) == m.call \in Calls /\ m.from = Caller[m.call] /\ m.to = Called[m.call]
ByCalled(m) == m.call \in Calls /\ m.from = Called[m.call] /\ m.to = Caller[m.call]

Registers(p, m) ==
    m.method = "REGISTER" /\ m.type \in {"REGISTER", "UNREGISTER"} /\ m.from = p

CallerRequests(p, m) ==
    ByCaller(m) /\ p = m.from /\ m.type = m.method /\ m.method \in {"INVITE", "CANCEL", "ACK", "BYE"}

CalledAnswers(p, m) ==
    /\ ByCaller(m) /\ p = m.to
    /\ \/ m.method = "INVITE" /\ m.type \in {"Trying", "Ringing"} \cup Finals
       \/ m.method \in {"CANCEL", "BYE"} /\ m.type = "OK"

CalledHangUp(p, m) ==
    /\ ByCalled(m) /\ m.method = "BYE"
    /\ \/ p = m.from /\ m.type = "BYE"
       \/ p = m.to /\ m.type = "OK"

UpMessage(p, m) ==
    Registers(p, m) \/ CallerRequests(p, m) \/ CalledAnswers(p, m) \/ CalledHangUp(p, m)

(* The server passes a message on to the other party, or sends it back as  *)
(* a NotFound.                                                             *)
DownMessage(p, m) ==
    \/ m.method = "REGISTER"
    \/ ByCaller(m) /\ CallerRequests(m.from, m) /\ p = m.to
    \/ ByCaller(m) /\ CalledAnswers(m.to, m) /\ p = m.from
    \/ ByCalled(m) /\ m.method = "BYE" /\ m.type = "BYE" /\ p = m.to
    \/ ByCalled(m) /\ m.method = "BYE" /\ m.type = "OK" /\ p = m.from
    \/ /\ ByCaller(m) /\ p \in {m.from, m.to} /\ m.type = "NotFound"
       /\ m.method \in {"INVITE", "CANCEL", "ACK", "BYE"}
    \/ ByCalled(m) /\ p \in {m.from, m.to} /\ m.type = "NotFound" /\ m.method = "BYE"

CallerStates == {"idle", "inviting", "proceeding", "cancelling", "up", "leaving", "dropping", "over"}
CalledStates == {"idle", "trying", "ringing", "answered", "refused", "up", "leaving", "over"}

(* The types of what SipTypeOK leaves out, and which messages are where.   *)
Placed ==
    /\ up \in Queues /\ down \in Queues
    /\ caller \in [Calls -> CallerStates] /\ called \in [Calls -> CalledStates]
    /\ \A p \in Phones : \A m \in ToSet(up[p]) : UpMessage(p, m)
    /\ \A p \in Phones : \A m \in ToSet(down[p]) : DownMessage(p, m)

(***************************************************************************)
(* The messages of a call of which there is at most one on its way: its    *)
(* offer, that is, the INVITE or a final answer to it, the ACK, and the    *)
(* BYE of each party.  A NotFound is an answer to the caller's INVITE, and *)
(* otherwise a message that came back to its sender.                       *)
(***************************************************************************)
Sole == {"offer", "ack", "callerBye", "calledBye"}

InUp(k, c, m) ==
    /\ m.call = k
    /\ \/ c = "offer" /\ m.method = "INVITE" /\ m.type \in {"INVITE"} \cup Finals
       \/ c = "ack" /\ m.method = "ACK" /\ m.type = "ACK"
       \/ c = "callerBye" /\ m.method = "BYE" /\ m.type = "BYE" /\ m.from = Caller[k]
       \/ c = "calledBye" /\ m.method = "BYE" /\ m.type = "BYE" /\ m.from = Called[k]

InDown(k, c, p, m) ==
    \/ InUp(k, c, m)
    \/ m.call = k /\ c = "offer" /\ m.method = "INVITE" /\ m.type = "NotFound" /\ p = Caller[k]

(* At most one in the queues u to the server and d to the phones; none.    *)
OneIn(k, c, u, d) ==
    /\ \A p, r \in Phones : \A i \in 1 .. Len(u[p]), j \in 1 .. Len(u[r]) :
          InUp(k, c, u[p][i]) /\ InUp(k, c, u[r][j]) => p = r /\ i = j
    /\ \A p, r \in Phones : \A i \in 1 .. Len(d[p]), j \in 1 .. Len(d[r]) :
          InDown(k, c, p, d[p][i]) /\ InDown(k, c, r, d[r][j]) => p = r /\ i = j
    /\ \A p, r \in Phones : \A i \in 1 .. Len(u[p]), j \in 1 .. Len(d[r]) :
          ~(InUp(k, c, u[p][i]) /\ InDown(k, c, r, d[r][j]))

NoneIn(k, c, u, d) ==
    /\ \A p \in Phones : \A i \in 1 .. Len(u[p]) : ~InUp(k, c, u[p][i])
    /\ \A p \in Phones : \A i \in 1 .. Len(d[p]) : ~InDown(k, c, p, d[p][i])

LEMMA OneThinned ==
    ASSUME NEW k, NEW c, NEW u, NEW d, NEW u2, NEW d2, OneIn(k, c, u, d),
           \A p \in Phones : Thinned(u[p], u2[p]),
           \A p \in Phones : Thinned(d[p], d2[p])
    PROVE  OneIn(k, c, u2, d2)
  <1>1. ASSUME NEW p \in Phones, NEW r \in Phones,
               NEW i \in 1 .. Len(u2[p]), NEW j \in 1 .. Len(u2[r]),
               InUp(k, c, u2[p][i]), InUp(k, c, u2[r][j])
        PROVE  p = r /\ i = j
    <2>1. PICK f \in [1 .. Len(u2[p]) -> 1 .. Len(u[p])] :
              /\ \A a, b \in 1 .. Len(u2[p]) : f[a] = f[b] => a = b
              /\ \A a \in 1 .. Len(u2[p]) : u2[p][a] = u[p][f[a]]
      BY DEF Thinned
    <2>2. PICK g \in [1 .. Len(u2[r]) -> 1 .. Len(u[r])] :
              \A a \in 1 .. Len(u2[r]) : u2[r][a] = u[r][g[a]]
      BY DEF Thinned
    <2>3. /\ f[i] \in 1 .. Len(u[p]) /\ InUp(k, c, u[p][f[i]])
          /\ g[j] \in 1 .. Len(u[r]) /\ InUp(k, c, u[r][g[j]])
      BY <1>1, <2>1, <2>2
    <2>4. p = r
      BY <2>3 DEF OneIn
    <2>5. f[i] = f[j]
      <3>1. /\ f[j] \in 1 .. Len(u[p]) /\ InUp(k, c, u[p][f[j]])
        BY <1>1, <2>1, <2>4
      <3>2. QED
        BY <2>3, <3>1 DEF OneIn
    <2>6. QED
      BY <2>1, <2>4, <2>5
  <1>2. ASSUME NEW p \in Phones, NEW r \in Phones,
               NEW i \in 1 .. Len(d2[p]), NEW j \in 1 .. Len(d2[r]),
               InDown(k, c, p, d2[p][i]), InDown(k, c, r, d2[r][j])
        PROVE  p = r /\ i = j
    <2>1. PICK f \in [1 .. Len(d2[p]) -> 1 .. Len(d[p])] :
              /\ \A a, b \in 1 .. Len(d2[p]) : f[a] = f[b] => a = b
              /\ \A a \in 1 .. Len(d2[p]) : d2[p][a] = d[p][f[a]]
      BY DEF Thinned
    <2>2. PICK g \in [1 .. Len(d2[r]) -> 1 .. Len(d[r])] :
              \A a \in 1 .. Len(d2[r]) : d2[r][a] = d[r][g[a]]
      BY DEF Thinned
    <2>3. /\ f[i] \in 1 .. Len(d[p]) /\ InDown(k, c, p, d[p][f[i]])
          /\ g[j] \in 1 .. Len(d[r]) /\ InDown(k, c, r, d[r][g[j]])
      BY <1>2, <2>1, <2>2
    <2>4. p = r
      BY <2>3 DEF OneIn
    <2>5. f[i] = f[j]
      <3>1. /\ f[j] \in 1 .. Len(d[p]) /\ InDown(k, c, p, d[p][f[j]])
        BY <1>2, <2>1, <2>4
      <3>2. QED
        BY <2>3, <3>1 DEF OneIn
    <2>6. QED
      BY <2>1, <2>4, <2>5
  <1>3. ASSUME NEW p \in Phones, NEW r \in Phones,
               NEW i \in 1 .. Len(u2[p]), NEW j \in 1 .. Len(d2[r]),
               InUp(k, c, u2[p][i]), InDown(k, c, r, d2[r][j])
        PROVE  FALSE
    <2>1. PICK f \in [1 .. Len(u2[p]) -> 1 .. Len(u[p])] :
              \A a \in 1 .. Len(u2[p]) : u2[p][a] = u[p][f[a]]
      BY DEF Thinned
    <2>2. PICK g \in [1 .. Len(d2[r]) -> 1 .. Len(d[r])] :
              \A a \in 1 .. Len(d2[r]) : d2[r][a] = d[r][g[a]]
      BY DEF Thinned
    <2>3. /\ f[i] \in 1 .. Len(u[p]) /\ InUp(k, c, u[p][f[i]])
          /\ g[j] \in 1 .. Len(d[r]) /\ InDown(k, c, r, d[r][g[j]])
      BY <1>3, <2>1, <2>2
    <2>4. QED
      BY <2>3 DEF OneIn
  <1>4. QED
    BY <1>1, <1>2, <1>3 DEF OneIn

LEMMA NoneThinned ==
    ASSUME NEW k, NEW c, NEW u, NEW d, NEW u2, NEW d2, NoneIn(k, c, u, d),
           \A p \in Phones : Thinned(u[p], u2[p]),
           \A p \in Phones : Thinned(d[p], d2[p])
    PROVE  NoneIn(k, c, u2, d2)
  <1>1. ASSUME NEW p \in Phones, NEW i \in 1 .. Len(u2[p]) PROVE ~InUp(k, c, u2[p][i])
    <2>1. \E j \in 1 .. Len(u[p]) : u2[p][i] = u[p][j]
      BY ThinnedPlaces
    <2>2. QED
      BY <2>1 DEF NoneIn
  <1>2. ASSUME NEW p \in Phones, NEW i \in 1 .. Len(d2[p]) PROVE ~InDown(k, c, p, d2[p][i])
    <2>1. \E j \in 1 .. Len(d[p]) : d2[p][i] = d[p][j]
      BY ThinnedPlaces
    <2>2. QED
      BY <2>1 DEF NoneIn
  <1>3. QED
    BY <1>1, <1>2 DEF NoneIn

(* A queue without its first message.                                      *)
LEMMA PopQueue ==
    ASSUME NEW u \in Queues, NEW p \in Phones, u[p] # <<>>,
           NEW u2, u2 = Popped(u, p)
    PROVE  /\ u2 \in Queues
           /\ \A r \in Phones : Thinned(u[r], u2[r])
           /\ \A r \in Phones : ToSet(u2[r]) \subseteq ToSet(u[r])
           /\ Head(u[p]) \in ToSet(u[p]) /\ Head(u[p]) \in Messages
  <1>1. u[p] \in Seq(Messages) /\ Tail(u[p]) \in Seq(Messages) /\ Head(u[p]) \in Messages
    BY PopFacts DEF Queues, Popped
  <1>2. u2 \in Queues
    BY <1>1 DEF Queues, Popped
  <1>3. ASSUME NEW r \in Phones PROVE Thinned(u[r], u2[r])
    <2>1. CASE r = p
      BY <1>1, <2>1, ThinnedTail DEF Queues, Popped
    <2>2. CASE r # p
      BY <2>2, ThinnedSame DEF Queues, Popped
    <2>3. QED
      BY <2>1, <2>2
  <1>4. ASSUME NEW r \in Phones PROVE ToSet(u2[r]) \subseteq ToSet(u[r])
    <2>1. u[r] \in Seq(Messages) /\ u2[r] \in Seq(Messages)
      BY <1>2 DEF Queues, Popped
    <2>2. QED
      BY <1>3, <2>1, ThinnedSet
  <1>5. Head(u[p]) \in ToSet(u[p])
    <2>1. 1 \in 1 .. Len(u[p]) /\ Head(u[p]) = u[p][1]
      BY <1>1, PopFacts
    <2>2. QED
      BY <1>1, <2>1, InSequence
  <1>6. QED
    BY <1>1, <1>2, <1>3, <1>4, <1>5

(* The same messages.                                                      *)
LEMMA SameQueues ==
    ASSUME NEW u \in Queues
    PROVE  \A r \in Phones : Thinned(u[r], u[r])
  BY ThinnedSame DEF Queues, Popped

(* A sole message that is taken out of a queue was the only one.           *)
LEMMA PopUpNone ==
    ASSUME NEW k, NEW c, NEW u \in Queues, NEW d \in Queues, OneIn(k, c, u, d),
           NEW p \in Phones, u[p] # <<>>, InUp(k, c, Head(u[p])),
           NEW u2, u2 = Popped(u, p)
    PROVE  NoneIn(k, c, u2, d)
  <1>1. /\ u[p] \in Seq(Messages) /\ Head(u[p]) = u[p][1] /\ Len(u[p]) \in Nat \ {0}
        /\ Len(Tail(u[p])) = Len(u[p]) - 1
        /\ \A i \in 1 .. Len(u[p]) - 1 : Tail(u[p])[i] = u[p][i + 1]
    <2>1. u[p] \in Seq(Messages)
      BY DEF Queues, Popped
    <2>2. QED
      BY <2>1, PopFacts
  <1>2. 1 \in 1 .. Len(u[p]) /\ InUp(k, c, u[p][1])
    BY <1>1
  <1>3. ASSUME NEW r \in Phones, NEW i \in 1 .. Len(u2[r]), InUp(k, c, u2[r][i])
        PROVE  FALSE
    <2>1. CASE r = p
      <3>1. u2[r] = Tail(u[p])
        BY <2>1 DEF Queues, Popped
      <3>2. i + 1 \in 1 .. Len(u[p]) /\ i + 1 # 1 /\ u2[r][i] = u[p][i + 1]
        <4>1. PICK n \in Nat \ {0} : n = Len(u[p])
          BY <1>1
        <4>2. Len(u2[r]) = n - 1
          BY <1>1, <3>1, <4>1
        <4>3. i \in 1 .. n - 1
          BY <4>2
        <4>4. i + 1 \in 1 .. n /\ i + 1 # 1
          BY <4>3
        <4>5. u2[r][i] = u[p][i + 1]
          BY <1>1, <3>1, <4>1, <4>3
        <4>6. QED
          BY <4>1, <4>4, <4>5
      <3>3. QED
        BY <1>2, <1>3, <3>2 DEF OneIn
    <2>2. CASE r # p
      <3>1. u2[r] = u[r]
        BY <2>2 DEF Queues, Popped
      <3>2. QED
        BY <1>2, <1>3, <2>2, <3>1 DEF OneIn
    <2>3. QED
      BY <2>1, <2>2
  <1>4. ASSUME NEW r \in Phones, NEW i \in 1 .. Len(d[r]) PROVE ~InDown(k, c, r, d[r][i])
    BY <1>2 DEF OneIn
  <1>5. QED
    BY <1>3, <1>4 DEF NoneIn

LEMMA PopDownNone ==
    ASSUME NEW k, NEW c, NEW u \in Queues, NEW d \in Queues, OneIn(k, c, u, d),
           NEW p \in Phones, d[p] # <<>>, InDown(k, c, p, Head(d[p])),
           NEW d2, d2 = Popped(d, p)
    PROVE  NoneIn(k, c, u, d2)
  <1>1. /\ d[p] \in Seq(Messages) /\ Head(d[p]) = d[p][1] /\ Len(d[p]) \in Nat \ {0}
        /\ Len(Tail(d[p])) = Len(d[p]) - 1
        /\ \A i \in 1 .. Len(d[p]) - 1 : Tail(d[p])[i] = d[p][i + 1]
    <2>1. d[p] \in Seq(Messages)
      BY DEF Queues, Popped
    <2>2. QED
      BY <2>1, PopFacts
  <1>2. 1 \in 1 .. Len(d[p]) /\ InDown(k, c, p, d[p][1])
    BY <1>1
  <1>3. ASSUME NEW r \in Phones, NEW i \in 1 .. Len(d2[r]), InDown(k, c, r, d2[r][i])
        PROVE  FALSE
    <2>1. CASE r = p
      <3>1. d2[r] = Tail(d[p])
        BY <2>1 DEF Queues, Popped
      <3>2. i + 1 \in 1 .. Len(d[p]) /\ i + 1 # 1 /\ d2[r][i] = d[p][i + 1]
        <4>1. PICK n \in Nat \ {0} : n = Len(d[p])
          BY <1>1
        <4>2. Len(d2[r]) = n - 1
          BY <1>1, <3>1, <4>1
        <4>3. i \in 1 .. n - 1
          BY <4>2
        <4>4. i + 1 \in 1 .. n /\ i + 1 # 1
          BY <4>3
        <4>5. d2[r][i] = d[p][i + 1]
          BY <1>1, <3>1, <4>1, <4>3
        <4>6. QED
          BY <4>1, <4>4, <4>5
      <3>3. QED
        BY <1>2, <1>3, <2>1, <3>2 DEF OneIn
    <2>2. CASE r # p
      <3>1. d2[r] = d[r]
        BY <2>2 DEF Queues, Popped
      <3>2. QED
        BY <1>2, <1>3, <2>2, <3>1 DEF OneIn
    <2>3. QED
      BY <2>1, <2>2
  <1>4. ASSUME NEW r \in Phones, NEW i \in 1 .. Len(u[r]) PROVE ~InUp(k, c, u[r][i])
    BY <1>2 DEF OneIn
  <1>5. QED
    BY <1>3, <1>4 DEF NoneIn

(* A queue with one message more.                                          *)
LEMMA AddQueue ==
    ASSUME NEW u \in Queues, NEW p \in Phones, NEW m \in Messages,
           NEW u2, u2 = Added(u, p, m)
    PROVE  /\ u2 \in Queues
           /\ \A r \in Phones : Len(u[r]) \in Nat
           /\ \A r \in Phones : \A i \in 1 .. Len(u2[r]) :
                 \/ i \in 1 .. Len(u[r]) /\ u2[r][i] = u[r][i]
                 \/ r = p /\ i = Len(u[p]) + 1 /\ u2[r][i] = m
  <1>1. u[p] \in Seq(Messages) /\ Append(u[p], m) \in Seq(Messages)
    BY AppendFacts DEF Queues, Added
  <1>2. u2 \in Queues
    BY <1>1 DEF Queues, Added
  <1>3. ASSUME NEW r \in Phones
        PROVE  /\ Len(u[r]) \in Nat
               /\ \A i \in 1 .. Len(u2[r]) :
                    \/ i \in 1 .. Len(u[r]) /\ u2[r][i] = u[r][i]
                    \/ r = p /\ i = Len(u[p]) + 1 /\ u2[r][i] = m
    <2>1. CASE r = p
      <3>1. u2[r] = Append(u[p], m)
        BY <2>1 DEF Queues, Added
      <3>3. /\ Len(u[p]) \in Nat /\ Len(u2[r]) = Len(u[p]) + 1
            /\ \A i \in 1 .. Len(u[p]) : u2[r][i] = u[p][i]
            /\ u2[r][Len(u[p]) + 1] = m
        BY <1>1, <3>1, AppendFacts
      <3>4. \A i \in 1 .. Len(u[p]) + 1 : i \in 1 .. Len(u[p]) \/ i = Len(u[p]) + 1
        BY <3>3
      <3>5. QED
        BY <2>1, <3>3, <3>4
    <2>2. CASE r # p
      <3>1. u2[r] = u[r] /\ u[r] \in Seq(Messages)
        BY <2>2 DEF Queues, Added
      <3>2. Len(u[r]) \in Nat
        BY <3>1
      <3>3. QED
        BY <2>2, <3>1, <3>2
    <2>3. QED
      BY <2>1, <2>2
  <1>4. QED
    BY <1>2, <1>3

LEMMA AddSet ==
    \A u \in Queues, p \in Phones, m \in Messages : \A r \in Phones :
        \A x : x \in ToSet(Added(u, p, m)[r]) <=> x \in ToSet(u[r]) \/ (r = p /\ x = m)
  <1> SUFFICES ASSUME NEW u \in Queues, NEW p \in Phones, NEW m \in Messages, NEW r \in Phones
      PROVE  \A x : x \in ToSet(Added(u, p, m)[r]) <=> x \in ToSet(u[r]) \/ (r = p /\ x = m)
    OBVIOUS
  <1>1. u[p] \in Seq(Messages)
    BY DEF Queues
  <1>2. CASE r = p
    <2>1. Added(u, p, m)[r] = Append(u[p], m)
      BY <1>2 DEF Queues, Added
    <2>2. ToSet(Append(u[p], m)) = ToSet(u[p]) \cup {m}
      BY <1>1, AppendSet
    <2>3. QED
      BY <1>2, <2>1, <2>2
  <1>3. CASE r # p
    <2>1. Added(u, p, m)[r] = u[r]
      BY <1>3 DEF Queues, Added
    <2>2. QED
      BY <1>3, <2>1
  <1>4. QED
    BY <1>2, <1>3

(* A sole message may be added where there is none.                        *)
LEMMA AddUpOne ==
    ASSUME NEW k, NEW c, NEW u \in Queues, NEW d \in Queues, OneIn(k, c, u, d),
           NEW p \in Phones, NEW m \in Messages, InUp(k, c, m) => NoneIn(k, c, u, d),
           NEW u2, u2 = Added(u, p, m)
    PROVE  OneIn(k, c, u2, d) /\ (NoneIn(k, c, u, d) /\ ~InUp(k, c, m) => NoneIn(k, c, u2, d))
  <1>1. \A r \in Phones : \A i \in 1 .. Len(u2[r]) :
            \/ i \in 1 .. Len(u[r]) /\ u2[r][i] = u[r][i]
            \/ r = p /\ i = Len(u[p]) + 1 /\ u2[r][i] = m
    BY AddQueue
  <1>2. CASE ~InUp(k, c, m)
    <2>1. \A r \in Phones : \A i \in 1 .. Len(u2[r]) :
              InUp(k, c, u2[r][i]) => i \in 1 .. Len(u[r]) /\ InUp(k, c, u[r][i])
      BY <1>1, <1>2
    <2>2. QED
      BY <2>1 DEF OneIn, NoneIn
  <1>3. CASE InUp(k, c, m)
    <2>1. /\ \A r \in Phones : \A i \in 1 .. Len(u2[r]) :
                InUp(k, c, u2[r][i]) => r = p /\ i = Len(u[p]) + 1
          /\ \A r \in Phones : \A i \in 1 .. Len(d[r]) : ~InDown(k, c, r, d[r][i])
      BY <1>1, <1>3 DEF NoneIn
    <2>2. QED
      BY <1>3, <2>1 DEF OneIn
  <1>4. QED
    BY <1>2, <1>3

LEMMA AddDownOne ==
    ASSUME NEW k, NEW c, NEW u \in Queues, NEW d \in Queues, OneIn(k, c, u, d),
           NEW p \in Phones, NEW m \in Messages, InDown(k, c, p, m) => NoneIn(k, c, u, d),
           NEW d2, d2 = Added(d, p, m)
    PROVE  OneIn(k, c, u, d2)
  <1>1. \A r \in Phones : \A i \in 1 .. Len(d2[r]) :
            \/ i \in 1 .. Len(d[r]) /\ d2[r][i] = d[r][i]
            \/ r = p /\ i = Len(d[p]) + 1 /\ d2[r][i] = m
    BY AddQueue
  <1>2. CASE ~InDown(k, c, p, m)
    <2>1. \A r \in Phones : \A i \in 1 .. Len(d2[r]) :
              InDown(k, c, r, d2[r][i]) => i \in 1 .. Len(d[r]) /\ InDown(k, c, r, d[r][i])
      BY <1>1, <1>2
    <2>2. QED
      BY <2>1 DEF OneIn
  <1>3. CASE InDown(k, c, p, m)
    <2>1. /\ \A r \in Phones : \A i \in 1 .. Len(d2[r]) :
                InDown(k, c, r, d2[r][i]) => r = p /\ i = Len(d[p]) + 1
          /\ \A r \in Phones : \A i \in 1 .. Len(u[r]) : ~InUp(k, c, u[r][i])
      BY <1>1, <1>3 DEF NoneIn
    <2>2. QED
      BY <1>3, <2>1 DEF OneIn
  <1>4. QED
    BY <1>2, <1>3

(***************************************************************************)
(* What is true of a call k whose phones are in the states s and t, whose  *)
(* session is in state st, with u and d the messages on their way.         *)
(***************************************************************************)

(* A caller that waits for the final answer, and one that has had it; a    *)
(* called party that has accepted.                                         *)
Waiting == {"inviting", "proceeding", "cancelling"}
Settled == {"up", "leaving", "dropping", "over"}
Accepted == {"answered", "up", "leaving"}

Mine(k, m) == m.call = k /\ m.method # "REGISTER"

(* What the presence of a message says of the two phones.                  *)
Tells(k, m, s, t) ==
    /\ s # "idle"
    /\ m.method = "INVITE" /\ m.type = "INVITE" => s = "inviting" /\ t = "idle"
    /\ m.method = "INVITE" /\ m.type \in {"Trying", "Ringing"} \cup Finals => t # "idle"
    /\ m.method = "INVITE" /\ m.type \in Finals =>
          s \in Waiting /\ t = IF m.type = "OK" THEN "answered" ELSE "refused"
    /\ m.method = "CANCEL" => t # "idle"
    /\ m.method = "ACK" => s \in Settled
    /\ m.method = "BYE" => s \in Settled /\ t \in Accepted \cup {"over"}
    /\ m.method = "BYE" /\ m.from = Caller[k] => s # "up"
    /\ m.method = "BYE" /\ m.from = Called[k] => t \in {"leaving", "over"}

TellsBack(k, p, m, s, t) ==
    m.type = "NotFound" /\ m.method = "INVITE" /\ p = Caller[k] => s = "inviting" /\ t = "idle"

Told(k, u, d, s, t) ==
    /\ \A p \in Phones : \A m \in ToSet(u[p]) : Mine(k, m) => Tells(k, m, s, t)
    /\ \A p \in Phones : \A m \in ToSet(d[p]) :
          Mine(k, m) => Tells(k, m, s, t) /\ TellsBack(k, p, m, s, t)

(* How far the phones can be apart.                                        *)
InStep(s, t) ==
    /\ s = "idle" => t = "idle"
    /\ t \in {"trying", "ringing"} => s \in Waiting
    /\ t \in {"up", "leaving"} => s \in Settled
    /\ s \in {"proceeding", "cancelling"} => t # "idle"
    /\ s \in {"up", "leaving", "dropping"} => t \in Accepted \cup {"over"}

(* A message of a BYE that has passed the server.                          *)
PassedUp(k, m) == m.call = k /\ m.method = "BYE" /\ m.type # "BYE"
PassedDown(k, m) == m.call = k /\ m.method = "BYE"

(* The answer of a connected call has passed the server, and no BYE has.   *)
Connects(k, u, d, s, t) ==
    /\ s \notin {"idle", "over"} /\ t \in Accepted
    /\ \A p \in Phones : \A m \in ToSet(u[p]) : ~InUp(k, "offer", m) /\ ~PassedUp(k, m)
    /\ \A p \in Phones : \A m \in ToSet(d[p]) : ~PassedDown(k, m)

CallOf(k, u, d, s, t, st) ==
    /\ \A c \in Sole : OneIn(k, c, u, d)
    /\ Told(k, u, d, s, t)
    /\ InStep(s, t)
    /\ st = "Connected" => Connects(k, u, d, s, t)

CallInv(k) == CallOf(k, up, down, caller[k], called[k], sessions[k].state)

LEMMA SoleIsMine ==
    ASSUME NEW k, NEW c, NEW p, NEW m
    PROVE  (InUp(k, c, m) => Mine(k, m)) /\ (InDown(k, c, p, m) => Mine(k, m))
  BY DEF InUp, InDown, Mine

LEMMA NoneUpInSet ==
    ASSUME NEW k, NEW c, NEW q \in Seq(Messages)
    PROVE  (\A i \in 1 .. Len(q) : ~InUp(k, c, q[i])) <=> (\A m \in ToSet(q) : ~InUp(k, c, m))
  BY InSequence

LEMMA NoneDownInSet ==
    ASSUME NEW k, NEW c, NEW p, NEW q \in Seq(Messages)
    PROVE  (\A i \in 1 .. Len(q) : ~InDown(k, c, p, q[i])) <=>
              (\A m \in ToSet(q) : ~InDown(k, c, p, m))
  BY InSequence

LEMMA NoneInSets ==
    ASSUME NEW k, NEW c, NEW u \in Queues, NEW d \in Queues
    PROVE  NoneIn(k, c, u, d) <=>
              /\ \A p \in Phones : \A m \in ToSet(u[p]) : ~InUp(k, c, m)
              /\ \A p \in Phones : \A m \in ToSet(d[p]) : ~InDown(k, c, p, m)
  <1>1. \A p \in Phones : u[p] \in Seq(Messages) /\ d[p] \in Seq(Messages)
    BY DEF Queues
  <1>2. \A p \in Phones : (\A i \in 1 .. Len(u[p]) : ~InUp(k, c, u[p][i])) <=>
                              (\A m \in ToSet(u[p]) : ~InUp(k, c, m))
    BY <1>1, NoneUpInSet
  <1>3. \A p \in Phones : (\A i \in 1 .. Len(d[p]) : ~InDown(k, c, p, d[p][i])) <=>
                              (\A m \in ToSet(d[p]) : ~InDown(k, c, p, m))
    BY <1>1, NoneDownInSet
  <1>4. QED
    BY <1>2, <1>3 DEF NoneIn

(* Fewer messages.                                                         *)
LEMMA CallThinned ==
    ASSUME NEW k, NEW u \in Queues, NEW d \in Queues, NEW s, NEW t, NEW st,
           CallOf(k, u, d, s, t, st), NEW u2 \in Queues, NEW d2 \in Queues,
           \A p \in Phones : Thinned(u[p], u2[p]),
           \A p \in Phones : Thinned(d[p], d2[p])
    PROVE  CallOf(k, u2, d2, s, t, st)
  <1>1. \A c \in Sole : OneIn(k, c, u2, d2)
    BY OneThinned DEF CallOf
  <1>2. /\ \A p \in Phones : ToSet(u2[p]) \subseteq ToSet(u[p])
        /\ \A p \in Phones : ToSet(d2[p]) \subseteq ToSet(d[p])
    BY ThinnedSet DEF Queues
  <1>3. Told(k, u2, d2, s, t)
    BY <1>2 DEF CallOf, Told
  <1>4. st = "Connected" => Connects(k, u2, d2, s, t)
    BY <1>2 DEF CallOf, Connects
  <1>5. QED
    BY <1>1, <1>3, <1>4 DEF CallOf

(* One message more, from a phone.                                         *)
LEMMA CallAddsUp ==
    ASSUME NEW k, NEW u \in Queues, NEW d \in Queues, NEW s, NEW t, NEW st,
           CallOf(k, u, d, s, t, st), NEW p \in Phones, NEW m \in Messages,
           Mine(k, m) => Tells(k, m, s, t),
           Mine(k, m) /\ st = "Connected" => ~InUp(k, "offer", m) /\ ~PassedUp(k, m),
           \A c \in Sole : InUp(k, c, m) => NoneIn(k, c, u, d),
           NEW u2, u2 = Added(u, p, m)
    PROVE  /\ u2 \in Queues /\ CallOf(k, u2, d, s, t, st)
           /\ \A c \in Sole : NoneIn(k, c, u, d) /\ ~InUp(k, c, m) => NoneIn(k, c, u2, d)
  <1>0. u2 \in Queues
    BY AddQueue
  <1>1. \A r \in Phones : \A x : x \in ToSet(u2[r]) <=> x \in ToSet(u[r]) \/ (r = p /\ x = m)
    BY AddSet
  <1>2. \A c \in Sole : OneIn(k, c, u2, d)
    BY AddUpOne DEF CallOf
  <1>3. \A c \in Sole : NoneIn(k, c, u, d) /\ ~InUp(k, c, m) => NoneIn(k, c, u2, d)
    <2>1. ASSUME NEW c \in Sole, NoneIn(k, c, u, d), ~InUp(k, c, m) PROVE NoneIn(k, c, u2, d)
      <3>1. OneIn(k, c, u, d)
        BY DEF CallOf
      <3>2. QED
        BY <2>1, <3>1, AddUpOne
    <2>2. QED
      BY <2>1
  <1>4. Told(k, u2, d, s, t)
    BY <1>1 DEF CallOf, Told
  <1>5. st = "Connected" => Connects(k, u2, d, s, t)
    BY <1>1 DEF CallOf, Connects, InUp, PassedUp, Mine
  <1>6. QED
    BY <1>0, <1>2, <1>3, <1>4, <1>5 DEF CallOf

(* One message more, to a phone.                                           *)
LEMMA CallAddsDown ==
    ASSUME NEW k, NEW u \in Queues, NEW d \in Queues, NEW s, NEW t, NEW st,
           CallOf(k, u, d, s, t, st), NEW p \in Phones, NEW m \in Messages,
           Mine(k, m) => Tells(k, m, s, t) /\ TellsBack(k, p, m, s, t),
           st = "Connected" => ~PassedDown(k, m),
           \A c \in Sole : InDown(k, c, p, m) => NoneIn(k, c, u, d),
           NEW d2, d2 = Added(d, p, m)
    PROVE  d2 \in Queues /\ CallOf(k, u, d2, s, t, st)
  <1>0. d2 \in Queues
    BY AddQueue
  <1>1. \A r \in Phones : \A x : x \in ToSet(d2[r]) <=> x \in ToSet(d[r]) \/ (r = p /\ x = m)
    BY AddSet
  <1>2. \A c \in Sole : OneIn(k, c, u, d2)
    BY AddDownOne DEF CallOf
  <1>3. Told(k, u, d2, s, t)
    BY <1>1 DEF CallOf, Told
  <1>4. st = "Connected" => Connects(k, u, d2, s, t)
    BY <1>1 DEF CallOf, Connects
  <1>5. QED
    BY <1>0, <1>2, <1>3, <1>4 DEF CallOf

(* Another session state; a session does not become connected that way.    *)
LEMMA CallSession ==
    ASSUME NEW k, NEW u, NEW d, NEW s, NEW t, NEW st, CallOf(k, u, d, s, t, st),
           NEW st2, st2 = st \/ st2 # "Connected"
    PROVE  CallOf(k, u, d, s, t, st2)
  BY DEF CallOf

(* The answer of a call has passed.                                        *)
LEMMA CallConnects ==
    ASSUME NEW k, NEW u \in Queues, NEW d \in Queues, NEW s, NEW t, NEW st, CallOf(k, u, d, s, t, st),
           NoneIn(k, "offer", u, d), s \in Waiting, t = "answered"
    PROVE  CallOf(k, u, d, s, t, "Connected")
  <1>1. \A p \in Phones : \A m \in ToSet(u[p]) : ~InUp(k, "offer", m)
    BY NoneInSets
  <1>2. /\ \A p \in Phones : \A m \in ToSet(u[p]) : ~PassedUp(k, m)
        /\ \A p \in Phones : \A m \in ToSet(d[p]) : ~PassedDown(k, m)
    BY DEF CallOf, Told, Tells, Mine, PassedUp, PassedDown, Waiting, Settled
  <1>3. Connects(k, u, d, s, t)
    BY <1>1, <1>2 DEF Connects, Waiting, Accepted
  <1>4. QED
    BY <1>3 DEF CallOf

(***************************************************************************)
(* What a phone may do next, as far as its call is concerned.              *)
(***************************************************************************)
LEMMA Invites ==
    ASSUME NEW k, NEW u \in Queues, NEW d \in Queues, NEW t, NEW st,
           CallOf(k, u, d, "idle", t, st)
    PROVE  /\ CallOf(k, u, d, "inviting", t, st) /\ t = "idle" /\ st # "Connected"
           /\ NoneIn(k, "offer", u, d)
  <1>1. /\ \A p \in Phones : \A m \in ToSet(u[p]) : ~Mine(k, m)
        /\ \A p \in Phones : \A m \in ToSet(d[p]) : ~Mine(k, m)
    BY DEF CallOf, Told, Tells
  <1>2. NoneIn(k, "offer", u, d)
    BY <1>1, NoneInSets, SoleIsMine
  <1>3. t = "idle" /\ st # "Connected"
    BY DEF CallOf, InStep, Connects
  <1>4. Told(k, u, d, "inviting", t)
    BY <1>1 DEF Told
  <1>5. InStep("inviting", t)
    BY <1>3 DEF InStep
  <1>6. QED
    BY <1>2, <1>3, <1>4, <1>5 DEF CallOf

LEMMA Proceeds ==
    ASSUME NEW k, NEW u, NEW d, NEW s, NEW t, NEW st, CallOf(k, u, d, s, t, st),
           s \in {"inviting", "proceeding"}, t # "idle", NEW s2 \in {"proceeding", "cancelling"}
    PROVE  CallOf(k, u, d, s2, t, st)
  <1>1. Told(k, u, d, s2, t)
    BY DEF CallOf, Told, Tells, TellsBack, Waiting, Settled
  <1>2. InStep(s2, t)
    BY DEF CallOf, InStep, Waiting, Settled
  <1>3. st = "Connected" => Connects(k, u, d, s2, t)
    BY DEF CallOf, Connects
  <1>4. QED
    BY <1>1, <1>2, <1>3 DEF CallOf

LEMMA IsAnswered ==
    ASSUME NEW k, NEW u \in Queues, NEW d \in Queues, NEW s, NEW t, NEW st,
           CallOf(k, u, d, s, t, st), NoneIn(k, "offer", u, d),
           s \in Waiting, t = "answered", NEW s2 \in {"up", "dropping"}
    PROVE  /\ CallOf(k, u, d, s2, t, st)
           /\ NoneIn(k, "ack", u, d) /\ NoneIn(k, "callerBye", u, d)
  <1>1. /\ \A p \in Phones : \A m \in ToSet(u[p]) : Mine(k, m) =>
                m.method \notin {"ACK", "BYE"} /\ ~InUp(k, "offer", m)
        /\ \A p \in Phones : \A m \in ToSet(d[p]) : Mine(k, m) =>
                m.method \notin {"ACK", "BYE"} /\ ~InDown(k, "offer", p, m)
    BY NoneInSets DEF CallOf, Told, Tells, Waiting, Settled
  <1>2. NoneIn(k, "ack", u, d) /\ NoneIn(k, "callerBye", u, d)
    <2>1. ASSUME NEW c \in {"ack", "callerBye"}, NEW p, NEW m, Mine(k, m) => m.method \notin {"ACK", "BYE"}
          PROVE  ~InUp(k, c, m) /\ ~InDown(k, c, p, m)
      BY <2>1 DEF InUp, InDown, Mine
    <2>2. ASSUME NEW c \in {"ack", "callerBye"} PROVE NoneIn(k, c, u, d)
      <3>1. /\ \A p \in Phones : \A m \in ToSet(u[p]) : ~InUp(k, c, m)
            /\ \A p \in Phones : \A m \in ToSet(d[p]) : ~InDown(k, c, p, m)
        BY <1>1, <2>1
      <3>2. QED
        BY <3>1, NoneInSets
    <2>3. QED
      BY <2>2
  <1>3. Told(k, u, d, s2, t)
    <2>1. ASSUME NEW m, Mine(k, m), Tells(k, m, s, t), ~InUp(k, "offer", m), m.method \notin {"ACK", "BYE"}
          PROVE  Tells(k, m, s2, t)
      BY <2>1 DEF Tells, Mine, InUp
    <2>2. ASSUME NEW m, NEW p, Mine(k, m), ~InDown(k, "offer", p, m)
          PROVE  TellsBack(k, p, m, s2, t) /\ ~InUp(k, "offer", m)
      BY <2>2 DEF TellsBack, Mine, InDown
    <2>3. QED
      BY <1>1, <2>1, <2>2 DEF CallOf, Told
  <1>4. InStep(s2, t)
    BY DEF InStep, Settled, Accepted
  <1>5. st = "Connected" => Connects(k, u, d, s2, t)
    BY DEF CallOf, Connects
  <1>6. QED
    BY <1>2, <1>3, <1>4, <1>5 DEF CallOf

LEMMA IsRefused ==
    ASSUME NEW k, NEW u \in Queues, NEW d \in Queues, NEW s, NEW t, NEW st,
           CallOf(k, u, d, s, t, st), NoneIn(k, "offer", u, d),
           s \in Waiting, t \in {"idle", "refused"}
    PROVE  /\ CallOf(k, u, d, "over", t, st) /\ st # "Connected"
           /\ NoneIn(k, "ack", u, d)
  <1>1. /\ \A p \in Phones : \A m \in ToSet(u[p]) : Mine(k, m) =>
                m.method \notin {"ACK", "BYE"} /\ ~InUp(k, "offer", m)
        /\ \A p \in Phones : \A m \in ToSet(d[p]) : Mine(k, m) =>
                m.method \notin {"ACK", "BYE"} /\ ~InDown(k, "offer", p, m)
    BY NoneInSets DEF CallOf, Told, Tells, Waiting, Settled
  <1>2. NoneIn(k, "ack", u, d)
    <2>1. ASSUME NEW p, NEW m, Mine(k, m) => m.method \notin {"ACK", "BYE"}
          PROVE  ~InUp(k, "ack", m) /\ ~InDown(k, "ack", p, m)
      BY <2>1 DEF InUp, InDown, Mine
    <2>2. /\ \A p \in Phones : \A m \in ToSet(u[p]) : ~InUp(k, "ack", m)
          /\ \A p \in Phones : \A m \in ToSet(d[p]) : ~InDown(k, "ack", p, m)
      BY <1>1, <2>1
    <2>3. QED
      BY <2>2, NoneInSets
  <1>3. Told(k, u, d, "over", t)
    <2>1. ASSUME NEW m, Mine(k, m), Tells(k, m, s, t), ~InUp(k, "offer", m), m.method \notin {"ACK", "BYE"}
          PROVE  Tells(k, m, "over", t)
      BY <2>1 DEF Tells, Mine, InUp
    <2>2. ASSUME NEW m, NEW p, Mine(k, m), ~InDown(k, "offer", p, m)
          PROVE  TellsBack(k, p, m, "over", t) /\ ~InUp(k, "offer", m)
      BY <2>2 DEF TellsBack, Mine, InDown
    <2>3. QED
      BY <1>1, <2>1, <2>2 DEF CallOf, Told
  <1>4. InStep("over", t)
    BY DEF InStep
  <1>5. st # "Connected"
    BY DEF CallOf, Connects, Accepted
  <1>6. QED
    BY <1>2, <1>3, <1>4, <1>5 DEF CallOf

LEMMA CallerLeaves ==
    ASSUME NEW k, NEW u \in Queues, NEW d \in Queues, NEW t, NEW st,
           CallOf(k, u, d, "up", t, st)
    PROVE  CallOf(k, u, d, "leaving", t, st) /\ NoneIn(k, "callerBye", u, d)
  <1>1. /\ \A p \in Phones : \A m \in ToSet(u[p]) : ~InUp(k, "callerBye", m)
        /\ \A p \in Phones : \A m \in ToSet(d[p]) : ~InDown(k, "callerBye", p, m)
    BY DEF CallOf, Told, Tells, Mine, InUp, InDown
  <1>2. Told(k, u, d, "leaving", t)
    BY DEF CallOf, Told, Tells, TellsBack, Waiting, Settled
  <1>3. InStep("leaving", t)
    BY DEF CallOf, InStep, Waiting, Settled
  <1>4. st = "Connected" => Connects(k, u, d, "leaving", t)
    BY DEF CallOf, Connects
  <1>5. QED
    BY <1>1, <1>2, <1>3, <1>4, NoneInSets DEF CallOf

LEMMA CallerEnds ==
    ASSUME NEW k, NEW u, NEW d, NEW s, NEW t, NEW st, CallOf(k, u, d, s, t, st),
           s \in {"up", "leaving", "dropping"}, st # "Connected"
    PROVE  CallOf(k, u, d, "over", t, st)
  <1>1. Told(k, u, d, "over", t)
    BY DEF CallOf, Told, Tells, TellsBack, Waiting, Settled
  <1>2. InStep("over", t)
    BY DEF CallOf, InStep, Waiting, Settled
  <1>3. QED
    BY <1>1, <1>2 DEF CallOf

LEMMA CalledTries ==
    ASSUME NEW k, NEW u \in Queues, NEW d \in Queues, NEW st,
           CallOf(k, u, d, "inviting", "idle", st), NoneIn(k, "offer", u, d)
    PROVE  CallOf(k, u, d, "inviting", "trying", st) /\ st # "Connected"
  <1>1. /\ \A p \in Phones : \A m \in ToSet(u[p]) : ~InUp(k, "offer", m)
        /\ \A p \in Phones : \A m \in ToSet(d[p]) : ~InDown(k, "offer", p, m)
    BY NoneInSets
  <1>2. ASSUME NEW m, Mine(k, m), Tells(k, m, "inviting", "idle"), ~InUp(k, "offer", m)
        PROVE  Tells(k, m, "inviting", "trying")
    BY <1>2 DEF Tells, Mine, InUp, Settled
  <1>3. ASSUME NEW m, NEW p, Mine(k, m), ~InDown(k, "offer", p, m)
        PROVE  TellsBack(k, p, m, "inviting", "trying") /\ ~InUp(k, "offer", m)
    BY <1>3 DEF TellsBack, Mine, InDown
  <1>4. Told(k, u, d, "inviting", "trying")
    BY <1>1, <1>2, <1>3 DEF CallOf, Told
  <1>5. InStep("inviting", "trying")
    BY DEF InStep, Waiting
  <1>6. st # "Connected"
    BY DEF CallOf, Connects, Accepted
  <1>7. QED
    BY <1>4, <1>5, <1>6 DEF CallOf

LEMMA CalledDecides ==
    ASSUME NEW k, NEW u \in Queues, NEW d \in Queues, NEW s, NEW t, NEW st,
           CallOf(k, u, d, s, t, st), t \in {"trying", "ringing"},
           NEW t2 \in {"ringing", "answered", "refused"}
    PROVE  /\ CallOf(k, u, d, s, t2, st) /\ st # "Connected" /\ s \in Waiting
           /\ NoneIn(k, "offer", u, d)
  <1>1. s \in Waiting /\ st # "Connected"
    BY DEF CallOf, InStep, Connects, Accepted
  <1>2. /\ \A p \in Phones : \A m \in ToSet(u[p]) : Mine(k, m) =>
                m.method \notin {"ACK", "BYE"} /\ ~InUp(k, "offer", m)
        /\ \A p \in Phones : \A m \in ToSet(d[p]) : Mine(k, m) =>
                m.method \notin {"ACK", "BYE"} /\ ~InDown(k, "offer", p, m)
    BY <1>1 DEF CallOf, Told, Tells, TellsBack, Mine, InUp, InDown, Finals, Waiting, Settled
  <1>3. NoneIn(k, "offer", u, d)
    BY <1>2, NoneInSets, SoleIsMine
  <1>4. Told(k, u, d, s, t2)
    <2>1. ASSUME NEW m, Mine(k, m), Tells(k, m, s, t), ~InUp(k, "offer", m), m.method \notin {"ACK", "BYE"}
          PROVE  Tells(k, m, s, t2)
      BY <2>1 DEF Tells, Mine, InUp
    <2>2. ASSUME NEW m, NEW p, Mine(k, m), ~InDown(k, "offer", p, m)
          PROVE  TellsBack(k, p, m, s, t2) /\ ~InUp(k, "offer", m)
      BY <2>2 DEF TellsBack, Mine, InDown
    <2>3. QED
      BY <1>2, <2>1, <2>2 DEF CallOf, Told
  <1>5. InStep(s, t2)
    BY <1>1 DEF InStep, Waiting
  <1>6. QED
    BY <1>1, <1>3, <1>4, <1>5 DEF CallOf

LEMMA CalledConfirmed ==
    ASSUME NEW k, NEW u, NEW d, NEW s \in Settled, NEW t, NEW st, CallOf(k, u, d, s, t, st),
           t \in {"answered", "refused"}, NEW t2, t2 = IF t = "answered" THEN "up" ELSE "over"
    PROVE  CallOf(k, u, d, s, t2, st)
  <1>1. Told(k, u, d, s, t2)
    BY DEF CallOf, Told, Tells, TellsBack, Waiting, Settled, Accepted
  <1>2. InStep(s, t2)
    BY DEF CallOf, InStep, Waiting, Settled, Accepted
  <1>3. st = "Connected" => Connects(k, u, d, s, t2)
    BY DEF CallOf, Connects, Accepted
  <1>4. QED
    BY <1>1, <1>2, <1>3 DEF CallOf

LEMMA CalledLeaves ==
    ASSUME NEW k, NEW u \in Queues, NEW d \in Queues, NEW s, NEW st,
           CallOf(k, u, d, s, "up", st)
    PROVE  /\ CallOf(k, u, d, s, "leaving", st) /\ s \in Settled
           /\ NoneIn(k, "calledBye", u, d)
  <1>1. /\ \A p \in Phones : \A m \in ToSet(u[p]) : ~InUp(k, "calledBye", m)
        /\ \A p \in Phones : \A m \in ToSet(d[p]) : ~InDown(k, "calledBye", p, m)
    BY DEF CallOf, Told, Tells, Mine, InUp, InDown
  <1>2. Told(k, u, d, s, "leaving")
    BY DEF CallOf, Told, Tells, TellsBack, Waiting, Settled, Accepted
  <1>3. InStep(s, "leaving") /\ s \in Settled
    BY DEF CallOf, InStep, Waiting, Settled, Accepted
  <1>4. st = "Connected" => Connects(k, u, d, s, "leaving")
    BY DEF CallOf, Connects, Accepted
  <1>5. QED
    BY <1>1, <1>2, <1>3, <1>4, NoneInSets DEF CallOf

LEMMA CalledEnds ==
    ASSUME NEW k, NEW u, NEW d, NEW s \in Settled, NEW t, NEW st, CallOf(k, u, d, s, t, st),
           t \in Accepted, st # "Connected"
    PROVE  CallOf(k, u, d, s, "over", st)
  <1>1. Told(k, u, d, s, "over")
    BY DEF CallOf, Told, Tells, TellsBack, Waiting, Settled, Accepted
  <1>2. InStep(s, "over")
    BY DEF CallOf, InStep, Waiting, Settled, Accepted
  <1>3. QED
    BY <1>1, <1>2 DEF CallOf

(***************************************************************************)
(* The server: it takes one message m, passes at most one on, and changes  *)
(* the session of m's call at most.                                        *)
(***************************************************************************)
Sessions == [state : States, dest : BOOLEAN]

Passes(q, m, m2) ==
    m2.method # "REGISTER" =>
        /\ m2.call = m.call /\ m2.method = m.method /\ m2.from = m.from
        /\ \/ m2.type = m.type
           \/ /\ m2.type = "NotFound"
              /\ m.method = "INVITE" /\ q = Caller[m.call] => m.type = "INVITE"

Delivers(m) ==
    \/ down' = down
    \/ \E q \in Phones, m2 \in Messages :
          down' = Added(down, q, m2) /\ DownMessage(q, m2) /\ Passes(q, m, m2)

Moves(m) ==
    \/ sessions' = sessions
    \/ \E k \in Calls, r \in Sessions :
          /\ k = m.call /\ sessions' = [sessions EXCEPT ![k] = r]
          /\ r.state = "Connected" => r.dest /\ m.method = "INVITE" /\ m.type = "OK"

Handles(p, m) ==
    /\ Delivers(m) /\ Moves(m)
    /\ m.type = "BYE" => m.call \in Calls /\ sessions'[m.call].state # "Connected"
    /\ clients' \subseteq Phones

LEMMA MessageFacts ==
    ASSUME Placed, NEW p \in Phones, up[p] # <<>>, NEW m, m = Head(up[p])
    PROVE  /\ m \in Messages /\ m.type \in Types /\ m.method \in Methods
           /\ m.from \in Phones /\ m.to \in Phones /\ m.sdp \in BOOLEAN
           /\ m \in ToSet(up[p]) /\ UpMessage(p, m)
  <1>1. up \in Queues
    BY DEF Placed
  <1>2. Head(up[p]) \in ToSet(up[p]) /\ Head(up[p]) \in Messages
    <2>1. PICK u2 : u2 = Popped(up, p)
      OBVIOUS
    <2>2. QED
      BY <1>1, <2>1, PopQueue
  <1>3. UpMessage(p, m)
    BY <1>2 DEF Placed
  <1>4. QED
    BY <1>2, <1>3 DEF Messages

LEMMA RenamedFacts ==
    ASSUME NEW m \in Messages, NEW type \in Types, NEW m2, m2 = [m EXCEPT !.type = type]
    PROVE  /\ m2 \in Messages /\ m2.type = type /\ m2.method = m.method /\ m2.call = m.call
           /\ m2.from = m.from /\ m2.to = m.to /\ m2.sdp = m.sdp
  <1>1. m2 = [type |-> type, method |-> m.method, call |-> m.call,
              from |-> m.from, to |-> m.to, sdp |-> m.sdp]
    BY DEF Messages
  <1>2. QED
    BY <1>1 DEF Messages

LEMMA ReplyFacts ==
    ASSUME NEW m \in Messages, NEW type \in Types, NEW sdp \in BOOLEAN,
           NEW m2, m2 = Reply(m, type, sdp)
    PROVE  /\ m2 \in Messages /\ m2.type = type /\ m2.method = m.method /\ m2.call = m.call
           /\ m2.from = m.from /\ m2.to = m.to /\ m2.sdp = sdp
  <1>1. PICK m1 : m1 = [m EXCEPT !.type = type]
    OBVIOUS
  <1>2. /\ m1 \in Messages /\ m1.type = type /\ m1.method = m.method /\ m1.call = m.call
        /\ m1.from = m.from /\ m1.to = m.to
    BY <1>1, RenamedFacts
  <1>3. m2 = [m1 EXCEPT !.sdp = sdp]
    BY <1>1 DEF Reply
  <1>4. m2 = [type |-> m1.type, method |-> m1.method, call |-> m1.call,
              from |-> m1.from, to |-> m1.to, sdp |-> sdp]
    BY <1>2, <1>3 DEF Messages
  <1>5. QED
    BY <1>2, <1>4 DEF Messages

(* endHandle of a message from p: it is delivered if it may be delivered    *)
(* to the client, and its NotFound to p.                                   *)
LEMMA EndHandleDelivers ==
    ASSUME SipTypeOK, NEW p \in Phones, NEW m, NEW n \in Messages, NEW number \in Phones,
           down' = EndHandle(number, n, p),
           DownMessage(number, n), Passes(number, m, n),
           NEW n2, n2 = [n EXCEPT !.type = "NotFound"],
           DownMessage(p, n2), Passes(p, m, n2)
    PROVE  Delivers(m)
  <1>1. CASE number \in clients
    <2>1. down' = Added(down, number, n)
      BY <1>1 DEF EndHandle, Added
    <2>2. QED
      BY <2>1 DEF Delivers
  <1>2. CASE number \notin clients
    <2>1. down' = Added(down, p, n2)
      BY <1>2 DEF EndHandle, Added
    <2>2. n2 \in Messages
      BY RenamedFacts DEF Types
    <2>3. QED
      BY <2>1, <2>2 DEF Delivers
  <1>3. QED
    BY <1>1, <1>2

(* A request goes on to the other party of its call, or back.               *)
LEMMA RequestDelivers ==
    ASSUME SipTypeOK, Placed, NEW p \in Phones, NEW m \in Messages, UpMessage(p, m),
           m.type \in {"INVITE", "CANCEL", "ACK", "BYE"},
           down' = EndHandle(m.to, m, p)
    PROVE  Delivers(m) /\ m.call \in Calls /\ m.method = m.type
  <1>1. PICK n2 : n2 = [m EXCEPT !.type = "NotFound"]
    OBVIOUS
  <1>2. /\ n2.type = "NotFound" /\ n2.method = m.method /\ n2.call = m.call
        /\ n2.from = m.from /\ n2.to = m.to
    BY <1>1, RenamedFacts DEF Types
  <1>3. \/ CallerRequests(p, m)
        \/ ByCalled(m) /\ m.method = "BYE" /\ m.type = "BYE" /\ p = m.from
    BY DEF UpMessage, Registers, CalledAnswers, CalledHangUp, Finals
  <1>4. m.to \in Phones /\ m.call \in Calls /\ m.method = m.type
    BY <1>3 DEF CallerRequests, ByCaller, ByCalled, Messages
  <1>5. DownMessage(m.to, m)
    BY <1>3 DEF DownMessage, CallerRequests
  <1>6. DownMessage(p, n2)
    BY <1>2, <1>3 DEF DownMessage, CallerRequests, ByCaller, ByCalled
  <1>7. Passes(m.to, m, m) /\ Passes(p, m, n2)
    BY <1>2, <1>4 DEF Passes
  <1>8. QED
    BY <1>1, <1>4, <1>5, <1>6, <1>7, EndHandleDelivers

(* An answer goes on to who sent the request.                               *)
LEMMA AnswerDelivers ==
    ASSUME SipTypeOK, Placed, NEW p \in Phones, NEW m \in Messages, UpMessage(p, m),
           m.type \in {"Trying", "Ringing"} \cup Finals,
           down' = EndHandle(m.from, m, p)
    PROVE  Delivers(m) /\ m.call \in Calls
  <1>1. PICK n2 : n2 = [m EXCEPT !.type = "NotFound"]
    OBVIOUS
  <1>2. /\ n2.type = "NotFound" /\ n2.method = m.method /\ n2.call = m.call
        /\ n2.from = m.from /\ n2.to = m.to
    BY <1>1, RenamedFacts DEF Types
  <1>3. \/ CalledAnswers(p, m)
        \/ ByCalled(m) /\ m.method = "BYE" /\ m.type = "OK" /\ p = m.to
    BY DEF UpMessage, Registers, CallerRequests, CalledHangUp, Finals
  <1>4. /\ m.from \in Phones /\ m.call \in Calls
        /\ m.method = "INVITE" => p = Called[m.call] /\ p # Caller[m.call]
    BY <1>3, PartiesAssumption DEF CalledAnswers, ByCaller, ByCalled, Messages
  <1>5. DownMessage(m.from, m)
    BY <1>3 DEF DownMessage, CalledAnswers
  <1>6. DownMessage(p, n2)
    BY <1>2, <1>3 DEF DownMessage, CalledAnswers, ByCaller, ByCalled
  <1>7. Passes(m.from, m, m) /\ Passes(p, m, n2)
    BY <1>2, <1>4 DEF Passes
  <1>8. QED
    BY <1>1, <1>4, <1>5, <1>6, <1>7, EndHandleDelivers

LEMMA StateMoves ==
    ASSUME SipTypeOK, NEW m, NEW k \in Calls, k = m.call, NEW state \in States, state # "Connected",
           sessions' = SetCallState(k, state)
    PROVE  Moves(m) /\ sessions'[k].state # "Connected"
  <1>1. sessions \in [Calls -> Sessions]
    BY DEF SipTypeOK, Sessions
  <1>2. PICK r : r = [state |-> IF sessions[k].state = "none" THEN "none" ELSE state,
                      dest |-> sessions[k].dest]
    OBVIOUS
  <1>3. r \in Sessions /\ r.state # "Connected"
    BY <1>1, <1>2 DEF Sessions, States
  <1>4. sessions' = [sessions EXCEPT ![k] = r]
    <2>1. PICK v : v = IF sessions[k].state = "none" THEN "none" ELSE state
      OBVIOUS
    <2>2. [sessions[k] EXCEPT !.state = v] = r
      BY <1>1, <1>2, <2>1 DEF Sessions
    <2>3. sessions' = [sessions EXCEPT ![k] = [sessions[k] EXCEPT !.state = v]]
      BY <2>1 DEF SetCallState
    <2>4. QED
      BY <2>2, <2>3
  <1>5. QED
    BY <1>1, <1>3, <1>4 DEF Moves

LEMMA EndMoves ==
    ASSUME SipTypeOK, NEW m, NEW k \in Calls, k = m.call, sessions' = EndCall(k)
    PROVE  Moves(m) /\ sessions'[k].state # "Connected"
  <1>1. sessions \in [Calls -> Sessions] /\ NoSession \in Sessions /\ NoSession.state # "Connected"
    BY DEF SipTypeOK, Sessions, NoSession, States
  <1>2. QED
    BY <1>1 DEF Moves, EndCall


(* The handlers.                                                            *)
LEMMA RegisterHandles ==
    ASSUME SipTypeOK, Placed, NEW p \in Phones, OnRegister(p)
    PROVE  Handles(p, Head(up[p]))
  <1> DEFINE m == Head(up[p])
  <1>1. up[p] # <<>> /\ m.type \in {"REGISTER", "UNREGISTER"}
    BY DEF OnRegister, Receive
  <1>2. m \in Messages /\ m.from \in Phones /\ m.method = "REGISTER"
    BY <1>1, MessageFacts
    DEF UpMessage, Registers, CallerRequests, CalledAnswers, CalledHangUp, Finals
  <1>3. PICK type \in {"OK", "NotFound"} : down' = Added(down, p, Reply(m, type, FALSE))
    BY DEF OnRegister, Added
  <1>4. /\ Reply(m, type, FALSE) \in Messages /\ Reply(m, type, FALSE).method = "REGISTER"
    <2>1. type \in Types
      BY DEF Types, Finals
    <2>2. PICK sdp \in BOOLEAN : sdp = FALSE
      OBVIOUS
    <2>3. PICK n : n = Reply(m, type, sdp)
      OBVIOUS
    <2>4. n \in Messages /\ n.method = "REGISTER"
      BY <1>2, <2>1, <2>3, ReplyFacts
    <2>5. QED
      BY <2>2, <2>3, <2>4
  <1>5. Delivers(m)
    BY <1>3, <1>4 DEF Delivers, DownMessage, Passes
  <1>6. sessions' = sessions /\ clients' \subseteq Phones
    BY <1>2 DEF OnRegister, SipTypeOK
  <1>7. QED
    BY <1>1, <1>5, <1>6 DEF Handles, Moves

LEMMA InviteHandles ==
    ASSUME SipTypeOK, Placed, NEW p \in Phones, OnInvite(p)
    PROVE  Handles(p, Head(up[p]))
  <1> DEFINE m == Head(up[p])
  <1>1. up[p] # <<>> /\ m.type = "INVITE"
    BY DEF OnInvite, Receive
  <1>2. m \in Messages /\ UpMessage(p, m)
    BY <1>1, MessageFacts
  <1>3. CallerRequests(p, m) /\ m.call \in Calls /\ m.method = "INVITE" /\ p = m.from /\ m.from \in Phones
    BY <1>1, <1>2
    DEF UpMessage, Registers, CallerRequests, CalledAnswers, CalledHangUp, Finals, ByCaller, Messages
  <1>4. clients' = clients
    BY DEF OnInvite
  <1>5. CASE UNCHANGED <<sessions, down>>
    BY <1>1, <1>4, <1>5 DEF Handles, Delivers, Moves, SipTypeOK
  <1>6. CASE down' = EndHandle(m.from, [m EXCEPT !.type = "NotFound"], p) /\ UNCHANGED sessions
    <2>1. PICK n : n = [m EXCEPT !.type = "NotFound"]
      OBVIOUS
    <2>2. /\ n \in Messages /\ n.type = "NotFound" /\ n.method = m.method /\ n.call = m.call
          /\ n.from = m.from /\ n.to = m.to
      BY <1>2, <2>1, RenamedFacts DEF Types
    <2>3. [n EXCEPT !.type = "NotFound"] = n
      BY <2>2 DEF Messages
    <2>4. DownMessage(p, n) /\ Passes(p, m, n)
      BY <1>1, <1>3, <2>2 DEF DownMessage, Passes, CallerRequests, ByCaller
    <2>5. Delivers(m)
      BY <1>3, <1>6, <2>1, <2>2, <2>3, <2>4, EndHandleDelivers
    <2>6. QED
      BY <1>1, <1>4, <1>6, <2>5 DEF Handles, Moves, SipTypeOK
  <1>7. CASE /\ sessions' = IF sessions[m.call] # NoSession THEN sessions
                            ELSE [sessions EXCEPT ![m.call].state = "Invited"]
             /\ down' = EndHandle(m.to, m, p)
    <2>1. Delivers(m)
      BY <1>1, <1>2, <1>7, RequestDelivers
    <2>2. Moves(m)
      <3>1. PICK k \in Calls : k = m.call
        BY <1>3
      <3>2. sessions \in [Calls -> Sessions]
        BY DEF SipTypeOK, Sessions
      <3>3. CASE sessions[k] # NoSession
        BY <1>7, <3>1, <3>3 DEF Moves
      <3>4. CASE sessions[k] = NoSession
        <4>1. PICK r : r = [state |-> "Invited", dest |-> sessions[k].dest]
          OBVIOUS
        <4>2. [sessions[k] EXCEPT !.state = "Invited"] = r /\ sessions[k].dest \in BOOLEAN
          BY <3>2, <4>1 DEF Sessions
        <4>3. sessions' = [sessions EXCEPT ![k] = [sessions[k] EXCEPT !.state = "Invited"]]
          BY <1>7, <3>1, <3>4
        <4>4. r \in Sessions /\ r.state # "Connected"
          BY <4>1, <4>2 DEF Sessions, States
        <4>5. QED
          BY <3>1, <4>2, <4>3, <4>4 DEF Moves
      <3>5. QED
        BY <3>3, <3>4
    <2>3. QED
      BY <1>1, <1>4, <2>1, <2>2 DEF Handles, SipTypeOK
  <1>8. QED
    BY <1>5, <1>6, <1>7 DEF OnInvite

LEMMA ForwardedHandles ==
    ASSUME SipTypeOK, Placed, NEW p \in Phones, OnForwarded(p)
    PROVE  Handles(p, Head(up[p]))
  <1> DEFINE m == Head(up[p])
  <1>1. up[p] # <<>> /\ m.type \in {"Trying", "Ringing", "RequestTerminated"}
    BY DEF OnForwarded, Receive
  <1>2. m \in Messages /\ UpMessage(p, m)
    BY <1>1, MessageFacts
  <1>3. down' = EndHandle(m.from, m, p) /\ clients' = clients /\ sessions' = sessions
    BY DEF OnForwarded
  <1>4. Delivers(m)
    BY <1>1, <1>2, <1>3, AnswerDelivers DEF Finals
  <1>5. QED
    BY <1>1, <1>3, <1>4 DEF Handles, Moves, SipTypeOK

LEMMA RefusedHandles ==
    ASSUME SipTypeOK, Placed, NEW p \in Phones, OnRefused(p)
    PROVE  Handles(p, Head(up[p]))
  <1> DEFINE m == Head(up[p])
  <1>1. up[p] # <<>> /\ m.type \in {"Busy", "Unavailable"}
    BY DEF OnRefused, Receive
  <1>2. m \in Messages /\ UpMessage(p, m)
    BY <1>1, MessageFacts
  <1>3. /\ down' = EndHandle(m.from, m, p) /\ clients' = clients
        /\ sessions' = SetCallState(m.call, m.type)
    BY DEF OnRefused
  <1>4. Delivers(m) /\ m.call \in Calls
    BY <1>1, <1>2, <1>3, AnswerDelivers DEF Finals
  <1>5. Moves(m)
    BY <1>1, <1>3, <1>4, StateMoves DEF States
  <1>6. QED
    BY <1>1, <1>3, <1>4, <1>5 DEF Handles, SipTypeOK

LEMMA CancelHandles ==
    ASSUME SipTypeOK, Placed, NEW p \in Phones, OnCancel(p)
    PROVE  Handles(p, Head(up[p]))
  <1> DEFINE m == Head(up[p])
  <1>1. up[p] # <<>> /\ m.type = "CANCEL"
    BY DEF OnCancel, Receive
  <1>2. m \in Messages /\ UpMessage(p, m)
    BY <1>1, MessageFacts
  <1>3. /\ down' = EndHandle(m.to, m, p) /\ clients' = clients
        /\ sessions' = SetCallState(m.call, "Cancel")
    BY DEF OnCancel
  <1>4. Delivers(m) /\ m.call \in Calls
    BY <1>1, <1>2, <1>3, RequestDelivers
  <1>5. Moves(m)
    BY <1>3, <1>4, StateMoves DEF States
  <1>6. QED
    BY <1>1, <1>3, <1>4, <1>5 DEF Handles, SipTypeOK

LEMMA ByeHandles ==
    ASSUME SipTypeOK, Placed, NEW p \in Phones, OnBye(p)
    PROVE  Handles(p, Head(up[p]))
  <1> DEFINE m == Head(up[p])
  <1>1. up[p] # <<>> /\ m.type = "BYE"
    BY DEF OnBye, Receive
  <1>2. m \in Messages /\ UpMessage(p, m)
    BY <1>1, MessageFacts
  <1>3. /\ down' = EndHandle(m.to, m, p) /\ clients' = clients
        /\ sessions' = SetCallState(m.call, "Bye")
    BY DEF OnBye
  <1>4. Delivers(m) /\ m.call \in Calls
    BY <1>1, <1>2, <1>3, RequestDelivers
  <1>5. Moves(m) /\ sessions'[m.call].state # "Connected"
    BY <1>3, <1>4, StateMoves DEF States
  <1>6. QED
    BY <1>3, <1>4, <1>5 DEF Handles, SipTypeOK

LEMMA OkHandles ==
    ASSUME SipTypeOK, Placed, NEW p \in Phones, OnOk(p)
    PROVE  Handles(p, Head(up[p]))
  <1> DEFINE m == Head(up[p])
  <1>1. up[p] # <<>> /\ m.type = "OK" /\ clients' = clients
    BY DEF OnOk, Receive
  <1>2. m \in Messages /\ UpMessage(p, m)
    BY <1>1, MessageFacts
  <1>3. PICK k \in Calls : k = m.call
    BY <1>1, <1>2
    DEF UpMessage, Registers, CallerRequests, CalledAnswers, CalledHangUp, ByCaller, ByCalled
  <1>4. sessions' = sessions \/ sessions' = EndCall(k) => Moves(m)
    BY <1>3, EndMoves DEF Moves
  <1>5. down' = EndHandle(m.from, m, p) => Delivers(m)
    BY <1>1, <1>2, AnswerDelivers DEF Finals
  <1>6. down' = down => Delivers(m)
    BY DEF Delivers
  <1>7. CASE m.method = "INVITE" /\ Connect(m, p)
    <2>1. PICK r : r = [state |-> "Connected", dest |-> TRUE]
      OBVIOUS
    <2>2. r \in Sessions /\ r.dest
      BY <2>1 DEF Sessions, States
    <2>3. sessions' = [sessions EXCEPT ![k] = r]
      BY <1>3, <1>7, <2>1 DEF Connect
    <2>4. Moves(m)
      BY <1>1, <1>3, <1>7, <2>2, <2>3 DEF Moves
    <2>5. QED
      BY <1>1, <1>5, <1>7, <2>4 DEF Handles, SipTypeOK, Connect
  <1>8. CASE /\ sessions' = sessions \/ sessions' = EndCall(k)
             /\ down' = down \/ down' = EndHandle(m.from, m, p)
    BY <1>1, <1>4, <1>5, <1>6, <1>8 DEF Handles, SipTypeOK
  <1>9. QED
    BY <1>3, <1>7, <1>8 DEF OnOk

LEMMA AckHandles ==
    ASSUME SipTypeOK, Placed, NEW p \in Phones, OnAck(p)
    PROVE  Handles(p, Head(up[p]))
  <1> DEFINE m == Head(up[p])
  <1>1. up[p] # <<>> /\ m.type = "ACK" /\ clients' = clients
    BY DEF OnAck, Receive
  <1>2. m \in Messages /\ UpMessage(p, m)
    BY <1>1, MessageFacts
  <1>3. PICK k \in Calls : k = m.call
    BY <1>1, <1>2
    DEF UpMessage, Registers, CallerRequests, CalledAnswers, CalledHangUp, ByCaller, ByCalled, Finals
  <1>4. Delivers(m)
    <2>1. down' = down \/ down' = EndHandle(m.to, m, p)
      BY DEF OnAck
    <2>2. down' = EndHandle(m.to, m, p) => Delivers(m)
      BY <1>1, <1>2, RequestDelivers
    <2>3. QED
      BY <2>1, <2>2 DEF Delivers
  <1>5. Moves(m)
    <2>1. sessions' = sessions \/ sessions' = EndCall(k)
      BY <1>3 DEF OnAck
    <2>2. QED
      BY <1>3, <2>1, EndMoves DEF Moves
  <1>6. QED
    BY <1>1, <1>4, <1>5 DEF Handles, SipTypeOK

LEMMA ServerHandles ==
    ASSUME SipTypeOK, Placed, NEW p \in Phones, Server(p)
    PROVE  /\ up[p] # <<>> /\ up' = Popped(up, p) /\ Handles(p, Head(up[p]))
           /\ UNCHANGED <<caller, called, registers, disturbed, duplicated>>
           /\ leftover' = (leftover \/ Head(up[p]).sdp)
  <1>1. Handles(p, Head(up[p]))
    BY RegisterHandles, InviteHandles, ForwardedHandles, RefusedHandles, CancelHandles,
       ByeHandles, OkHandles, AckHandles DEF Server
  <1>2. \E types : Receive(p, types)
    BY DEF Server, OnRegister, OnInvite, OnForwarded, OnRefused, OnCancel, OnBye, OnOk, OnAck
  <1>3. QED
    BY <1>1, <1>2 DEF Receive, Popped, phones, faults


(***************************************************************************)
(* The messages in the queues, for any queues.                             *)
(***************************************************************************)
Ups(u) == u \in Queues /\ \A p \in Phones : \A m \in ToSet(u[p]) : UpMessage(p, m)
Downs(d) == d \in Queues /\ \A p \in Phones : \A m \in ToSet(d[p]) : DownMessage(p, m)

LEMMA FewerAreUps ==
    ASSUME NEW u, Ups(u), NEW u2 \in Queues, \A p \in Phones : Thinned(u[p], u2[p])
    PROVE  Ups(u2)
  <1>1. \A p \in Phones : ToSet(u2[p]) \subseteq ToSet(u[p])
    BY ThinnedSet DEF Ups, Queues
  <1>2. QED
    BY <1>1 DEF Ups

LEMMA FewerAreDowns ==
    ASSUME NEW d, Downs(d), NEW d2 \in Queues, \A p \in Phones : Thinned(d[p], d2[p])
    PROVE  Downs(d2)
  <1>1. \A p \in Phones : ToSet(d2[p]) \subseteq ToSet(d[p])
    BY ThinnedSet DEF Downs, Queues
  <1>2. QED
    BY <1>1 DEF Downs

LEMMA OneMoreIsUp ==
    ASSUME NEW u, Ups(u), NEW p \in Phones, NEW m \in Messages, UpMessage(p, m),
           NEW u2, u2 = Added(u, p, m)
    PROVE  Ups(u2)
  <1>1. u2 \in Queues
    BY AddQueue DEF Ups
  <1>2. \A r \in Phones : \A x : x \in ToSet(u2[r]) <=> x \in ToSet(u[r]) \/ (r = p /\ x = m)
    BY AddSet DEF Ups
  <1>3. QED
    BY <1>1, <1>2 DEF Ups

LEMMA OneMoreIsDown ==
    ASSUME NEW d, Downs(d), NEW p \in Phones, NEW m \in Messages, DownMessage(p, m),
           NEW d2, d2 = Added(d, p, m)
    PROVE  Downs(d2)
  <1>1. d2 \in Queues
    BY AddQueue DEF Downs
  <1>2. \A r \in Phones : \A x : x \in ToSet(d2[r]) <=> x \in ToSet(d[r]) \/ (r = p /\ x = m)
    BY AddSet DEF Downs
  <1>3. QED
    BY <1>1, <1>2 DEF Downs

LEMMA PlacedIs ==
    Placed <=> /\ Ups(up) /\ Downs(down)
               /\ caller \in [Calls -> CallerStates] /\ called \in [Calls -> CalledStates]
  BY DEF Placed, Ups, Downs

(***************************************************************************)
(* A step of the server.                                                   *)
(***************************************************************************)
LEMMA ServerKeepsTypes ==
    ASSUME SipTypeOK, Placed, NEW p \in Phones, Server(p)
    PROVE  SipTypeOK' /\ Placed'
  <1>1. PICK m : m = Head(up[p])
    OBVIOUS
  <1>2. /\ up[p] # <<>> /\ up' = Popped(up, p) /\ Handles(p, m)
        /\ UNCHANGED <<caller, called, registers, disturbed, duplicated>>
        /\ leftover' = (leftover \/ m.sdp)
    BY <1>1, ServerHandles
  <1>3. m.sdp \in BOOLEAN
    BY <1>1, <1>2, MessageFacts
  <1>4. /\ sessions' \in [Calls -> Sessions]
        /\ \A k \in Calls : sessions'[k].state = "Connected" => sessions'[k].dest
    <2>1. /\ sessions \in [Calls -> Sessions]
          /\ \A k \in Calls : sessions[k].state = "Connected" => sessions[k].dest
      BY DEF SipTypeOK, Sessions
    <2>2. CASE sessions' = sessions
      BY <2>1, <2>2
    <2>3. ASSUME NEW k \in Calls, NEW r \in Sessions, sessions' = [sessions EXCEPT ![k] = r],
                 r.state = "Connected" => r.dest
          PROVE  /\ sessions' \in [Calls -> Sessions]
                 /\ \A j \in Calls : sessions'[j].state = "Connected" => sessions'[j].dest
      BY <2>1, <2>3
    <2>4. QED
      BY <1>2, <2>2, <2>3 DEF Handles, Moves
  <1>5. SipTypeOK'
    BY <1>2, <1>3, <1>4 DEF SipTypeOK, Handles, Sessions
  <1>6. Ups(up')
    <2>1. PICK u2 : u2 = Popped(up, p)
      OBVIOUS
    <2>2. u2 \in Queues /\ \A r \in Phones : Thinned(up[r], u2[r])
      BY <1>2, <2>1, PopQueue DEF Placed
    <2>3. Ups(u2)
      BY <2>2, PlacedIs, FewerAreUps
    <2>4. QED
      BY <1>2, <2>1, <2>3
  <1>7. Downs(down')
    <2>1. Downs(down)
      BY PlacedIs
    <2>2. CASE down' = down
      BY <2>1, <2>2
    <2>3. ASSUME NEW q \in Phones, NEW m2 \in Messages, down' = Added(down, q, m2), DownMessage(q, m2)
          PROVE  Downs(down')
      BY <2>1, <2>3, OneMoreIsDown
    <2>4. QED
      BY <1>2, <2>2, <2>3 DEF Handles, Delivers
  <1>8. QED
    BY <1>2, <1>5, <1>6, <1>7 DEF Placed, Ups, Downs

LEMMA ServerKeepsCall ==
    ASSUME SipTypeOK, Placed, NEW k \in Calls, CallInv(k), NEW p \in Phones, Server(p)
    PROVE  CallInv(k)'
  <1>1. PICK m, u2, s, t, st :
            /\ m = Head(up[p]) /\ u2 = Popped(up, p)
            /\ s = caller[k] /\ t = called[k] /\ st = sessions[k].state
    OBVIOUS
  <1>2. PICK st2 : st2 = sessions'[k].state
    OBVIOUS
  <1>3. /\ up[p] # <<>> /\ up' = u2 /\ Handles(p, m)
        /\ UNCHANGED <<caller, called>>
    BY <1>1, ServerHandles
  <1>4. m \in ToSet(up[p]) /\ UpMessage(p, m) /\ up \in Queues /\ down \in Queues
    BY <1>1, <1>3, MessageFacts DEF Placed
  <1>5. CallOf(k, up, down, s, t, st)
    BY <1>1 DEF CallInv
  <1>6. u2 \in Queues /\ \A r \in Phones : Thinned(up[r], u2[r])
    BY <1>1, <1>3, <1>4, PopQueue
  <1>7. CallOf(k, u2, down, s, t, st)
    BY <1>4, <1>5, <1>6, SameQueues, CallThinned
  <1>8. Mine(k, m) => Tells(k, m, s, t)
    BY <1>4, <1>5 DEF CallOf, Told
  <1>9. \A c \in Sole : InUp(k, c, m) => NoneIn(k, c, u2, down)
    BY <1>1, <1>3, <1>4, <1>5, PopUpNone DEF CallOf
  <1>10. /\ m.type # "NotFound"
         /\ st = "Connected" => ~PassedUp(k, m)
    <2>1. m.type # "NotFound"
      BY <1>4 DEF UpMessage, Registers, CallerRequests, CalledAnswers, CalledHangUp, Finals
    <2>2. st = "Connected" => ~PassedUp(k, m)
      BY <1>4, <1>5 DEF CallOf, Connects
    <2>3. QED
      BY <2>1, <2>2
  <1>11. /\ st2 = st \/ st2 # "Connected" \/ (Mine(k, m) /\ m.method = "INVITE" /\ m.type = "OK")
         /\ m.call = k /\ m.type = "BYE" => st2 # "Connected"
    <2>1. sessions \in [Calls -> Sessions]
      BY DEF SipTypeOK, Sessions
    <2>2. m.call = k /\ m.type = "BYE" => st2 # "Connected"
      BY <1>2, <1>3 DEF Handles
    <2>3. CASE sessions' = sessions
      BY <1>1, <1>2, <2>2, <2>3
    <2>4. ASSUME NEW j \in Calls, NEW r \in Sessions, j = m.call,
                 sessions' = [sessions EXCEPT ![j] = r],
                 r.state = "Connected" => m.method = "INVITE" /\ m.type = "OK"
          PROVE  st2 = st \/ st2 # "Connected" \/ (Mine(k, m) /\ m.method = "INVITE" /\ m.type = "OK")
      <3>1. CASE j = k
        BY <1>2, <2>1, <2>4, <3>1 DEF Mine
      <3>2. CASE j # k
        BY <1>1, <1>2, <2>1, <2>4, <3>2
      <3>3. QED
        BY <3>1, <3>2
    <2>5. QED
      BY <1>3, <2>2, <2>3, <2>4 DEF Handles, Moves
  <1>12. CallOf(k, u2, down, s, t, st2)
    <2>1. CASE st2 = st \/ st2 # "Connected"
      BY <1>7, <2>1, CallSession
    <2>2. CASE st2 = "Connected" /\ Mine(k, m) /\ m.method = "INVITE" /\ m.type = "OK"
      <3>1. s \in Waiting /\ t = "answered"
        BY <1>8, <2>2 DEF Tells, Finals
      <3>2. NoneIn(k, "offer", u2, down)
        <4>1. InUp(k, "offer", m)
          BY <2>2 DEF InUp, Mine, Finals
        <4>2. QED
          BY <1>9, <4>1 DEF Sole
      <3>3. CallOf(k, u2, down, s, t, "Connected")
        BY <1>4, <1>6, <1>7, <3>1, <3>2, CallConnects
      <3>4. QED
        BY <2>2, <3>3
    <2>3. QED
      BY <1>11, <2>1, <2>2
  <1>13. CallOf(k, u2, down', s, t, st2)
    <2>1. CASE down' = down
      BY <1>12, <2>1
    <2>2. ASSUME NEW q \in Phones, NEW m2 \in Messages, down' = Added(down, q, m2), Passes(q, m, m2)
          PROVE  CallOf(k, u2, down', s, t, st2)
      <3>1. Mine(k, m2) =>
                /\ Mine(k, m) /\ m2.method = m.method /\ m2.from = m.from
                /\ \/ m2.type = m.type
                   \/ /\ m2.type = "NotFound"
                      /\ m.method = "INVITE" /\ q = Caller[k] => m.type = "INVITE"
        BY <2>2 DEF Passes, Mine
      <3>2. Mine(k, m2) => Tells(k, m2, s, t) /\ TellsBack(k, q, m2, s, t)
        <4>1. Mine(k, m2) => Tells(k, m2, s, t)
          BY <1>8, <3>1 DEF Tells, Finals
        <4>2. Mine(k, m2) => TellsBack(k, q, m2, s, t)
          BY <1>8, <1>10, <3>1 DEF Tells, TellsBack
        <4>3. QED
          BY <4>1, <4>2
      <3>3. st2 = "Connected" => ~PassedDown(k, m2)
        <4>1. SUFFICES ASSUME st2 = "Connected", PassedDown(k, m2) PROVE FALSE
          OBVIOUS
        <4>2. Mine(k, m2) /\ m2.method = "BYE"
          BY <4>1 DEF PassedDown, Mine
        <4>3. m.call = k /\ m.method = "BYE"
          BY <3>1, <4>2 DEF Mine
        <4>4. m.type # "BYE" /\ st = "Connected"
          BY <1>11, <4>1, <4>3
        <4>5. QED
          BY <1>10, <4>3, <4>4 DEF PassedUp
      <3>4. \A c \in Sole : InDown(k, c, q, m2) => NoneIn(k, c, u2, down)
        <4>1. TAKE c \in Sole
        <4>2. HAVE InDown(k, c, q, m2)
        <4>3. Mine(k, m2)
          BY <4>2, SoleIsMine
        <4>4. InUp(k, c, m)
          BY <1>10, <3>1, <4>2, <4>3 DEF InUp, InDown, Mine, Finals
        <4>5. QED
          BY <1>9, <4>4
      <3>5. QED
        BY <1>4, <1>6, <1>12, <2>2, <3>2, <3>3, <3>4, CallAddsDown
    <2>3. QED
      BY <1>3, <2>1, <2>2 DEF Handles, Delivers
  <1>14. QED
    BY <1>1, <1>2, <1>3, <1>13 DEF CallInv

(***************************************************************************)
(* What a phone says of a call k: nothing, one message or two.             *)
(***************************************************************************)
Says(k, p, a) == a \in Messages /\ UpMessage(p, a) /\ Mine(k, a)

SaysAll(k, p, ms) ==
    \/ ms = <<>>
    \/ \E a \in Messages : ms = <<a>> /\ Says(k, p, a)
    \/ \E a, b \in Messages : ms = <<a, b>> /\ Says(k, p, a) /\ Says(k, p, b)

Sent(u, p, ms) == [u EXCEPT ![p] = @ \o ms]

LEMMA ConcatFacts ==
    ASSUME NEW S, NEW s \in Seq(S), NEW a \in S, NEW b \in S
    PROVE  /\ s \o <<a>> = Append(s, a)
           /\ s \o <<a, b>> = Append(Append(s, a), b)
  OBVIOUS

LEMMA NothingSent ==
    ASSUME NEW u \in Queues, NEW p \in Phones, NEW ms, ms = <<>>
    PROVE  Sent(u, p, ms) = u
  <1>1. u[p] \in Seq(Messages)
    BY DEF Queues
  <1>2. u[p] \o ms = u[p]
    BY <1>1
  <1>3. QED
    BY <1>2 DEF Sent, Queues

LEMMA OneSent ==
    ASSUME NEW u \in Queues, NEW p \in Phones, NEW a \in Messages, NEW ms, ms = <<a>>
    PROVE  Sent(u, p, ms) = Added(u, p, a)
  <1>1. u[p] \in Seq(Messages)
    BY DEF Queues
  <1>2. u[p] \o ms = Append(u[p], a)
    BY <1>1, ConcatFacts
  <1>3. QED
    BY <1>2 DEF Sent, Added

LEMMA TwoSent ==
    ASSUME NEW u \in Queues, NEW p \in Phones, NEW a \in Messages, NEW b \in Messages,
           NEW ms, ms = <<a, b>>
    PROVE  Sent(u, p, ms) = Added(Added(u, p, a), p, b)
  <1>1. u[p] \in Seq(Messages)
    BY DEF Queues
  <1>2. u[p] \o ms = Append(Append(u[p], a), b)
    BY <1>1, ConcatFacts
  <1>3. QED
    BY <1>2 DEF Sent, Added, Queues

LEMMA SendsOne ==
    ASSUME up \in Queues, NEW p \in Phones, NEW m \in Messages, Sends(p, <<m>>)
    PROVE  up' = Added(up, p, m) /\ UNCHANGED <<server, faults>>
  <1>1. up' = Sent(up, p, <<m>>)
    BY DEF Sends, Sent
  <1>2. QED
    BY <1>1, OneSent DEF Sends

(* A message of another call, or a registration, says nothing of a call.   *)
LEMMA OthersAdd ==
    ASSUME NEW j, NEW u \in Queues, NEW d \in Queues, NEW s, NEW t, NEW st,
           CallOf(j, u, d, s, t, st), NEW p \in Phones, NEW m \in Messages, ~Mine(j, m),
           NEW u2, u2 = Added(u, p, m)
    PROVE  CallOf(j, u2, d, s, t, st)
  <1>1. \A c \in Sole : ~InUp(j, c, m)
    BY SoleIsMine
  <1>2. QED
    BY <1>1, CallAddsUp

LEMMA SaysAreUps ==
    ASSUME NEW u, Ups(u), NEW k, NEW p \in Phones, NEW ms, SaysAll(k, p, ms),
           NEW u2, u2 = Sent(u, p, ms)
    PROVE  /\ Ups(u2)
           /\ \A j, d, s, t, st : j # k /\ d \in Queues /\ CallOf(j, u, d, s, t, st) =>
                                      CallOf(j, u2, d, s, t, st)
  <1>0. u \in Queues
    BY DEF Ups
  <1>1. CASE ms = <<>>
    <2>1. u2 = u
      BY <1>0, <1>1, NothingSent
    <2>2. QED
      BY <2>1
  <1>2. ASSUME NEW a \in Messages, ms = <<a>>, Says(k, p, a)
        PROVE  /\ Ups(u2)
               /\ \A j, d, s, t, st : j # k /\ d \in Queues /\ CallOf(j, u, d, s, t, st) =>
                                          CallOf(j, u2, d, s, t, st)
    <2>1. u2 = Added(u, p, a)
      BY <1>0, <1>2, OneSent
    <2>2. Ups(u2)
      BY <1>2, <2>1, OneMoreIsUp DEF Says
    <2>3. \A j : j # k => ~Mine(j, a)
      BY <1>2 DEF Says, Mine
    <2>4. QED
      BY <1>0, <2>1, <2>2, <2>3, OthersAdd
  <1>3. ASSUME NEW a \in Messages, NEW b \in Messages, ms = <<a, b>>, Says(k, p, a), Says(k, p, b)
        PROVE  /\ Ups(u2)
               /\ \A j, d, s, t, st : j # k /\ d \in Queues /\ CallOf(j, u, d, s, t, st) =>
                                          CallOf(j, u2, d, s, t, st)
    <2>1. PICK u1 : u1 = Added(u, p, a)
      OBVIOUS
    <2>2. u2 = Added(u1, p, b)
      BY <1>0, <1>3, <2>1, TwoSent
    <2>3. Ups(u1)
      BY <1>3, <2>1, OneMoreIsUp DEF Says
    <2>4. Ups(u2)
      BY <1>3, <2>2, <2>3, OneMoreIsUp DEF Says
    <2>5. \A j : j # k => ~Mine(j, a) /\ ~Mine(j, b)
      BY <1>3 DEF Says, Mine
    <2>6. u1 \in Queues
      BY <2>3 DEF Ups
    <2>7. ASSUME NEW j, NEW d \in Queues, NEW s, NEW t, NEW st, j # k, CallOf(j, u, d, s, t, st)
          PROVE  CallOf(j, u2, d, s, t, st)
      <3>1. CallOf(j, u1, d, s, t, st)
        BY <1>0, <2>1, <2>5, <2>7, OthersAdd
      <3>2. QED
        BY <2>2, <2>5, <2>6, <2>7, <3>1, OthersAdd
    <2>8. QED
      BY <2>4, <2>7
  <1>4. QED
    BY <1>1, <1>2, <1>3 DEF SaysAll

(* A request of a party of a call.                                         *)
LEMMA RequestFacts ==
    ASSUME NEW k \in Calls, NEW type \in Methods \ {"REGISTER"},
           NEW p \in Phones, NEW a, a = Request(k, type, p),
           \/ p = Caller[k]
           \/ p = Called[k] /\ type = "BYE"
    PROVE  /\ Says(k, p, a) /\ a.type = type /\ a.method = type /\ a.call = k /\ a.from = p
           /\ a.to = IF p = Caller[k] THEN Called[k] ELSE Caller[k]
  <1>1. /\ Caller[k] \in Phones /\ Called[k] \in Phones /\ Caller[k] # Called[k]
    BY PartiesAssumption
  <1>2. PICK sdp \in BOOLEAN : sdp = FALSE
    OBVIOUS
  <1>3. PICK r \in Phones : r = IF p = Caller[k] THEN Called[k] ELSE Caller[k]
    BY <1>1
  <1>4. a = [type |-> type, method |-> type, call |-> k, from |-> p, to |-> r, sdp |-> sdp]
    BY <1>2, <1>3 DEF Request, Message
  <1>5. /\ a \in Messages /\ a.type = type /\ a.method = type /\ a.call = k /\ a.from = p /\ a.to = r
    BY <1>4 DEF Messages, Types
  <1>6. UpMessage(p, a)
    BY <1>1, <1>3, <1>5 DEF UpMessage, CallerRequests, CalledHangUp, ByCaller, ByCalled, Methods
  <1>7. QED
    BY <1>3, <1>5, <1>6 DEF Says, Mine

(* An answer of the called party.                                          *)
LEMMA AnswerFacts ==
    ASSUME NEW k \in Calls, NEW type \in {"Trying", "Ringing"} \cup Finals, NEW sdp \in BOOLEAN,
           NEW a, a = Reply(Invite(k), type, sdp)
    PROVE  /\ Says(k, Called[k], a) /\ a.type = type /\ a.method = "INVITE" /\ a.call = k
           /\ a.from = Caller[k] /\ a.to = Called[k]
  <1>1. /\ Caller[k] \in Phones /\ Called[k] \in Phones /\ Caller[k] # Called[k]
    BY PartiesAssumption
  <1>2. PICK r : r = Invite(k)
    OBVIOUS
  <1>3. /\ r \in Messages /\ r.method = "INVITE" /\ r.call = k /\ r.from = Caller[k]
        /\ r.to = Called[k]
    BY <1>1, <1>2, RequestFacts DEF Invite, Methods, Says
  <1>4. type \in Types
    BY DEF Types
  <1>5. /\ a \in Messages /\ a.type = type /\ a.method = "INVITE" /\ a.call = k
        /\ a.from = Caller[k] /\ a.to = Called[k]
    BY <1>2, <1>3, <1>4, ReplyFacts
  <1>6. UpMessage(Called[k], a)
    BY <1>5 DEF UpMessage, CalledAnswers, ByCaller
  <1>7. QED
    BY <1>5, <1>6 DEF Says, Mine

(***************************************************************************)
(* A step of a user, or a called party that accepts without a body.        *)
(***************************************************************************)
Kept == SipTypeOK' /\ Placed' /\ \A j \in Calls : CallInv(j) => CallInv(j)'

LEMMA UserKeeps ==
    ASSUME SipTypeOK, Placed, NEW k \in Calls, NEW p \in Phones, NEW m, Says(k, p, m),
           NEW s2 \in CallerStates, NEW t2 \in CalledStates,
           up' = Added(up, p, m), caller' = [caller EXCEPT ![k] = s2],
           called' = [called EXCEPT ![k] = t2], UNCHANGED <<server, down, duplicated>>,
           disturbed' \in 0 .. MaxDisturbed,
           CallInv(k) => CallOf(k, up', down, s2, t2, sessions[k].state)
    PROVE  Kept
  <1>1. SipTypeOK'
    BY DEF SipTypeOK, server
  <1>2. /\ caller \in [Calls -> CallerStates] /\ called \in [Calls -> CalledStates]
        /\ Ups(up) /\ Downs(down) /\ up \in Queues /\ down \in Queues
    BY PlacedIs DEF Ups, Downs
  <1>3. Ups(up')
    BY <1>2, OneMoreIsUp DEF Says
  <1>4. Placed'
    <2>1. /\ caller' \in [Calls -> CallerStates] /\ called' \in [Calls -> CalledStates]
      BY <1>2
    <2>2. QED
      BY <1>2, <1>3, <2>1 DEF Placed, Ups, Downs
  <1>5. ASSUME NEW j \in Calls, CallInv(j) PROVE CallInv(j)'
    <2>1. CASE j = k
      <3>1. CallOf(k, up', down, s2, t2, sessions[k].state)
        BY <1>5, <2>1
      <3>2. caller'[k] = s2 /\ called'[k] = t2 /\ down' = down /\ sessions' = sessions
        BY <1>2 DEF server
      <3>3. QED
        BY <2>1, <3>1, <3>2 DEF CallInv
    <2>2. CASE j # k
      <3>1. ~Mine(j, m)
        BY <2>2 DEF Says, Mine
      <3>2. PICK u2 : u2 = Added(up, p, m)
        OBVIOUS
      <3>3. m \in Messages
        BY DEF Says
      <3>4. CallOf(j, u2, down, caller[j], called[j], sessions[j].state)
        BY <1>2, <1>5, <3>1, <3>2, <3>3, OthersAdd DEF CallInv
      <3>5. caller'[j] = caller[j] /\ called'[j] = called[j] /\ down' = down /\ sessions' = sessions
        BY <1>2, <2>2 DEF server
      <3>6. QED
        BY <3>2, <3>4, <3>5 DEF CallInv
    <2>3. QED
      BY <2>1, <2>2
  <1>6. QED
    BY <1>1, <1>4, <1>5 DEF Kept

LEMMA SendInviteKeeps ==
    ASSUME SipTypeOK, Placed, NEW k \in Calls, SendInvite(k)
    PROVE  Kept
  <1>1. PICK p \in Phones : p = Caller[k]
    BY PartiesAssumption
  <1>2. PICK t, st : t = called[k] /\ st = sessions[k].state
    OBVIOUS
  <1>3. PICK sdp \in BOOLEAN : Sends(p, <<[Request(k, "INVITE", p) EXCEPT !.sdp = sdp]>>)
    BY <1>1 DEF SendInvite
  <1>4. PICK a : a = Request(k, "INVITE", p)
    OBVIOUS
  <1>5. PICK m : m = [a EXCEPT !.sdp = sdp]
    OBVIOUS
  <1>6. Says(k, p, m) /\ m.type = "INVITE" /\ m.method = "INVITE" /\ m.call = k /\ m \in Messages
    <2>1. /\ Says(k, p, a) /\ a \in Messages /\ a.type = "INVITE" /\ a.method = "INVITE"
          /\ a.call = k /\ a.from = p /\ a.to = Called[k]
      BY <1>1, <1>4, RequestFacts DEF Methods, Says
    <2>2. m = [type |-> "INVITE", method |-> "INVITE", call |-> k, from |-> p, to |-> a.to, sdp |-> sdp]
      BY <1>5, <2>1 DEF Messages
    <2>3. /\ m \in Messages /\ m.type = "INVITE" /\ m.method = "INVITE" /\ m.call = k
          /\ m.from = p /\ m.to = Called[k]
      BY <2>1, <2>2 DEF Messages
    <2>4. UpMessage(p, m)
      BY <1>1, <2>3 DEF UpMessage, CallerRequests, ByCaller
    <2>5. QED
      BY <2>3, <2>4 DEF Says, Mine
  <1>7. up \in Queues /\ down \in Queues /\ called \in [Calls -> CalledStates]
    BY DEF Placed
  <1>8. up' = Added(up, p, m)
    BY <1>3, <1>4, <1>5, <1>6, <1>7, SendsOne
  <1>9. CallInv(k) => CallOf(k, up', down, "inviting", t, st)
    <2>1. SUFFICES ASSUME CallInv(k) PROVE CallOf(k, up', down, "inviting", t, st)
      OBVIOUS
    <2>2. CallOf(k, up, down, "idle", t, st)
      BY <1>2, <2>1 DEF CallInv, SendInvite
    <2>3. /\ CallOf(k, up, down, "inviting", t, st) /\ t = "idle" /\ st # "Connected"
          /\ NoneIn(k, "offer", up, down)
      BY <1>7, <2>2, Invites
    <2>4. Tells(k, m, "inviting", t)
      BY <1>6, <2>3 DEF Tells, Finals
    <2>5. \A c \in Sole : InUp(k, c, m) => NoneIn(k, c, up, down)
      BY <1>6, <2>3 DEF InUp
    <2>6. QED
      BY <1>6, <1>7, <1>8, <2>3, <2>4, <2>5, CallAddsUp
  <1>10. /\ caller' = [caller EXCEPT ![k] = "inviting"] /\ called' = [called EXCEPT ![k] = t]
         /\ UNCHANGED <<server, down, duplicated>> /\ disturbed' \in 0 .. MaxDisturbed
         /\ t \in CalledStates /\ "inviting" \in CallerStates
    BY <1>2, <1>3, <1>7 DEF SendInvite, Sends, faults, SipTypeOK, CallerStates
  <1>11. QED
    BY <1>2, <1>6, <1>8, <1>9, <1>10, UserKeeps

LEMMA SendCancelKeeps ==
    ASSUME SipTypeOK, Placed, NEW k \in Calls, SendCancel(k)
    PROVE  Kept
  <1>1. PICK p \in Phones : p = Caller[k]
    BY PartiesAssumption
  <1>2. PICK t, st : t = called[k] /\ st = sessions[k].state
    OBVIOUS
  <1>3. PICK m : m = Request(k, "CANCEL", p)
    OBVIOUS
  <1>4. Says(k, p, m) /\ m.type = "CANCEL" /\ m.method = "CANCEL" /\ m \in Messages
    BY <1>1, <1>3, RequestFacts DEF Methods, Says
  <1>5. up \in Queues /\ down \in Queues /\ called \in [Calls -> CalledStates]
    BY DEF Placed
  <1>6. up' = Added(up, p, m)
    BY <1>1, <1>3, <1>4, <1>5, SendsOne DEF SendCancel
  <1>7. CallInv(k) => CallOf(k, up', down, "cancelling", t, st)
    <2>1. SUFFICES ASSUME CallInv(k) PROVE CallOf(k, up', down, "cancelling", t, st)
      OBVIOUS
    <2>2. CallOf(k, up, down, "proceeding", t, st)
      BY <1>2, <2>1 DEF CallInv, SendCancel
    <2>3. t # "idle"
      BY <2>2 DEF CallOf, InStep
    <2>4. CallOf(k, up, down, "cancelling", t, st)
      BY <2>2, <2>3, Proceeds
    <2>5. Tells(k, m, "cancelling", t)
      BY <1>4, <2>3 DEF Tells
    <2>6. /\ \A c \in Sole : ~InUp(k, c, m)
          /\ ~PassedUp(k, m)
      BY <1>4 DEF InUp, PassedUp
    <2>7. QED
      BY <1>4, <1>5, <1>6, <2>4, <2>5, <2>6, CallAddsUp DEF Sole
  <1>8. /\ caller' = [caller EXCEPT ![k] = "cancelling"] /\ called' = [called EXCEPT ![k] = t]
        /\ UNCHANGED <<server, down, duplicated>> /\ disturbed' \in 0 .. MaxDisturbed
        /\ t \in CalledStates /\ "cancelling" \in CallerStates
    BY <1>2, <1>5 DEF SendCancel, Sends, faults, SipTypeOK, CallerStates
  <1>9. QED
    BY <1>2, <1>4, <1>6, <1>7, <1>8, UserKeeps

LEMMA CallerHangsUpKeeps ==
    ASSUME SipTypeOK, Placed, NEW k \in Calls, CallerHangsUp(k)
    PROVE  Kept
  <1>1. PICK p \in Phones : p = Caller[k] /\ p # Called[k]
    BY PartiesAssumption
  <1>2. PICK t, st : t = called[k] /\ st = sessions[k].state
    OBVIOUS
  <1>3. PICK m : m = Request(k, "BYE", p)
    OBVIOUS
  <1>4. Says(k, p, m) /\ m.type = "BYE" /\ m.method = "BYE" /\ m.from = p /\ m \in Messages
    BY <1>1, <1>3, RequestFacts DEF Methods, Says
  <1>5. up \in Queues /\ down \in Queues /\ called \in [Calls -> CalledStates]
    BY DEF Placed
  <1>6. up' = Added(up, p, m)
    BY <1>1, <1>3, <1>4, <1>5, SendsOne DEF CallerHangsUp
  <1>7. CallInv(k) => CallOf(k, up', down, "leaving", t, st)
    <2>1. SUFFICES ASSUME CallInv(k) PROVE CallOf(k, up', down, "leaving", t, st)
      OBVIOUS
    <2>2. CallOf(k, up, down, "up", t, st)
      BY <1>2, <2>1 DEF CallInv, CallerHangsUp
    <2>3. t \in Accepted \cup {"over"}
      BY <2>2 DEF CallOf, InStep
    <2>4. CallOf(k, up, down, "leaving", t, st) /\ NoneIn(k, "callerBye", up, down)
      BY <1>5, <2>2, CallerLeaves
    <2>5. Tells(k, m, "leaving", t)
      BY <1>1, <1>4, <2>3 DEF Tells, Settled
    <2>6. /\ \A c \in Sole : InUp(k, c, m) => c = "callerBye"
          /\ ~PassedUp(k, m) /\ ~InUp(k, "offer", m)
      BY <1>1, <1>4 DEF InUp, PassedUp
    <2>7. QED
      BY <1>4, <1>5, <1>6, <2>4, <2>5, <2>6, CallAddsUp
  <1>8. /\ caller' = [caller EXCEPT ![k] = "leaving"] /\ called' = [called EXCEPT ![k] = t]
        /\ UNCHANGED <<server, down, duplicated>> /\ disturbed' \in 0 .. MaxDisturbed
        /\ t \in CalledStates /\ "leaving" \in CallerStates
    BY <1>2, <1>5 DEF CallerHangsUp, Sends, faults, SipTypeOK, CallerStates
  <1>9. QED
    BY <1>2, <1>4, <1>6, <1>7, <1>8, UserKeeps

LEMMA CalledHangsUpKeeps ==
    ASSUME SipTypeOK, Placed, NEW k \in Calls, CalledHangsUp(k)
    PROVE  Kept
  <1>1. PICK p \in Phones : p = Called[k] /\ p # Caller[k]
    BY PartiesAssumption
  <1>2. PICK s, st : s = caller[k] /\ st = sessions[k].state
    OBVIOUS
  <1>3. PICK m : m = Request(k, "BYE", p)
    OBVIOUS
  <1>4. Says(k, p, m) /\ m.type = "BYE" /\ m.method = "BYE" /\ m.from = p /\ m \in Messages
    BY <1>1, <1>3, RequestFacts DEF Methods, Says
  <1>5. up \in Queues /\ down \in Queues /\ caller \in [Calls -> CallerStates]
    BY DEF Placed
  <1>6. up' = Added(up, p, m)
    BY <1>1, <1>3, <1>4, <1>5, SendsOne DEF CalledHangsUp
  <1>7. CallInv(k) => CallOf(k, up', down, s, "leaving", st)
    <2>1. SUFFICES ASSUME CallInv(k) PROVE CallOf(k, up', down, s, "leaving", st)
      OBVIOUS
    <2>2. CallOf(k, up, down, s, "up", st)
      BY <1>2, <2>1 DEF CallInv, CalledHangsUp
    <2>3. /\ CallOf(k, up, down, s, "leaving", st) /\ s \in Settled
          /\ NoneIn(k, "calledBye", up, down)
      BY <1>5, <2>2, CalledLeaves
    <2>4. Tells(k, m, s, "leaving")
      BY <1>1, <1>4, <2>3 DEF Tells, Settled, Accepted
    <2>5. /\ \A c \in Sole : InUp(k, c, m) => c = "calledBye"
          /\ ~PassedUp(k, m) /\ ~InUp(k, "offer", m)
      BY <1>1, <1>4 DEF InUp, PassedUp
    <2>6. QED
      BY <1>4, <1>5, <1>6, <2>3, <2>4, <2>5, CallAddsUp
  <1>8. /\ caller' = [caller EXCEPT ![k] = s] /\ called' = [called EXCEPT ![k] = "leaving"]
        /\ UNCHANGED <<server, down, duplicated>> /\ disturbed' \in 0 .. MaxDisturbed
        /\ s \in CallerStates /\ "leaving" \in CalledStates
    BY <1>2, <1>5 DEF CalledHangsUp, Sends, faults, SipTypeOK, CalledStates
  <1>9. QED
    BY <1>2, <1>4, <1>6, <1>7, <1>8, UserKeeps

(* The called party rings, accepts, with or without a body, or refuses.    *)
LEMMA DecisionKeeps ==
    ASSUME SipTypeOK, Placed, NEW k \in Calls, called[k] \in {"trying", "ringing"},
           NEW type \in {"Ringing", "OK", "Busy", "Unavailable"}, NEW sdp \in BOOLEAN,
           NEW t2, t2 = IF type = "Ringing" THEN "ringing"
                        ELSE IF type = "OK" THEN "answered" ELSE "refused",
           NEW m, m = Reply(Invite(k), type, sdp), up' = Added(up, Called[k], m),
           called' = [called EXCEPT ![k] = t2], caller' = caller,
           UNCHANGED <<server, down, duplicated>>, disturbed' \in 0 .. MaxDisturbed
    PROVE  Kept
  <1>1. PICK p \in Phones : p = Called[k]
    BY PartiesAssumption
  <1>2. PICK s, t, st : s = caller[k] /\ t = called[k] /\ st = sessions[k].state
    OBVIOUS
  <1>3. Says(k, p, m) /\ m.type = type /\ m.method = "INVITE" /\ m \in Messages
    BY <1>1, AnswerFacts DEF Finals, Says
  <1>4. up \in Queues /\ down \in Queues /\ caller \in [Calls -> CallerStates]
    BY DEF Placed
  <1>5. t2 \in {"ringing", "answered", "refused"}
    OBVIOUS
  <1>6. CallInv(k) => CallOf(k, up', down, s, t2, st)
    <2>1. SUFFICES ASSUME CallInv(k) PROVE CallOf(k, up', down, s, t2, st)
      OBVIOUS
    <2>2. CallOf(k, up, down, s, t, st)
      BY <1>2, <2>1 DEF CallInv
    <2>3. /\ CallOf(k, up, down, s, t2, st) /\ st # "Connected" /\ s \in Waiting
          /\ NoneIn(k, "offer", up, down)
      BY <1>2, <1>4, <1>5, <2>2, CalledDecides
    <2>4. Tells(k, m, s, t2)
      BY <1>3, <2>3 DEF Tells, Waiting, Finals
    <2>5. \A c \in Sole : InUp(k, c, m) => c = "offer"
      BY <1>3 DEF InUp
    <2>6. QED
      BY <1>1, <1>3, <1>4, <2>3, <2>4, <2>5, CallAddsUp
  <1>7. caller' = [caller EXCEPT ![k] = s] /\ s \in CallerStates /\ t2 \in CalledStates
    BY <1>2, <1>4, <1>5 DEF CalledStates
  <1>8. QED
    BY <1>1, <1>2, <1>3, <1>6, <1>7, UserKeeps

(***************************************************************************)
(* What a phone p is sent: a message m of the call k is its party's.       *)
(***************************************************************************)
LEMMA ToCaller ==
    ASSUME NEW k \in Calls, NEW p, p = Caller[k], NEW m, DownMessage(p, m), Mine(k, m)
    PROVE  /\ ByCaller(m) \/ (ByCalled(m) /\ m.method = "BYE")
           /\ m.method = "INVITE" => m.from = p
           /\ m.type = "BYE" => m.method = "BYE" /\ m.from = Called[k] /\ ByCalled(m)
           /\ m.type \in {"Trying", "Ringing"} => m.method = "INVITE"
  BY PartiesAssumption
  DEF DownMessage, CallerRequests, CalledAnswers, ByCaller, ByCalled, Mine, Finals

LEMMA ToCalled ==
    ASSUME NEW k \in Calls, NEW p, p # Caller[k], NEW m, DownMessage(p, m), Mine(k, m)
    PROVE  /\ p = Called[k]
           /\ ByCaller(m) \/ (ByCalled(m) /\ m.method = "BYE")
           /\ m.type \in {"INVITE", "CANCEL", "ACK", "BYE"} =>
                  m.method = m.type /\ m.from = Caller[k] /\ m.to = p
           /\ m.method # "BYE" => m.from = Caller[k]
  BY PartiesAssumption
  DEF DownMessage, CallerRequests, CalledAnswers, ByCaller, ByCalled, Mine, Finals

LEMMA DownCall ==
    ASSUME NEW p, NEW m, DownMessage(p, m), m.method # "REGISTER"
    PROVE  m.call \in Calls /\ p \in {Caller[m.call], Called[m.call]}
  BY DEF DownMessage, CallerRequests, CalledAnswers, ByCaller, ByCalled

(* The answer to a BYE, or of the called party to a CANCEL.                *)
Okay(m) == Reply(m, "OK", FALSE)

LEMMA OkFacts ==
    ASSUME NEW k \in Calls, NEW p \in Phones, NEW m \in Messages, Mine(k, m),
           \/ p = Called[k] /\ m.method \in {"CANCEL", "BYE"} /\ ByCaller(m)
           \/ p = Caller[k] /\ m.method = "BYE" /\ ByCalled(m),
           NEW a, a = Okay(m)
    PROVE  /\ Says(k, p, a) /\ a \in Messages /\ a.type = "OK" /\ a.method = m.method
           /\ a.call = k /\ a.from = m.from
  <1>1. PICK sdp \in BOOLEAN : sdp = FALSE
    OBVIOUS
  <1>2. PICK type \in Types : type = "OK"
    BY DEF Types, Finals
  <1>3. a = Reply(m, type, sdp)
    BY <1>1, <1>2 DEF Okay
  <1>4. /\ a \in Messages /\ a.type = "OK" /\ a.method = m.method /\ a.call = m.call
        /\ a.from = m.from /\ a.to = m.to
    <2>1. /\ a \in Messages /\ a.type = type /\ a.method = m.method /\ a.call = m.call
          /\ a.from = m.from /\ a.to = m.to
      BY <1>3, ReplyFacts
    <2>2. QED
      BY <1>2, <2>1
  <1>5. UpMessage(p, a)
    BY <1>4 DEF UpMessage, CalledAnswers, CalledHangUp, ByCaller, ByCalled, Mine
  <1>6. QED
    BY <1>4, <1>5 DEF Says, Mine

(***************************************************************************)
(* The reactions of a caller, case by case.                                *)
(***************************************************************************)
Heard(k, p, m, u, d, s, t, st) ==
    /\ Mine(k, m) => Tells(k, m, s, t) /\ TellsBack(k, p, m, s, t)
    /\ st = "Connected" => ~PassedDown(k, m)
    /\ \A c \in Sole : InDown(k, c, p, m) => NoneIn(k, c, u, d)

(* s is the caller's state, and e is what it does: its next state and what *)
(* it sends.                                                               *)
CallerProceeds(s, m, e) ==
    m.type \in {"Trying", "Ringing"} /\ s \in {"inviting", "proceeding"} /\ e = <<"proceeding", <<>>>>
CallerAnswered(s, m, e, a) ==
    /\ m.type = "OK" /\ m.method = "INVITE"
    /\ \/ s \in {"inviting", "proceeding"} /\ e = <<"up", <<a>>>>
       \/ s \in {"up", "leaving", "dropping", "over"} /\ e = <<s, <<a>>>>
CallerTooLate(s, m, e, a, b) ==
    m.type = "OK" /\ m.method = "INVITE" /\ s = "cancelling" /\ e = <<"dropping", <<a, b>>>>
CallerRefused(s, m, e, a) ==
    m.type \in FinalRefusals /\ m.method = "INVITE" /\ s \in Waiting /\ e = <<"over", <<a>>>>
CallerLeft(s, m, e, o) ==
    m.type = "BYE" /\ s \in {"up", "leaving"} /\ e = <<"over", <<o>>>>
CallerDone(s, m, e) ==
    /\ m.type \in {"OK", "NotFound"} /\ m.method = "BYE" /\ s \in {"leaving", "dropping"}
    /\ e = <<"over", <<>>>>

LEMMA CallerCases ==
    ASSUME NEW s, NEW m, NEW e, e = CallerReaction(s, m),
           NEW a, a = Request(m.call, "ACK", m.from), NEW b, b = Request(m.call, "BYE", m.from),
           NEW o, o = Okay(m)
    PROVE  \/ CallerProceeds(s, m, e) \/ CallerAnswered(s, m, e, a) \/ CallerTooLate(s, m, e, a, b)
           \/ CallerRefused(s, m, e, a) \/ CallerLeft(s, m, e, o) \/ CallerDone(s, m, e)
           \/ e = <<s, <<>>>>
  BY ZenonT(60) DEF CallerReaction, CallerProceeds, CallerAnswered, CallerTooLate, CallerRefused,
         CallerLeft, CallerDone, Waiting, FinalRefusals, Okay

LEMMA CallerSays ==
    ASSUME NEW k \in Calls, NEW p, p = Caller[k], NEW m \in Messages, DownMessage(p, m), Mine(k, m),
           NEW s \in CallerStates, NEW e, e = CallerReaction(s, m)
    PROVE  e[1] \in CallerStates /\ SaysAll(k, p, e[2])
  <1>1. PICK a, b, o :
            /\ a = Request(m.call, "ACK", m.from) /\ b = Request(m.call, "BYE", m.from)
            /\ o = Okay(m)
    OBVIOUS
  <1>2. m.call = k /\ p \in Phones /\ Called[k] # p
    BY PartiesAssumption DEF Mine
  <1>3. m.method = "INVITE" => Says(k, p, a) /\ Says(k, p, b) /\ a \in Messages /\ b \in Messages
    BY <1>1, <1>2, ToCaller, RequestFacts DEF Methods, Says
  <1>4. m.type = "BYE" => Says(k, p, o) /\ o \in Messages
    BY <1>1, <1>2, ToCaller, OkFacts
  <1>5. CASE CallerProceeds(s, m, e) \/ CallerDone(s, m, e) \/ e = <<s, <<>>>>
    BY <1>5 DEF CallerProceeds, CallerDone, CallerStates, SaysAll
  <1>6. CASE CallerAnswered(s, m, e, a) \/ CallerRefused(s, m, e, a)
    <2>1. e[1] \in CallerStates /\ e[2] = <<a>>
      BY <1>6 DEF CallerAnswered, CallerRefused, CallerStates
    <2>2. QED
      BY <1>3, <1>6, <2>1 DEF CallerAnswered, CallerRefused, SaysAll
  <1>7. CASE CallerTooLate(s, m, e, a, b)
    <2>1. e[1] \in CallerStates /\ e[2] = <<a, b>>
      BY <1>7 DEF CallerTooLate, CallerStates
    <2>2. QED
      BY <1>3, <1>7, <2>1 DEF CallerTooLate, SaysAll
  <1>8. CASE CallerLeft(s, m, e, o)
    <2>1. e[1] \in CallerStates /\ e[2] = <<o>>
      BY <1>8 DEF CallerLeft, CallerStates
    <2>2. QED
      BY <1>4, <1>8, <2>1 DEF CallerLeft, SaysAll
  <1>9. QED
    BY <1>1, <1>5, <1>6, <1>7, <1>8, CallerCases

LEMMA CallerKeepsCall ==
    ASSUME NEW k \in Calls, NEW p, p = Caller[k], NEW m \in Messages, DownMessage(p, m), Mine(k, m),
           NEW s \in CallerStates, NEW e, e = CallerReaction(s, m),
           NEW u \in Queues, NEW d \in Queues, NEW t, NEW st, CallOf(k, u, d, s, t, st),
           Heard(k, p, m, u, d, s, t, st), NEW u2, u2 = Sent(u, p, e[2])
    PROVE  CallOf(k, u2, d, e[1], t, st)
  <1>1. PICK a, b, o :
            /\ a = Request(m.call, "ACK", m.from) /\ b = Request(m.call, "BYE", m.from)
            /\ o = Okay(m)
    OBVIOUS
  <1>2. m.call = k /\ p \in Phones /\ Called[k] # p
    BY PartiesAssumption DEF Mine
  <1>3. m.method = "INVITE" =>
            /\ a \in Messages /\ a.type = "ACK" /\ a.method = "ACK"
            /\ b \in Messages /\ b.type = "BYE" /\ b.method = "BYE" /\ b.from = p
    BY <1>1, <1>2, ToCaller, RequestFacts DEF Methods, Says
  <1>4. m.type = "BYE" => /\ o \in Messages /\ o.type = "OK" /\ o.method = "BYE"
                          /\ o.from = Called[k] /\ m.method = "BYE" /\ m.from = Called[k]
    BY <1>1, <1>2, ToCaller, OkFacts
  <1>5. Tells(k, m, s, t) /\ TellsBack(k, p, m, s, t)
    BY DEF Heard
  <1>6. m.method = "BYE" => st # "Connected"
    BY <1>2 DEF Heard, PassedDown
  <1>7. a.method = "ACK" /\ a.type = "ACK" =>
            \A c \in Sole : (InUp(k, c, a) => c = "ack") /\ ~PassedUp(k, a)
    BY DEF InUp, PassedUp
  <1>8. CASE CallerProceeds(s, m, e)
    <2>1. t # "idle"
      BY <1>5, <1>8, ToCaller DEF CallerProceeds, Tells
    <2>2. CallOf(k, u, d, "proceeding", t, st)
      BY <1>8, <2>1, Proceeds DEF CallerProceeds
    <2>3. e[1] = "proceeding" /\ e[2] = <<>>
      BY <1>8 DEF CallerProceeds
    <2>4. QED
      BY <1>2, <2>2, <2>3, NothingSent
  <1>9. ASSUME m.type = "OK", m.method = "INVITE"
        PROVE  /\ s \in Waiting /\ t = "answered"
               /\ \A s2 \in {"up", "dropping"} :
                    /\ CallOf(k, u, d, s2, t, st)
                    /\ NoneIn(k, "ack", u, d) /\ NoneIn(k, "callerBye", u, d)
    <2>1. s \in Waiting /\ t = "answered"
      BY <1>5, <1>9 DEF Tells, Finals
    <2>2. NoneIn(k, "offer", u, d)
      BY <1>2, <1>9 DEF Heard, InDown, InUp, Finals, Sole
    <2>3. QED
      BY <2>1, <2>2, IsAnswered
  <1>10. CASE CallerAnswered(s, m, e, a)
    <2>1. m.type = "OK" /\ m.method = "INVITE"
      BY <1>10 DEF CallerAnswered
    <2>2. e[1] = "up" /\ e[2] = <<a>>
      BY <1>9, <1>10, <2>1 DEF CallerAnswered, Waiting
    <2>3. u2 = Added(u, p, a)
      BY <1>2, <1>3, <2>1, <2>2, OneSent
    <2>4. Tells(k, a, "up", t)
      BY <1>3, <2>1 DEF Tells, Settled
    <2>5. CallOf(k, u, d, "up", t, st) /\ NoneIn(k, "ack", u, d)
      BY <1>9, <2>1
    <2>6. ~InUp(k, "offer", a)
      BY <1>3, <2>1 DEF InUp
    <2>7. QED
      BY <1>2, <1>3, <1>7, <2>1, <2>2, <2>3, <2>4, <2>5, <2>6, CallAddsUp DEF Sole
  <1>11. CASE CallerTooLate(s, m, e, a, b)
    <2>1. m.type = "OK" /\ m.method = "INVITE" /\ e[1] = "dropping" /\ e[2] = <<a, b>>
      BY <1>11 DEF CallerTooLate
    <2>2. PICK u1 : u1 = Added(u, p, a)
      OBVIOUS
    <2>3. u2 = Added(u1, p, b)
      BY <1>2, <1>3, <2>1, <2>2, TwoSent
    <2>4. Tells(k, a, "dropping", t) /\ Tells(k, b, "dropping", t)
      BY <1>2, <1>3, <1>9, <2>1 DEF Tells, Settled, Accepted
    <2>5. /\ CallOf(k, u, d, "dropping", t, st)
          /\ NoneIn(k, "ack", u, d) /\ NoneIn(k, "callerBye", u, d)
      BY <1>9, <2>1
    <2>6. /\ ~InUp(k, "offer", a) /\ ~InUp(k, "callerBye", a)
          /\ ~InUp(k, "offer", b) /\ ~PassedUp(k, b)
          /\ \A c \in Sole : InUp(k, c, b) => c = "callerBye"
      BY <1>2, <1>3, <2>1 DEF InUp, PassedUp
    <2>7. /\ u1 \in Queues /\ CallOf(k, u1, d, "dropping", t, st)
          /\ NoneIn(k, "callerBye", u1, d)
      BY <1>2, <1>3, <1>7, <2>1, <2>2, <2>4, <2>5, <2>6, CallAddsUp DEF Sole
    <2>8. \A c \in Sole : InUp(k, c, b) => NoneIn(k, c, u1, d)
      BY <2>6, <2>7
    <2>9. CallOf(k, u2, d, "dropping", t, st)
      BY <1>2, <1>3, <2>1, <2>3, <2>4, <2>6, <2>7, <2>8, CallAddsUp
    <2>10. QED
      BY <2>1, <2>9
  <1>12. CASE CallerRefused(s, m, e, a)
    <2>1. m.type \in FinalRefusals /\ m.method = "INVITE" /\ e[1] = "over" /\ e[2] = <<a>> /\ s \in Waiting
      BY <1>12 DEF CallerRefused
    <2>2. t \in {"idle", "refused"}
      BY <1>5, <2>1 DEF Tells, TellsBack, FinalRefusals, Finals
    <2>3. NoneIn(k, "offer", u, d)
      BY <1>2, <2>1 DEF Heard, InDown, InUp, Finals, FinalRefusals, Sole
    <2>4. CallOf(k, u, d, "over", t, st) /\ st # "Connected" /\ NoneIn(k, "ack", u, d)
      BY <2>1, <2>2, <2>3, IsRefused
    <2>5. u2 = Added(u, p, a)
      BY <1>2, <1>3, <2>1, OneSent
    <2>6. Tells(k, a, "over", t)
      BY <1>3, <2>1 DEF Tells, Settled
    <2>7. QED
      BY <1>2, <1>3, <1>7, <2>1, <2>4, <2>5, <2>6, CallAddsUp DEF Sole
  <1>13. CASE CallerLeft(s, m, e, o)
    <2>1. m.type = "BYE" /\ e[1] = "over" /\ e[2] = <<o>> /\ s \in {"up", "leaving"}
      BY <1>13 DEF CallerLeft
    <2>2. CallOf(k, u, d, "over", t, st) /\ st # "Connected"
      BY <1>4, <1>6, <2>1, CallerEnds
    <2>3. u2 = Added(u, p, o)
      BY <1>2, <1>4, <2>1, OneSent
    <2>4. Tells(k, o, "over", t)
      BY <1>2, <1>4, <1>5, <2>1 DEF Tells, Settled, Accepted
    <2>5. \A c \in Sole : ~InUp(k, c, o)
      BY <1>4, <2>1 DEF InUp
    <2>6. QED
      BY <1>2, <1>4, <2>1, <2>2, <2>3, <2>4, <2>5, CallAddsUp
  <1>14. CASE CallerDone(s, m, e)
    <2>1. m.method = "BYE" /\ e[1] = "over" /\ e[2] = <<>> /\ s \in {"leaving", "dropping"}
      BY <1>14 DEF CallerDone
    <2>2. CallOf(k, u, d, "over", t, st)
      BY <1>6, <2>1, CallerEnds
    <2>3. QED
      BY <1>2, <2>1, <2>2, NothingSent
  <1>15. CASE e = <<s, <<>>>>
    BY <1>2, <1>15, NothingSent
  <1>16. QED
    BY <1>1, <1>8, <1>10, <1>11, <1>12, <1>13, <1>14, <1>15, CallerCases

(***************************************************************************)
(* The reactions of a called party, case by case.                          *)
(***************************************************************************)
CalledIsTried(t, m, e, y) ==
    m.type = "INVITE" /\ t = "idle" /\ e = <<"trying", <<y>>>>
CalledIsStopped(t, m, e, o, x) ==
    m.type = "CANCEL" /\ t \in {"trying", "ringing"} /\ e = <<"refused", <<o, x>>>>
CalledStopsLate(t, m, e, o) ==
    m.type = "CANCEL" /\ t \notin {"idle", "trying", "ringing"} /\ e = <<t, <<o>>>>
CalledIsConfirmed(t, m, e) ==
    /\ m.type = "ACK" /\ t \in {"answered", "refused"}
    /\ e = <<IF t = "answered" THEN "up" ELSE "over", <<>>>>
CalledLeft(t, m, e, o) ==
    m.type = "BYE" /\ t \in {"answered", "up", "leaving"} /\ e = <<"over", <<o>>>>
CalledDone(t, m, e) ==
    m.type \in {"OK", "NotFound"} /\ m.method = "BYE" /\ t = "leaving" /\ e = <<"over", <<>>>>

Try(m) == Reply(m, "Trying", FALSE)
Terminated(k) == Reply(Invite(k), "RequestTerminated", FALSE)

LEMMA CalledCases ==
    ASSUME NEW t, NEW m, NEW e, e = CalledReaction(t, m),
           NEW y, y = Try(m), NEW o, o = Okay(m),
           NEW x, x = Terminated(m.call)
    PROVE  \/ CalledIsTried(t, m, e, y) \/ CalledIsStopped(t, m, e, o, x)
           \/ CalledStopsLate(t, m, e, o) \/ CalledIsConfirmed(t, m, e)
           \/ CalledLeft(t, m, e, o) \/ CalledDone(t, m, e)
           \/ e = <<t, <<>>>>
  BY ZenonT(60) DEF CalledReaction, CalledIsTried, CalledIsStopped, CalledStopsLate, CalledIsConfirmed,
         CalledLeft, CalledDone, Okay, Try, Terminated

(* What a called party sends.                                              *)
Answers(k, p, m, y, o, x) ==
    /\ m.type = "INVITE" =>
          Says(k, p, y) /\ y \in Messages /\ y.type = "Trying" /\ y.method = "INVITE"
    /\ m.type \in {"CANCEL", "BYE"} =>
          /\ Says(k, p, o) /\ o \in Messages /\ o.type = "OK" /\ o.method = m.type
          /\ m.method = m.type /\ o.from = Caller[k] /\ m.from = Caller[k]
    /\ Says(k, p, x) /\ x \in Messages /\ x.type = "RequestTerminated" /\ x.method = "INVITE"

LEMMA CalledAnswer ==
    ASSUME NEW k \in Calls, NEW p \in Phones, p # Caller[k], NEW m \in Messages,
           DownMessage(p, m), Mine(k, m),
           NEW y, y = Try(m), NEW o, o = Okay(m),
           NEW x, x = Terminated(m.call)
    PROVE  Answers(k, p, m, y, o, x)
  <1>1. PICK sdp \in BOOLEAN : sdp = FALSE
    OBVIOUS
  <1>2. m.call = k /\ p = Called[k]
    BY ToCalled DEF Mine
  <1>3. m.type \in {"INVITE", "CANCEL", "BYE"} =>
            m.method = m.type /\ m.from = Caller[k] /\ m.to = Called[k] /\ ByCaller(m)
    BY <1>2, ToCalled DEF ByCaller
  <1>4. ASSUME m.type = "INVITE"
        PROVE  Says(k, p, y) /\ y \in Messages /\ y.type = "Trying" /\ y.method = "INVITE"
    <2>1. PICK type \in Types : type = "Trying"
      BY DEF Types
    <2>2. y = Reply(m, type, sdp)
      BY <1>1, <2>1 DEF Try
    <2>3. /\ y \in Messages /\ y.type = type /\ y.method = m.method /\ y.call = m.call
          /\ y.from = m.from /\ y.to = m.to
      BY <2>2, ReplyFacts
    <2>4. UpMessage(p, y)
      BY <1>2, <1>3, <1>4, <2>1, <2>3 DEF UpMessage, CalledAnswers, ByCaller
    <2>5. QED
      BY <1>2, <1>3, <1>4, <2>1, <2>3, <2>4 DEF Says, Mine
  <1>5. ASSUME m.type \in {"CANCEL", "BYE"}
        PROVE  /\ Says(k, p, o) /\ o \in Messages /\ o.type = "OK" /\ o.method = m.type
               /\ m.method = m.type /\ o.from = Caller[k] /\ m.from = Caller[k]
    <2>1. /\ Says(k, p, o) /\ o \in Messages /\ o.type = "OK" /\ o.method = m.method
          /\ o.from = m.from
      BY <1>2, <1>3, <1>5, OkFacts
    <2>2. QED
      BY <1>3, <1>5, <2>1
  <1>6. Says(k, p, x) /\ x \in Messages /\ x.type = "RequestTerminated" /\ x.method = "INVITE"
    <2>1. PICK type \in {"Trying", "Ringing"} \cup Finals : type = "RequestTerminated"
      BY DEF Finals
    <2>2. x = Reply(Invite(k), type, sdp)
      BY <1>1, <1>2, <2>1 DEF Terminated
    <2>3. Says(k, p, x) /\ x.type = type /\ x.method = "INVITE"
      BY <1>2, <2>2, AnswerFacts
    <2>4. QED
      BY <2>1, <2>3 DEF Says
  <1>7. QED
    BY <1>4, <1>5, <1>6 DEF Answers

LEMMA CalledSays ==
    ASSUME NEW k \in Calls, NEW p \in Phones, p # Caller[k], NEW m \in Messages,
           DownMessage(p, m), Mine(k, m),
           NEW t \in CalledStates, NEW e, e = CalledReaction(t, m)
    PROVE  e[1] \in CalledStates /\ SaysAll(k, p, e[2])
  <1>1. PICK y, o, x :
            /\ y = Try(m) /\ o = Okay(m)
            /\ x = Terminated(m.call)
    OBVIOUS
  <1>2. Answers(k, p, m, y, o, x)
    BY <1>1, CalledAnswer
  <1>3. CASE CalledIsConfirmed(t, m, e) \/ CalledDone(t, m, e) \/ e = <<t, <<>>>>
    BY <1>3 DEF CalledIsConfirmed, CalledDone, CalledStates, SaysAll
  <1>4. CASE CalledIsTried(t, m, e, y)
    <2>1. e[1] \in CalledStates /\ e[2] = <<y>>
      BY <1>4 DEF CalledIsTried, CalledStates
    <2>2. QED
      BY <1>2, <1>4, <2>1 DEF CalledIsTried, SaysAll, Answers
  <1>5. CASE CalledIsStopped(t, m, e, o, x)
    <2>1. e[1] \in CalledStates /\ e[2] = <<o, x>>
      BY <1>5 DEF CalledIsStopped, CalledStates
    <2>2. QED
      BY <1>2, <1>5, <2>1 DEF CalledIsStopped, SaysAll, Answers
  <1>6. CASE CalledStopsLate(t, m, e, o) \/ CalledLeft(t, m, e, o)
    <2>1. e[1] \in CalledStates /\ e[2] = <<o>>
      BY <1>6 DEF CalledStopsLate, CalledLeft, CalledStates
    <2>2. QED
      BY <1>2, <1>6, <2>1 DEF CalledStopsLate, CalledLeft, SaysAll, Answers
  <1>7. QED
    BY <1>1, <1>3, <1>4, <1>5, <1>6, CalledCases

LEMMA CalledKeepsCall ==
    ASSUME NEW k \in Calls, NEW p \in Phones, p # Caller[k], NEW m \in Messages,
           DownMessage(p, m), Mine(k, m),
           NEW t \in CalledStates, NEW e, e = CalledReaction(t, m),
           NEW u \in Queues, NEW d \in Queues, NEW s, NEW st, CallOf(k, u, d, s, t, st),
           Heard(k, p, m, u, d, s, t, st), NEW u2, u2 = Sent(u, p, e[2])
    PROVE  CallOf(k, u2, d, s, e[1], st)
  <1>1. PICK y, o, x :
            /\ y = Try(m) /\ o = Okay(m)
            /\ x = Terminated(m.call)
    OBVIOUS
  <1>2. Answers(k, p, m, y, o, x)
    BY <1>1, CalledAnswer
  <1>3. Tells(k, m, s, t) /\ m.call = k
    BY DEF Heard, Mine
  <1>4. m.method = "BYE" => st # "Connected"
    BY <1>3 DEF Heard, PassedDown
  <1>5. Caller[k] # Called[k]
    BY PartiesAssumption
  <1>6. CASE CalledIsTried(t, m, e, y)
    <2>1. m.type = "INVITE" /\ m.method = "INVITE" /\ t = "idle" /\ e[1] = "trying" /\ e[2] = <<y>>
      BY <1>6, ToCalled DEF CalledIsTried
    <2>2. s = "inviting"
      BY <1>3, <2>1 DEF Tells
    <2>3. NoneIn(k, "offer", u, d)
      BY <1>3, <2>1 DEF Heard, InDown, InUp, Sole
    <2>4. CallOf(k, u, d, "inviting", "trying", st)
      BY <2>1, <2>2, <2>3, CalledTries
    <2>5. y \in Messages /\ y.type = "Trying" /\ y.method = "INVITE"
      BY <1>2, <2>1 DEF Answers
    <2>6. u2 = Added(u, p, y)
      BY <2>1, <2>5, OneSent
    <2>7. Tells(k, y, "inviting", "trying")
      BY <2>5 DEF Tells, Finals
    <2>8. ~PassedUp(k, y) /\ \A c \in Sole : ~InUp(k, c, y)
      BY <2>5 DEF InUp, PassedUp, Finals
    <2>9. CallOf(k, u2, d, "inviting", "trying", st)
      BY <2>4, <2>5, <2>6, <2>7, <2>8, CallAddsUp DEF Sole
    <2>10. QED
      BY <2>1, <2>2, <2>9
  <1>7. CASE CalledIsStopped(t, m, e, o, x)
    <2>1. m.type = "CANCEL" /\ t \in {"trying", "ringing"} /\ e[1] = "refused" /\ e[2] = <<o, x>>
      BY <1>7 DEF CalledIsStopped
    <2>2. /\ o \in Messages /\ o.type = "OK" /\ o.method = "CANCEL"
          /\ x \in Messages /\ x.type = "RequestTerminated" /\ x.method = "INVITE"
      BY <1>2, <2>1 DEF Answers
    <2>3. PICK u1 : u1 = Added(u, p, o)
      OBVIOUS
    <2>4. u2 = Added(u1, p, x)
      BY <2>1, <2>2, <2>3, TwoSent
    <2>5. /\ CallOf(k, u, d, s, "refused", st) /\ st # "Connected" /\ s \in Waiting
          /\ NoneIn(k, "offer", u, d)
      BY <2>1, CalledDecides
    <2>6. Tells(k, o, s, "refused") /\ Tells(k, x, s, "refused")
      BY <2>2, <2>5 DEF Tells, Waiting, Finals
    <2>7. /\ \A c \in Sole : ~InUp(k, c, o)
          /\ \A c \in Sole : InUp(k, c, x) => c = "offer"
      BY <2>2 DEF InUp
    <2>8. /\ u1 \in Queues /\ CallOf(k, u1, d, s, "refused", st) /\ NoneIn(k, "offer", u1, d)
      BY <2>2, <2>3, <2>5, <2>6, <2>7, CallAddsUp DEF Sole
    <2>9. \A c \in Sole : InUp(k, c, x) => NoneIn(k, c, u1, d)
      BY <2>7, <2>8
    <2>10. CallOf(k, u2, d, s, "refused", st)
      BY <2>2, <2>4, <2>5, <2>6, <2>8, <2>9, CallAddsUp
    <2>11. QED
      BY <2>1, <2>10
  <1>8. CASE CalledStopsLate(t, m, e, o)
    <2>1. m.type = "CANCEL" /\ e[1] = t /\ e[2] = <<o>>
      BY <1>8 DEF CalledStopsLate
    <2>2. o \in Messages /\ o.type = "OK" /\ o.method = "CANCEL" /\ m.method = "CANCEL"
      BY <1>2, <2>1 DEF Answers
    <2>3. u2 = Added(u, p, o)
      BY <2>1, <2>2, OneSent
    <2>4. Tells(k, o, s, t)
      BY <1>3, <2>2 DEF Tells
    <2>5. ~PassedUp(k, o) /\ \A c \in Sole : ~InUp(k, c, o)
      BY <2>2 DEF InUp, PassedUp
    <2>6. QED
      BY <2>1, <2>2, <2>3, <2>4, <2>5, CallAddsUp DEF Sole
  <1>9. CASE CalledIsConfirmed(t, m, e)
    <2>1. /\ m.type = "ACK" /\ m.method = "ACK" /\ t \in {"answered", "refused"}
          /\ e[1] = (IF t = "answered" THEN "up" ELSE "over") /\ e[2] = <<>>
      BY <1>9, ToCalled DEF CalledIsConfirmed
    <2>2. s \in Settled
      BY <1>3, <2>1 DEF Tells
    <2>3. CallOf(k, u, d, s, e[1], st)
      BY <2>1, <2>2, CalledConfirmed
    <2>4. QED
      BY <2>1, <2>3, NothingSent
  <1>10. CASE CalledLeft(t, m, e, o)
    <2>1. m.type = "BYE" /\ t \in Accepted /\ e[1] = "over" /\ e[2] = <<o>>
      BY <1>10 DEF CalledLeft, Accepted
    <2>2. /\ o \in Messages /\ o.type = "OK" /\ o.method = "BYE" /\ m.method = "BYE"
          /\ o.from = Caller[k] /\ m.from = Caller[k]
      BY <1>2, <2>1 DEF Answers
    <2>3. s \in Settled /\ s # "up"
      BY <1>3, <2>2 DEF Tells
    <2>4. CallOf(k, u, d, s, "over", st) /\ st # "Connected"
      BY <1>4, <2>1, <2>2, <2>3, CalledEnds
    <2>5. u2 = Added(u, p, o)
      BY <2>1, <2>2, OneSent
    <2>6. Tells(k, o, s, "over")
      BY <2>2, <2>3 DEF Tells, Settled
    <2>7. \A c \in Sole : ~InUp(k, c, o)
      BY <2>2 DEF InUp
    <2>8. QED
      BY <2>1, <2>2, <2>4, <2>5, <2>6, <2>7, CallAddsUp
  <1>11. CASE CalledDone(t, m, e)
    <2>1. m.method = "BYE" /\ t \in Accepted /\ e[1] = "over" /\ e[2] = <<>>
      BY <1>11 DEF CalledDone, Accepted
    <2>2. s \in Settled
      BY <1>3, <2>1 DEF Tells
    <2>3. CallOf(k, u, d, s, "over", st)
      BY <1>4, <2>1, <2>2, CalledEnds
    <2>4. QED
      BY <2>1, <2>3, NothingSent
  <1>12. CASE e = <<t, <<>>>>
    BY <1>12, NothingSent
  <1>13. QED
    BY <1>1, <1>6, <1>7, <1>8, <1>9, <1>10, <1>11, <1>12, CalledCases

(***************************************************************************)
(* A phone takes a message.                                                *)
(***************************************************************************)
LEMMA HeadIsHeard ==
    ASSUME Placed, NEW p \in Phones, down[p] # <<>>, NEW m, m = Head(down[p]),
           NEW d2, d2 = Popped(down, p), NEW k \in Calls, CallInv(k),
           NEW s, NEW t, NEW st, s = caller[k], t = called[k], st = sessions[k].state
    PROVE  CallOf(k, up, d2, s, t, st) /\ Heard(k, p, m, up, d2, s, t, st)
  <1>1. up \in Queues /\ down \in Queues
    BY DEF Placed
  <1>2. CallOf(k, up, down, s, t, st)
    BY DEF CallInv
  <1>3. /\ d2 \in Queues /\ m \in ToSet(down[p])
        /\ \A r \in Phones : Thinned(down[r], d2[r])
    BY <1>1, PopQueue
  <1>4. CallOf(k, up, d2, s, t, st)
    BY <1>1, <1>2, <1>3, SameQueues, CallThinned
  <1>5. /\ Mine(k, m) => Tells(k, m, s, t) /\ TellsBack(k, p, m, s, t)
        /\ st = "Connected" => ~PassedDown(k, m)
    BY <1>2, <1>3 DEF CallOf, Told, Connects
  <1>6. \A c \in Sole : InDown(k, c, p, m) => NoneIn(k, c, up, d2)
    BY <1>1, <1>2, PopDownNone DEF CallOf
  <1>7. QED
    BY <1>4, <1>5, <1>6 DEF Heard

LEMMA PhoneReceivesKeeps ==
    ASSUME SipTypeOK, Placed, NEW p \in Phones, PhoneReceives(p)
    PROVE  Kept
  <1>1. PICK m, d2 : m = Head(down[p]) /\ d2 = Popped(down, p)
    OBVIOUS
  <1>2. down[p] # <<>> /\ down' = d2
    BY <1>1 DEF PhoneReceives, Popped
  <1>3. /\ caller \in [Calls -> CallerStates] /\ called \in [Calls -> CalledStates]
        /\ Ups(up) /\ Downs(down) /\ up \in Queues /\ down \in Queues
    BY PlacedIs DEF Ups, Downs
  <1>4. /\ d2 \in Queues /\ m \in ToSet(down[p]) /\ m \in Messages
        /\ \A r \in Phones : Thinned(down[r], d2[r])
    BY <1>1, <1>2, <1>3, PopQueue
  <1>5. DownMessage(p, m) /\ Downs(d2)
    BY <1>3, <1>4, FewerAreDowns DEF Downs
  <1>6. PICK k : k = m.call
    OBVIOUS
  <1>7. UNCHANGED <<server, faults>>
    BY <1>1, Zenon DEF PhoneReceives, Sends
  <1>8. SipTypeOK'
    BY <1>7 DEF SipTypeOK, server, faults
  <1>9. ASSUME NEW j \in Calls, CallInv(j)
        PROVE  /\ CallOf(j, up, d2, caller[j], called[j], sessions[j].state)
               /\ Heard(j, p, m, up, d2, caller[j], called[j], sessions[j].state)
    BY <1>1, <1>2, <1>3, <1>9, HeadIsHeard
  <1>10. CASE m.method = "REGISTER"
    <2>1. Sends(p, <<>>) /\ UNCHANGED <<caller, called>>
      BY <1>1, <1>10 DEF PhoneReceives
    <2>2. up' = Sent(up, p, <<>>)
      BY <2>1 DEF Sends, Sent
    <2>3. up' = up
      BY <1>3, <2>2, NothingSent
    <2>4. Placed'
      BY <1>2, <1>3, <1>5, <2>1, <2>3 DEF Placed, Ups, Downs
    <2>5. ASSUME NEW j \in Calls, CallInv(j) PROVE CallInv(j)'
      BY <1>2, <1>7, <1>9, <2>1, <2>3, <2>5 DEF CallInv, server
    <2>6. QED
      BY <1>8, <2>4, <2>5 DEF Kept
  <1>11. ASSUME m.method # "REGISTER"
         PROVE  k \in Calls /\ Mine(k, m)
    BY <1>5, <1>6, <1>11, DownCall DEF Mine
  <1>12. CASE m.method # "REGISTER" /\ p = Caller[k]
    <2>1. PICK s, t, st : s = caller[k] /\ t = called[k] /\ st = sessions[k].state
      OBVIOUS
    <2>2. PICK e : e = CallerReaction(s, m)
      OBVIOUS
    <2>3. caller' = [caller EXCEPT ![k] = e[1]] /\ Sends(p, e[2]) /\ UNCHANGED called
      BY <1>1, <1>6, <1>12, <2>1, <2>2, Zenon DEF PhoneReceives
    <2>4. PICK u2 : u2 = Sent(up, p, e[2])
      OBVIOUS
    <2>5. up' = u2
      BY <2>3, <2>4 DEF Sends, Sent
    <2>6. k \in Calls /\ Mine(k, m) /\ s \in CallerStates
      BY <1>3, <1>11, <1>12, <2>1
    <2>7. e[1] \in CallerStates /\ SaysAll(k, p, e[2])
      BY <1>4, <1>5, <1>12, <2>2, <2>6, CallerSays
    <2>8. /\ Ups(u2)
          /\ \A j, d, s1, t1, st1 : j # k /\ d \in Queues /\ CallOf(j, up, d, s1, t1, st1) =>
                                        CallOf(j, u2, d, s1, t1, st1)
      BY <1>3, <2>4, <2>7, SaysAreUps
    <2>9. Placed'
      <3>1. caller' \in [Calls -> CallerStates] /\ called' \in [Calls -> CalledStates]
        BY <1>3, <2>3, <2>7
      <3>2. QED
        BY <1>2, <1>5, <2>5, <2>8, <3>1 DEF Placed, Ups, Downs
    <2>10. ASSUME NEW j \in Calls, CallInv(j) PROVE CallInv(j)'
      <3>1. CASE j = k
        <4>1. CallOf(k, up, d2, s, t, st) /\ Heard(k, p, m, up, d2, s, t, st)
          BY <1>9, <2>1, <2>10, <3>1
        <4>2. CallOf(k, u2, d2, e[1], t, st)
          BY <1>3, <1>4, <1>5, <1>12, <2>2, <2>4, <2>6, <4>1, CallerKeepsCall
        <4>3. caller'[k] = e[1] /\ called'[k] = t /\ sessions'[k].state = st
          BY <1>3, <1>7, <2>1, <2>3, <2>6 DEF server
        <4>4. QED
          BY <1>2, <2>5, <3>1, <4>2, <4>3 DEF CallInv
      <3>2. CASE j # k
        <4>1. CallOf(j, u2, d2, caller[j], called[j], sessions[j].state)
          BY <1>4, <1>9, <2>8, <2>10, <3>2
        <4>2. caller'[j] = caller[j] /\ called'[j] = called[j] /\ sessions'[j] = sessions[j]
          BY <1>3, <1>7, <2>3, <3>2 DEF server
        <4>3. QED
          BY <1>2, <2>5, <4>1, <4>2 DEF CallInv
      <3>3. QED
        BY <3>1, <3>2
    <2>11. QED
      BY <1>8, <2>9, <2>10 DEF Kept
  <1>13. CASE m.method # "REGISTER" /\ p # Caller[k]
    <2>1. PICK s, t, st : s = caller[k] /\ t = called[k] /\ st = sessions[k].state
      OBVIOUS
    <2>2. PICK e : e = CalledReaction(t, m)
      OBVIOUS
    <2>3. called' = [called EXCEPT ![k] = e[1]] /\ Sends(p, e[2]) /\ UNCHANGED caller
      BY <1>1, <1>6, <1>13, <2>1, <2>2 DEF PhoneReceives
    <2>4. PICK u2 : u2 = Sent(up, p, e[2])
      OBVIOUS
    <2>5. up' = u2
      BY <2>3, <2>4 DEF Sends, Sent
    <2>6. k \in Calls /\ Mine(k, m) /\ t \in CalledStates
      BY <1>3, <1>11, <1>13, <2>1
    <2>7. e[1] \in CalledStates /\ SaysAll(k, p, e[2])
      BY <1>4, <1>5, <1>13, <2>2, <2>6, CalledSays
    <2>8. /\ Ups(u2)
          /\ \A j, d, s1, t1, st1 : j # k /\ d \in Queues /\ CallOf(j, up, d, s1, t1, st1) =>
                                        CallOf(j, u2, d, s1, t1, st1)
      BY <1>3, <2>4, <2>7, SaysAreUps
    <2>9. Placed'
      <3>1. caller' \in [Calls -> CallerStates] /\ called' \in [Calls -> CalledStates]
        BY <1>3, <2>3, <2>7
      <3>2. QED
        BY <1>2, <1>5, <2>5, <2>8, <3>1 DEF Placed, Ups, Downs
    <2>10. ASSUME NEW j \in Calls, CallInv(j) PROVE CallInv(j)'
      <3>1. CASE j = k
        <4>1. CallOf(k, up, d2, s, t, st) /\ Heard(k, p, m, up, d2, s, t, st)
          BY <1>9, <2>1, <2>10, <3>1
        <4>2. CallOf(k, u2, d2, s, e[1], st)
          BY <1>3, <1>4, <1>5, <1>13, <2>2, <2>4, <2>6, <4>1, CalledKeepsCall
        <4>3. caller'[k] = s /\ called'[k] = e[1] /\ sessions'[k].state = st
          BY <1>3, <1>7, <2>1, <2>3, <2>6 DEF server
        <4>4. QED
          BY <1>2, <2>5, <3>1, <4>2, <4>3 DEF CallInv
      <3>2. CASE j # k
        <4>1. CallOf(j, u2, d2, caller[j], called[j], sessions[j].state)
          BY <1>4, <1>9, <2>8, <2>10, <3>2
        <4>2. caller'[j] = caller[j] /\ called'[j] = called[j] /\ sessions'[j] = sessions[j]
          BY <1>3, <1>7, <2>3, <3>2 DEF server
        <4>3. QED
          BY <1>2, <2>5, <4>1, <4>2 DEF CallInv
      <3>3. QED
        BY <3>1, <3>2
    <2>11. QED
      BY <1>8, <2>9, <2>10 DEF Kept
  <1>14. QED
    BY <1>10, <1>12, <1>13

(***************************************************************************)
(* The other steps.                                                        *)
(***************************************************************************)
LEMMA RegistrationKeeps ==
    ASSUME SipTypeOK, Placed, NEW p \in Phones, NEW type \in {"REGISTER", "UNREGISTER"},
           up' = Added(up, p, Registration(p, type)),
           UNCHANGED <<server, down, caller, called, duplicated>>, disturbed' \in 0 .. MaxDisturbed
    PROVE  Kept
  <1>1. PICK sdp \in BOOLEAN : sdp = FALSE
    OBVIOUS
  <1>2. PICK m : m = Registration(p, type)
    OBVIOUS
  <1>3. m = [type |-> type, method |-> "REGISTER", call |-> "registration",
             from |-> p, to |-> p, sdp |-> sdp]
    BY <1>1, <1>2 DEF Registration, Message
  <1>4. m \in Messages /\ m.type = type /\ m.method = "REGISTER" /\ m.from = p
    BY <1>3 DEF Messages, Types, Methods
  <1>5. UpMessage(p, m)
    BY <1>4 DEF UpMessage, Registers
  <1>6. Ups(up) /\ Downs(down) /\ up \in Queues /\ down \in Queues
    BY PlacedIs DEF Ups, Downs
  <1>7. Ups(up')
    BY <1>2, <1>4, <1>5, <1>6, OneMoreIsUp
  <1>8. Placed'
    BY <1>6, <1>7 DEF Placed, Ups, Downs
  <1>9. ASSUME NEW j \in Calls, CallInv(j) PROVE CallInv(j)'
    <2>1. ~Mine(j, m)
      BY <1>4 DEF Mine
    <2>2. PICK u2 : u2 = Added(up, p, m)
      OBVIOUS
    <2>3. CallOf(j, u2, down, caller[j], called[j], sessions[j].state)
      BY <1>4, <1>6, <1>9, <2>1, <2>2, OthersAdd DEF CallInv
    <2>4. QED
      BY <1>2, <2>2, <2>3 DEF CallInv, server
  <1>10. SipTypeOK'
    BY DEF SipTypeOK, server
  <1>11. QED
    BY <1>8, <1>9, <1>10 DEF Kept

LEMMA DisturbanceKeeps ==
    ASSUME SipTypeOK, Placed, NEW u2 \in Queues, NEW d2 \in Queues, up' = u2, down' = d2,
           \A r \in Phones : Thinned(up[r], u2[r]), \A r \in Phones : Thinned(down[r], d2[r]),
           UNCHANGED <<server, caller, called, duplicated>>, disturbed' \in 0 .. MaxDisturbed
    PROVE  Kept
  <1>1. Ups(up) /\ Downs(down) /\ up \in Queues /\ down \in Queues
    BY PlacedIs DEF Ups, Downs
  <1>2. Ups(u2) /\ Downs(d2)
    BY <1>1, FewerAreUps, FewerAreDowns
  <1>3. Placed'
    BY <1>2 DEF Placed, Ups, Downs
  <1>4. ASSUME NEW j \in Calls, CallInv(j) PROVE CallInv(j)'
    <2>1. CallOf(j, u2, d2, caller[j], called[j], sessions[j].state)
      BY <1>1, <1>4, CallThinned DEF CallInv
    <2>2. QED
      BY <2>1 DEF CallInv, server
  <1>5. SipTypeOK'
    BY DEF SipTypeOK, server
  <1>6. QED
    BY <1>3, <1>4, <1>5 DEF Kept

LEMMA DisturbedQueue ==
    ASSUME NEW u \in Queues, NEW p \in Phones, NEW s \in Disturbances(u[p]),
           NEW u2, u2 = [u EXCEPT ![p] = s]
    PROVE  u2 \in Queues /\ \A r \in Phones : Thinned(u[r], u2[r])
  <1>1. u[p] \in Seq(Messages)
    BY DEF Queues
  <1>2. s \in Seq(Messages) /\ Thinned(u[p], s)
    BY <1>1, DisturbanceThins
  <1>3. u2 \in Queues
    BY <1>2 DEF Queues
  <1>4. ASSUME NEW r \in Phones PROVE Thinned(u[r], u2[r])
    <2>1. CASE r = p
      BY <1>2, <2>1 DEF Queues
    <2>2. CASE r # p
      <3>1. u2[r] = u[r]
        BY <2>2 DEF Queues
      <3>2. QED
        BY <3>1, SameQueues
    <2>3. QED
      BY <2>1, <2>2
  <1>5. QED
    BY <1>3, <1>4

LEMMA DisturbedCounts ==
    ASSUME SipTypeOK, Disturbed
    PROVE  /\ disturbed' \in 0 .. MaxDisturbed /\ duplicated' = duplicated
           /\ UNCHANGED server
  BY FaultsAssumption DEF SipTypeOK, Disturbed

LEMMA FaultKeeps ==
    ASSUME SipTypeOK, Placed, Fault, ~\E p \in Phones : Duplicate(p)
    PROVE  Kept
  <1>1. up \in Queues /\ down \in Queues
    BY DEF Placed
  <1>2. ASSUME NEW p \in Phones, DisturbUp(p) PROVE Kept
    <2>1. PICK s \in Disturbances(up[p]) : up' = [up EXCEPT ![p] = s]
      BY <1>2 DEF DisturbUp
    <2>2. PICK u2 : u2 = [up EXCEPT ![p] = s]
      OBVIOUS
    <2>3. u2 \in Queues /\ \A r \in Phones : Thinned(up[r], u2[r])
      BY <1>1, <2>2, DisturbedQueue
    <2>4. up' = u2 /\ down' = down /\ UNCHANGED <<caller, called>> /\ Disturbed
      BY <1>2, <2>1, <2>2 DEF DisturbUp, phones
    <2>5. QED
      BY <1>1, <2>3, <2>4, DisturbedCounts, SameQueues, DisturbanceKeeps
  <1>3. ASSUME NEW p \in Phones, DisturbDown(p) PROVE Kept
    <2>1. PICK s \in Disturbances(down[p]) : down' = [down EXCEPT ![p] = s]
      BY <1>3 DEF DisturbDown
    <2>2. PICK d2 : d2 = [down EXCEPT ![p] = s]
      OBVIOUS
    <2>3. d2 \in Queues /\ \A r \in Phones : Thinned(down[r], d2[r])
      BY <1>1, <2>2, DisturbedQueue
    <2>4. down' = d2 /\ up' = up /\ UNCHANGED <<caller, called>> /\ Disturbed
      BY <1>3, <2>1, <2>2 DEF DisturbDown, phones
    <2>5. QED
      BY <1>1, <2>3, <2>4, DisturbedCounts, SameQueues, DisturbanceKeeps
  <1>4. ASSUME NEW p \in Phones, Unregister(p) PROVE Kept
    <2>1. PICK type \in {"REGISTER", "UNREGISTER"} : type = "UNREGISTER"
      OBVIOUS
    <2>2. /\ up' = Added(up, p, Registration(p, type)) /\ Disturbed
          /\ UNCHANGED <<down, caller, called>>
      BY <1>4, <2>1 DEF Unregister, Added, phones
    <2>3. QED
      BY <2>2, DisturbedCounts, RegistrationKeeps
  <1>5. ASSUME NEW k \in Calls, AcceptWithoutBody(k) PROVE Kept
    <2>1. PICK type \in {"Ringing", "OK", "Busy", "Unavailable"} : type = "OK"
      OBVIOUS
    <2>2. PICK sdp \in BOOLEAN : sdp = FALSE
      OBVIOUS
    <2>3. PICK m : m = Reply(Invite(k), type, sdp)
      OBVIOUS
    <2>4. /\ up' = Added(up, Called[k], m) /\ Disturbed /\ UNCHANGED <<down, caller>>
          /\ called[k] \in {"trying", "ringing"} /\ called' = [called EXCEPT ![k] = "answered"]
      BY <1>5, <2>1, <2>2, <2>3 DEF AcceptWithoutBody, Added
    <2>5. QED
      BY <2>1, <2>3, <2>4, DisturbedCounts, DecisionKeeps
  <1>6. QED
    BY <1>2, <1>3, <1>4, <1>5 DEF Fault

LEMMA UserActsKeep ==
    ASSUME SipTypeOK, Placed, NEW k \in Calls, UserActs(k)
    PROVE  Kept
  <1>1. PICK p \in Phones : p = Called[k]
    BY PartiesAssumption
  <1>2. up \in Queues
    BY DEF Placed
  <1>3. ASSUME NEW type \in {"Ringing", "OK", "Busy", "Unavailable"}, NEW sdp \in BOOLEAN,
               NEW t2, t2 = IF type = "Ringing" THEN "ringing"
                            ELSE IF type = "OK" THEN "answered" ELSE "refused",
               NEW m, m = Reply(Invite(k), type, sdp), Sends(p, <<m>>),
               called[k] \in {"trying", "ringing"}, called' = [called EXCEPT ![k] = t2],
               UNCHANGED <<down, caller, registers>>
        PROVE  Kept
    <2>1. m \in Messages
      BY <1>3, AnswerFacts DEF Says, Finals
    <2>2. up' = Added(up, p, m) /\ UNCHANGED <<server, faults>>
      BY <1>2, <1>3, <2>1, SendsOne
    <2>3. disturbed' \in 0 .. MaxDisturbed /\ UNCHANGED <<server, down, duplicated>>
      BY <1>3, <2>2 DEF SipTypeOK, faults
    <2>4. QED
      BY <1>1, <1>3, <2>2, <2>3, DecisionKeeps
  <1>4. PICK sdp \in BOOLEAN : sdp = FALSE
    OBVIOUS
  <1>5. PICK body \in BOOLEAN : body = TRUE
    OBVIOUS
  <1>6. CASE Ring(k)
    <2>1. PICK type \in {"Ringing", "OK", "Busy", "Unavailable"} : type = "Ringing"
      OBVIOUS
    <2>2. PICK m : m = Reply(Invite(k), type, sdp)
      OBVIOUS
    <2>3. /\ called[k] \in {"trying", "ringing"} /\ called' = [called EXCEPT ![k] = "ringing"]
          /\ Sends(p, <<m>>) /\ UNCHANGED <<down, caller, registers>>
      BY <1>1, <1>4, <1>6, <2>1, <2>2 DEF Ring
    <2>4. QED
      BY <1>3, <2>1, <2>2, <2>3
  <1>7. CASE Accept(k)
    <2>1. PICK type \in {"Ringing", "OK", "Busy", "Unavailable"} : type = "OK"
      OBVIOUS
    <2>2. PICK m : m = Reply(Invite(k), type, body)
      OBVIOUS
    <2>3. /\ called[k] \in {"trying", "ringing"} /\ called' = [called EXCEPT ![k] = "answered"]
          /\ Sends(p, <<m>>) /\ UNCHANGED <<down, caller, registers>>
      BY <1>1, <1>5, <1>7, <2>1, <2>2 DEF Accept
    <2>4. QED
      BY <1>3, <2>1, <2>2, <2>3
  <1>8. CASE Refuse(k)
    <2>1. PICK type \in {"Busy", "Unavailable"} : Sends(p, <<Reply(Invite(k), type, sdp)>>)
      BY <1>1, <1>4, <1>8 DEF Refuse
    <2>2. PICK m : m = Reply(Invite(k), type, sdp)
      OBVIOUS
    <2>3. /\ called[k] \in {"trying", "ringing"} /\ called' = [called EXCEPT ![k] = "refused"]
          /\ Sends(p, <<m>>) /\ UNCHANGED <<down, caller, registers>>
      BY <1>8, <2>1, <2>2 DEF Refuse
    <2>4. QED
      BY <1>3, <2>1, <2>2, <2>3
  <1>9. QED
    BY <1>6, <1>7, <1>8, SendInviteKeeps, SendCancelKeeps, CallerHangsUpKeeps, CalledHangsUpKeeps
    DEF UserActs

LEMMA SendRegisterKeeps ==
    ASSUME SipTypeOK, Placed, NEW p \in Phones, SendRegister(p)
    PROVE  Kept
  <1>1. PICK type \in {"REGISTER", "UNREGISTER"} : type = "REGISTER"
    OBVIOUS
  <1>2. PICK sdp \in BOOLEAN : sdp = FALSE
    OBVIOUS
  <1>3. PICK m : m = Registration(p, type)
    OBVIOUS
  <1>4. m = [type |-> type, method |-> "REGISTER", call |-> "registration",
             from |-> p, to |-> p, sdp |-> sdp]
    BY <1>2, <1>3 DEF Registration, Message
  <1>5. m \in Messages
    BY <1>4 DEF Messages, Types, Methods
  <1>6. up' = Added(up, p, m) /\ UNCHANGED <<server, faults>>
    BY <1>1, <1>3, <1>5, SendsOne DEF SendRegister, Placed
  <1>7. /\ UNCHANGED <<server, down, caller, called, duplicated>>
        /\ disturbed' \in 0 .. MaxDisturbed
    BY <1>6 DEF SendRegister, SipTypeOK, faults
  <1>8. QED
    BY <1>3, <1>6, <1>7, RegistrationKeeps

(* A duplicated message is one more of a kind that is allowed.             *)
LEMMA DuplicateKeepsTypes ==
    ASSUME SipTypeOK, Placed, NEW p \in Phones, Duplicate(p)
    PROVE  SipTypeOK' /\ Placed' /\ duplicated' # 0
  <1>1. Ups(up) /\ Downs(down) /\ up \in Queues
    BY PlacedIs DEF Ups
  <1>2. PICK i \in 1 .. Len(up[p]) : up' = [up EXCEPT ![p] = Append(@, @[i])]
    BY DEF Duplicate
  <1>3. PICK m : m = up[p][i]
    OBVIOUS
  <1>4. up' = Added(up, p, m)
    BY <1>2, <1>3 DEF Added
  <1>5. m \in Messages /\ m \in ToSet(up[p])
    <2>1. up[p] \in Seq(Messages)
      BY <1>1 DEF Queues
    <2>2. m \in Messages
      BY <1>3, <2>1
    <2>3. m \in ToSet(up[p])
      BY <1>3, <2>1, InSequence
    <2>4. QED
      BY <2>2, <2>3
  <1>6. Ups(up')
    BY <1>1, <1>4, <1>5, OneMoreIsUp DEF Ups
  <1>7. UNCHANGED <<server, down, caller, called, disturbed>>
    BY DEF Duplicate, phones
  <1>8. Placed'
    BY <1>1, <1>6, <1>7 DEF Placed, Ups, Downs
  <1>9. duplicated' \in 0 .. MaxDuplicated /\ duplicated' # 0
    BY FaultsAssumption DEF SipTypeOK, Duplicate
  <1>10. SipTypeOK'
    BY <1>7, <1>9 DEF SipTypeOK, server
  <1>11. QED
    BY <1>8, <1>9, <1>10

(***************************************************************************)
(* The invariant: who may say what, always; and the state of every call,   *)
(* as long as no datagram has been duplicated.                             *)
(***************************************************************************)
SipIInv ==
    /\ SipTypeOK /\ Placed
    /\ duplicated = 0 => \A k \in Calls : CallInv(k)

LEMMA SipInitSatisfies == SipInit => SipIInv
  <1> SUFFICES ASSUME SipInit PROVE SipIInv
    OBVIOUS
  <1>1. PICK dest \in BOOLEAN : dest = FALSE
    OBVIOUS
  <1>2. NoSession = [state |-> "none", dest |-> dest]
    BY <1>1 DEF NoSession
  <1>3. NoSession \in Sessions /\ NoSession.state = "none"
    BY <1>2 DEF Sessions, States
  <1>4. SipTypeOK
    <2>1. /\ sessions \in [Calls -> Sessions]
          /\ \A k \in Calls : sessions[k].state # "Connected"
      BY <1>3 DEF SipInit
    <2>2. leftover \in BOOLEAN
      BY DEF SipInit
    <2>3. /\ clients \subseteq Phones
          /\ disturbed \in 0 .. MaxDisturbed /\ duplicated \in 0 .. MaxDuplicated
      BY FaultsAssumption DEF SipInit
    <2>4. QED
      BY <2>1, <2>2, <2>3 DEF SipTypeOK, Sessions
  <1>5. /\ up \in Queues /\ down \in Queues
        /\ \A p \in Phones : up[p] = <<>> /\ down[p] = <<>>
    BY DEF SipInit, Queues
  <1>6. \A p \in Phones : ToSet(up[p]) = {} /\ ToSet(down[p]) = {}
    BY <1>5 DEF ToSet
  <1>7. Placed
    BY <1>5, <1>6 DEF SipInit, Placed, CallerStates, CalledStates
  <1>8. ASSUME NEW k \in Calls PROVE CallInv(k)
    <2>1. caller[k] = "idle" /\ called[k] = "idle" /\ sessions[k].state = "none"
      BY <1>3 DEF SipInit
    <2>2. \A c \in Sole : OneIn(k, c, up, down)
      BY <1>5 DEF OneIn
    <2>3. Told(k, up, down, "idle", "idle")
      BY <1>6 DEF Told
    <2>4. InStep("idle", "idle")
      BY DEF InStep
    <2>5. QED
      BY <2>1, <2>2, <2>3, <2>4 DEF CallInv, CallOf
  <1>9. QED
    BY <1>4, <1>7, <1>8 DEF SipIInv

LEMMA KeptKeeps ==
    ASSUME SipIInv, Kept, duplicated' = duplicated
    PROVE  SipIInv'
  BY DEF SipIInv, Kept

LEMMA SipNextKeeps == SipIInv /\ [SipNext]_sipVars => SipIInv'
  <1> SUFFICES ASSUME SipIInv, [SipNext]_sipVars PROVE SipIInv'
    OBVIOUS
  <1>1. SipTypeOK /\ Placed
    BY DEF SipIInv
  <1>2. ASSUME NEW p \in Phones, Server(p) PROVE SipIInv'
    <2>1. SipTypeOK' /\ Placed'
      BY <1>1, <1>2, ServerKeepsTypes
    <2>2. \A k \in Calls : CallInv(k) => CallInv(k)'
      BY <1>1, <1>2, ServerKeepsCall
    <2>3. duplicated' = duplicated
      BY <1>1, <1>2, ServerHandles
    <2>4. QED
      BY <2>1, <2>2, <2>3, KeptKeeps DEF Kept
  <1>3. ASSUME NEW p \in Phones, SendRegister(p) PROVE SipIInv'
    BY <1>1, <1>3, SendRegisterKeeps, KeptKeeps DEF SendRegister, Sends, faults
  <1>4. ASSUME NEW p \in Phones, PhoneReceives(p) PROVE SipIInv'
    <2>1. duplicated' = duplicated
      BY <1>4, Zenon DEF PhoneReceives, Sends, faults
    <2>2. QED
      BY <1>1, <1>4, <2>1, PhoneReceivesKeeps, KeptKeeps
  <1>5. ASSUME NEW k \in Calls, UserActs(k) PROVE SipIInv'
    <2>1. duplicated' = duplicated
      BY <1>5, Zenon DEF UserActs, SendInvite, SendCancel, CallerHangsUp, CalledHangsUp, Ring, Accept,
                  Refuse, Sends, faults
    <2>2. QED
      BY <1>1, <1>5, <2>1, UserActsKeep, KeptKeeps
  <1>6. ASSUME NEW p \in Phones, Duplicate(p) PROVE SipIInv'
    BY <1>1, <1>6, DuplicateKeepsTypes DEF SipIInv
  <1>7. ASSUME Fault, ~\E p \in Phones : Duplicate(p) PROVE SipIInv'
    <2>1. duplicated' = duplicated
      BY <1>7 DEF Fault, DisturbUp, DisturbDown, Unregister, AcceptWithoutBody, Disturbed
    <2>2. QED
      BY <1>1, <1>7, <2>1, FaultKeeps, KeptKeeps
  <1>8. ASSUME UNCHANGED sipVars PROVE SipIInv'
    BY <1>8 DEF sipVars, server, phones, faults, SipIInv, SipTypeOK, Placed, CallInv
  <1>9. QED
    BY <1>2, <1>3, <1>4, <1>5, <1>6, <1>7, <1>8 DEF SipNext, Phone

LEMMA SipIInvHolds == SipSpec => []SipIInv
  BY SipInitSatisfies, SipNextKeeps, PTL DEF SipSpec

(* The types hold, and a session that is Connected has a destination,      *)
(* whatever the network loses, reorders or duplicates: no handler enters   *)
(* that state without setDest, so setState never dereferences a null.      *)
THEOREM SipTypeCorrect == SipSpec => []SipTypeOK
  <1>1. SipIInv => SipTypeOK
    BY DEF SipIInv
  <1>2. QED
    BY <1>1, SipIInvHolds, PTL

(* Every party of a Connected session is still in the call, as long as no  *)
(* datagram has been duplicated: a BYE passes the server before either     *)
(* phone is through, and the answer that connects is the only final one.   *)
THEOREM NobodyLeftBehind == SipSpec => []ConnectedIsInUse
  <1>1. SipIInv => ConnectedIsInUse
    <2> SUFFICES ASSUME SipIInv, NEW k \in Calls, duplicated = 0, sessions[k].state = "Connected"
        PROVE  caller[k] # "over" /\ called[k] # "over"
      BY DEF ConnectedIsInUse
    <2>1. CallInv(k)
      BY DEF SipIInv
    <2>2. QED
      BY <2>1 DEF CallInv, CallOf, Connects, Accepted
  <1>2. QED
    BY <1>1, SipIInvHolds, PTL

(***************************************************************************)
(* What a session waits for.  Of the messages of a call these kinds move   *)
(* its session on or tell that it is over; a byeEnd is an OK or a NotFound *)
(* that answers a BYE.                                                     *)
(***************************************************************************)
Kinds == {"invite", "ok", "refusal", "cancel", "ack", "bye", "byeEnd"}

Is(k, c, m) ==
    /\ m.call = k
    /\ \/ c = "invite" /\ m.method = "INVITE" /\ m.type = "INVITE"
       \/ c = "ok" /\ m.method = "INVITE" /\ m.type = "OK"
       \/ c = "refusal" /\ m.method = "INVITE" /\ m.type \in {"Busy", "Unavailable"}
       \/ c = "cancel" /\ m.method = "CANCEL" /\ m.type = "CANCEL"
       \/ c = "ack" /\ m.method = "ACK" /\ m.type = "ACK"
       \/ c = "bye" /\ m.method = "BYE" /\ m.type = "BYE"
       \/ c = "byeEnd" /\ m.method = "BYE" /\ m.type # "BYE"

KindOf(k, m) == {c \in Kinds : Is(k, c, m)}
KindsIn(k, q) == {c \in Kinds : \E m \in ToSet(q) : Is(k, c, m)}

(* The caller's CANCEL, ACK and BYE are in the order it sends them: who    *)
(* cancels and is through has an ACK behind its CANCEL, and no ACK comes   *)
(* after a BYE.                                                            *)
Orderly(k, q, s) ==
    /\ \A i \in 1 .. Len(q) : Is(k, "cancel", q[i]) =>
          s = "cancelling" \/ \E j \in 1 .. Len(q) : i < j /\ Is(k, "ack", q[j])
    /\ \A i, j \in 1 .. Len(q) : Is(k, "bye", q[i]) /\ Is(k, "ack", q[j]) => j < i

(***************************************************************************)
(* A and B are the kinds on their way from the caller and from the called  *)
(* party, C and D those on their way to them; s and t are what the two do, *)
(* st is the state of the session.                                         *)
(***************************************************************************)

(* The ACK of a call comes before anything its called party does after it. *)
AckFirst(A, B, t) == "ack" \in A => t \notin {"up", "leaving"} /\ "bye" \notin B

(* A BYE that has passed the server has put the session in Bye, and the    *)
(* answer that has passed has ended it.                                    *)
Passing(A, B, C, D) == "byeEnd" \in A \cup B \cup C \cup D \/ "bye" \in C \cup D

ByePassed(A, B, C, D, st) ==
    /\ Passing(A, B, C, D) => st \in {"none", "Bye"} /\ "cancel" \notin A
    /\ "byeEnd" \in C \cup D => st = "none"

(* A caller that cancels ends the session by its CANCEL and its ACK.       *)
CancelEnds(A, s, st) ==
    /\ s \in {"cancelling", "dropping"} => "cancel" \in A \/ st \in {"none"} \cup EndedByAck
    /\ s = "dropping" => "ack" \in A \/ st = "none"

(* Where one party is through and the other is not, the session is over.   *)
OneLeft(A, B, s, t, st) ==
    /\ t = "over" /\ (s = "up" \/ "bye" \in A) => st = "none"
    /\ s = "over" /\ (t \in {"answered", "up"} \/ "bye" \in B) => st = "none"

(* What is still to come of a call that has a session.                     *)
Awaits(A, B, C, D, s, t, st) ==
    /\ st = "Invited" =>
          /\ "invite" \in D \/ t \in {"trying", "ringing"} \/ "ok" \in B \/ "refusal" \in B
          /\ "cancel" \notin D
    /\ st = "Cancel" => s = "cancelling" \/ "ack" \in A
    /\ st \in {"Busy", "Unavailable"} =>
          /\ t \in {"refused", "over"} /\ s \in Waiting \cup {"over"} /\ "bye" \notin A \cup B
          /\ "ack" \in A \/ "refusal" \in C
    /\ st = "Bye" =>
          \/ "bye" \in C /\ s \in {"up", "leaving"}
          \/ "bye" \in D /\ t \in Accepted
          \/ "byeEnd" \in A \cup B

Quiet(A, B, C, D, s, t, st) ==
    /\ AckFirst(A, B, t) /\ ByePassed(A, B, C, D, st) /\ CancelEnds(A, s, st)
    /\ OneLeft(A, B, s, t, st) /\ Awaits(A, B, C, D, s, t, st)

CalmOf(k, u, d, s, t, st) ==
    /\ Orderly(k, u[Caller[k]], s)
    /\ Quiet(KindsIn(k, u[Caller[k]]), KindsIn(k, u[Called[k]]),
             KindsIn(k, d[Caller[k]]), KindsIn(k, d[Called[k]]), s, t, st)

(* Only a call between two clients has a session.                          *)
Between(k) ==
    IF sessions[k].state = "none" THEN sessions[k] = NoSession
    ELSE {Caller[k], Called[k]} \subseteq clients

CalmCall(k) ==
    Between(k) /\ CalmOf(k, up, down, caller[k], called[k], sessions[k].state)

NobodyUnregisters == \A p \in Phones : \A m \in ToSet(up[p]) : m.type # "UNREGISTER"

Calm == NobodyUnregisters /\ \A k \in Calls : CalmCall(k)

(***************************************************************************)
(* What the kinds on their way say of the two phones and of the session:   *)
(* CallOf, seen from the kinds.                                            *)
(***************************************************************************)
Talk(A, B, C, D, s, t, st) ==
    /\ InStep(s, t)
    /\ "invite" \in A \cup D => s = "inviting" /\ t = "idle"
    /\ "ok" \in B \cup C => s \in Waiting /\ t = "answered"
    /\ "refusal" \in B \cup C => s \in Waiting /\ t = "refused"
    /\ "cancel" \in A \cup D => t # "idle"
    /\ "ack" \in A \cup D => s \in Settled
    /\ "bye" \in A \cup B \cup C \cup D \/ "byeEnd" \in A \cup B \cup C \cup D =>
          s \in Settled /\ t \in Accepted \cup {"over"}
    /\ "bye" \in A \cup D => s # "up"
    /\ "bye" \in B \cup C => t \in {"leaving", "over"}
    /\ st = "Connected" => s \notin {"idle", "over"} /\ t \in Accepted

(* A CANCEL is sent by a caller that still waits, or has an ACK behind it. *)
Covered(A, s) == "cancel" \in A => s = "cancelling" \/ "ack" \in A

(***************************************************************************)
(* What the server does to a call.  The kinds A1 .. D1 are those on their  *)
(* way when it is done.                                                    *)
(***************************************************************************)

(* A session that is gone waits for nothing.                               *)
LEMMA QuietNone ==
    ASSUME NEW A, NEW B, NEW C, NEW D, NEW s, NEW t, AckFirst(A, B, t),
           Passing(A, B, C, D) => "cancel" \notin A
    PROVE  Quiet(A, B, C, D, s, t, "none")
  BY DEF Quiet, ByePassed, CancelEnds, OneLeft, Awaits

(* Every message of no kind, and every session that is ended early.        *)
LEMMA QuietEnds ==
    ASSUME NEW A, NEW B, NEW C, NEW D, NEW s, NEW t, NEW st, Quiet(A, B, C, D, s, t, st),
           NEW A1, NEW B1, A1 \subseteq A, B1 \subseteq B
    PROVE  Quiet(A1, B1, C, D, s, t, "none")
  BY QuietNone DEF Quiet, AckFirst, ByePassed, Passing

LEMMA InviteQuiet ==
    ASSUME NEW A, NEW B, NEW C, NEW D, NEW s, NEW t, NEW st, st \in States, Talk(A, B, C, D, s, t, st),
           Quiet(A, B, C, D, s, t, st), NEW A1, NEW D1, "invite" \in A, A1 \subseteq A,
           "invite" \notin D, D1 \subseteq D \cup {"invite"}
    PROVE  /\ st = "none"
           /\ Quiet(A1, B, C, D1, s, t, "none")
           /\ "invite" \in D1 => Quiet(A1, B, C, D1, s, t, "Invited")
  <1>1. s = "inviting" /\ t = "idle"
    BY DEF Talk
  <1>2. /\ "ok" \notin B /\ "refusal" \notin B /\ "ack" \notin A /\ "cancel" \notin A \cup D
        /\ "bye" \notin A \cup B \cup C \cup D /\ "byeEnd" \notin A \cup B \cup C \cup D
    BY <1>1 DEF Talk, Settled
  <1>3. st = "none"
    BY <1>1, <1>2 DEF Talk, Quiet, Awaits, Accepted, States
  <1>4. Quiet(A1, B, C, D1, s, t, "none")
    BY <1>2, QuietNone DEF AckFirst, Passing
  <1>5. ASSUME "invite" \in D1 PROVE Quiet(A1, B, C, D1, s, t, "Invited")
    BY <1>1, <1>2, <1>5 DEF Quiet, AckFirst, ByePassed, Passing, CancelEnds, OneLeft, Awaits
  <1>6. QED
    BY <1>3, <1>4, <1>5

LEMMA RefusalQuiet ==
    ASSUME NEW A, NEW B, NEW C, NEW D, NEW s, NEW t, NEW st, st \in States, Talk(A, B, C, D, s, t, st),
           Quiet(A, B, C, D, s, t, st), NEW B1, NEW C1, "refusal" \in B, B1 \subseteq B,
           C1 \subseteq C \cup {"refusal"}
    PROVE  /\ Quiet(A, B1, C1, D, s, t, "none")
           /\ "refusal" \in C1 => \A st1 \in {"Busy", "Unavailable"} : Quiet(A, B1, C1, D, s, t, st1)
  <1>1. s \in Waiting /\ t = "refused"
    BY DEF Talk
  <1>2. /\ "ack" \notin A
        /\ "bye" \notin A \cup B \cup C \cup D /\ "byeEnd" \notin A \cup B \cup C \cup D
    BY <1>1 DEF Talk, Settled, Waiting
  <1>3. Quiet(A, B1, C1, D, s, t, "none")
    BY <1>2, QuietNone DEF AckFirst, Passing
  <1>4. ASSUME "refusal" \in C1, NEW st1 \in {"Busy", "Unavailable"}
        PROVE  Quiet(A, B1, C1, D, s, t, st1)
    BY <1>1, <1>2, <1>4
    DEF Quiet, AckFirst, ByePassed, Passing, CancelEnds, OneLeft, Awaits, Waiting, EndedByAck
  <1>5. QED
    BY <1>3, <1>4

LEMMA CancelQuiet ==
    ASSUME NEW A, NEW B, NEW C, NEW D, NEW s, NEW t, NEW st, Covered(A, s),
           Quiet(A, B, C, D, s, t, st), NEW A1, NEW D1, "cancel" \in A, A1 \subseteq A,
           A \subseteq A1 \cup {"cancel"}, D1 \subseteq D \cup {"cancel"}
    PROVE  /\ Quiet(A1, B, C, D1, s, t, "none")
           /\ st # "none" => Quiet(A1, B, C, D1, s, t, "Cancel")
  <1>1. AckFirst(A1, B, t)
    BY DEF Quiet, AckFirst
  <1>2. ~Passing(A, B, C, D) /\ ~Passing(A1, B, C, D1)
    BY DEF Quiet, ByePassed, Passing
  <1>3. Quiet(A1, B, C, D1, s, t, "none")
    BY <1>1, <1>2, QuietNone
  <1>4. ASSUME st # "none" PROVE Quiet(A1, B, C, D1, s, t, "Cancel")
    <2>1. ByePassed(A1, B, C, D1, "Cancel")
      BY <1>2 DEF ByePassed, Passing
    <2>2. CancelEnds(A1, s, "Cancel")
      BY <1>4 DEF Quiet, CancelEnds, EndedByAck
    <2>3. OneLeft(A1, B, s, t, "Cancel")
      BY <1>4 DEF Quiet, OneLeft
    <2>4. Awaits(A1, B, C, D1, s, t, "Cancel")
      BY DEF Covered, Awaits
    <2>5. QED
      BY <1>1, <2>1, <2>2, <2>3, <2>4 DEF Quiet
  <1>5. QED
    BY <1>3, <1>4

LEMMA CallerByeQuiet ==
    ASSUME NEW A, NEW B, NEW C, NEW D, NEW s, NEW t, NEW st, Talk(A, B, C, D, s, t, st),
           Quiet(A, B, C, D, s, t, st), NEW A1, NEW C1, NEW D1, "bye" \in A, A1 \subseteq A,
           "ack" \notin A, "cancel" \notin A1
    PROVE  /\ Quiet(A1, B, C1, D1, s, t, "none")
           /\ st # "none" /\ "bye" \in D1 /\ C1 = C /\ D1 \subseteq D \cup {"bye"} =>
                 Quiet(A1, B, C1, D1, s, t, "Bye")
  <1>1. AckFirst(A1, B, t)
    BY DEF AckFirst
  <1>2. Quiet(A1, B, C1, D1, s, t, "none")
    BY <1>1, QuietNone
  <1>3. ASSUME st # "none", "bye" \in D1, C1 = C, D1 \subseteq D \cup {"bye"}
        PROVE  Quiet(A1, B, C1, D1, s, t, "Bye")
    <2>1. s \in Settled /\ t \in Accepted
      BY <1>3 DEF Talk, Quiet, OneLeft
    <2>2. ByePassed(A1, B, C1, D1, "Bye")
      BY <1>3 DEF Quiet, ByePassed
    <2>3. CancelEnds(A1, s, "Bye")
      BY <1>3, <2>1 DEF Quiet, CancelEnds, Settled
    <2>4. OneLeft(A1, B, s, t, "Bye")
      BY <1>3, <2>1 DEF Quiet, OneLeft, Accepted
    <2>5. Awaits(A1, B, C1, D1, s, t, "Bye")
      BY <1>3, <2>1 DEF Awaits
    <2>6. QED
      BY <1>1, <2>2, <2>3, <2>4, <2>5 DEF Quiet
  <1>4. QED
    BY <1>2, <1>3

LEMMA CalledByeQuiet ==
    ASSUME NEW A, NEW B, NEW C, NEW D, NEW s, NEW t, NEW st, Talk(A, B, C, D, s, t, st),
           Quiet(A, B, C, D, s, t, st), Covered(A, s), NEW B1, NEW C1, NEW D1, "bye" \in B,
           B1 \subseteq B
    PROVE  /\ Quiet(A, B1, C1, D1, s, t, "none")
           /\ st # "none" /\ "bye" \in C1 /\ D1 = D /\ C1 \subseteq C \cup {"bye"} =>
                 Quiet(A, B1, C1, D1, s, t, "Bye")
  <1>1. "ack" \notin A /\ s \in Settled /\ t \in {"leaving", "over"}
    BY DEF Talk, Quiet, AckFirst
  <1>2. AckFirst(A, B1, t) /\ "cancel" \notin A
    BY <1>1 DEF AckFirst, Covered, Settled
  <1>3. Quiet(A, B1, C1, D1, s, t, "none")
    BY <1>2, QuietNone
  <1>4. ASSUME st # "none", "bye" \in C1, D1 = D, C1 \subseteq C \cup {"bye"}
        PROVE  Quiet(A, B1, C1, D1, s, t, "Bye")
    <2>1. s \in {"up", "leaving"}
      BY <1>1, <1>4 DEF Quiet, OneLeft, CancelEnds, Settled
    <2>2. ByePassed(A, B1, C1, D1, "Bye")
      BY <1>2, <1>4 DEF Quiet, ByePassed
    <2>3. CancelEnds(A, s, "Bye")
      BY <2>1 DEF CancelEnds
    <2>4. OneLeft(A, B1, s, t, "Bye")
      BY <1>4, <2>1 DEF Quiet, OneLeft
    <2>5. Awaits(A, B1, C1, D1, s, t, "Bye")
      BY <1>4, <2>1 DEF Awaits
    <2>6. QED
      BY <1>2, <2>2, <2>3, <2>4, <2>5 DEF Quiet
  <1>5. QED
    BY <1>3, <1>4

LEMMA OkQuiet ==
    ASSUME NEW A, NEW B, NEW C, NEW D, NEW s, NEW t, NEW st, Talk(A, B, C, D, s, t, st),
           Quiet(A, B, C, D, s, t, st), NEW B1, NEW C1, "ok" \in B, B1 \subseteq B, "refusal" \notin B,
           C1 \subseteq C \cup {"ok"}, C \subseteq C1
    PROVE  /\ Quiet(A, B1, C1, D, s, t, "none")
           /\ st = "Cancel" => Quiet(A, B1, C1, D, s, t, "Cancel")
           /\ st \notin {"none", "Cancel"} => Quiet(A, B1, C1, D, s, t, "Connected")
  <1>1. s \in Waiting /\ t = "answered"
    BY DEF Talk
  <1>2. /\ "ack" \notin A
        /\ "bye" \notin A \cup B \cup C \cup D /\ "byeEnd" \notin A \cup B \cup C \cup D
    BY <1>1 DEF Talk, Settled, Waiting
  <1>3. AckFirst(A, B1, t) /\ ~Passing(A, B1, C1, D)
    BY <1>2 DEF AckFirst, Passing
  <1>4. Quiet(A, B1, C1, D, s, t, "none")
    BY <1>3, QuietNone
  <1>5. OneLeft(A, B1, s, t, "Cancel") /\ OneLeft(A, B1, s, t, "Connected")
    BY <1>1 DEF OneLeft, Waiting
  <1>6. ByePassed(A, B1, C1, D, "Cancel") /\ ByePassed(A, B1, C1, D, "Connected")
    BY <1>3 DEF ByePassed, Passing
  <1>7. ASSUME st = "Cancel" PROVE Quiet(A, B1, C1, D, s, t, "Cancel")
    <2>1. CancelEnds(A, s, "Cancel") /\ Awaits(A, B1, C1, D, s, t, "Cancel")
      BY <1>7 DEF Quiet, CancelEnds, Awaits
    <2>2. QED
      BY <1>3, <1>5, <1>6, <2>1 DEF Quiet
  <1>8. ASSUME st \notin {"none", "Cancel"} PROVE Quiet(A, B1, C1, D, s, t, "Connected")
    <2>1. st \notin EndedByAck
      BY <1>1, <1>8 DEF Quiet, Awaits, EndedByAck
    <2>2. CancelEnds(A, s, "Connected") /\ Awaits(A, B1, C1, D, s, t, "Connected")
      BY <1>1, <1>8, <2>1 DEF Quiet, CancelEnds, Awaits, Waiting
    <2>3. QED
      BY <1>3, <1>5, <1>6, <2>2 DEF Quiet
  <1>9. QED
    BY <1>4, <1>7, <1>8

LEMMA ByeEndQuiet ==
    ASSUME NEW A, NEW B, NEW C, NEW D, NEW s, NEW t, NEW st,
           Quiet(A, B, C, D, s, t, st), "byeEnd" \in A \cup B,
           NEW A1, NEW B1, NEW C1, NEW D1, A1 \subseteq A, B1 \subseteq B
    PROVE  st \in {"none", "Bye"} /\ Quiet(A1, B1, C1, D1, s, t, "none")
  <1>1. st \in {"none", "Bye"} /\ "cancel" \notin A1 /\ AckFirst(A1, B1, t)
    BY DEF Quiet, AckFirst, ByePassed, Passing
  <1>2. QED
    BY <1>1, QuietNone

LEMMA AckQuiet ==
    ASSUME NEW A, NEW B, NEW C, NEW D, NEW s, NEW t, NEW st, Talk(A, B, C, D, s, t, st),
           Quiet(A, B, C, D, s, t, st), NEW A1, NEW D1, "ack" \in A, A1 \subseteq A,
           A \subseteq A1 \cup {"ack"}, "ack" \notin A1, Covered(A1, s),
           D1 \subseteq D \cup {"ack"}, D \subseteq D1
    PROVE  /\ Quiet(A1, B, C, D1, s, t, "none")
           /\ st \notin EndedByAck => Quiet(A1, B, C, D1, s, t, st)
  <1>1. s \in Settled /\ "cancel" \notin A1 /\ "cancel" \notin A
    BY DEF Talk, Covered, Settled
  <1>2. AckFirst(A1, B, t)
    BY DEF AckFirst
  <1>3. Quiet(A1, B, C, D1, s, t, "none")
    BY <1>1, <1>2, QuietNone
  <1>4. ASSUME st \notin EndedByAck PROVE Quiet(A1, B, C, D1, s, t, st)
    <2>1. ByePassed(A1, B, C, D1, st)
      BY <1>1 DEF Quiet, ByePassed, Passing
    <2>2. CancelEnds(A1, s, st)
      BY <1>1, <1>4 DEF Quiet, CancelEnds, Settled
    <2>3. OneLeft(A1, B, s, t, st)
      BY DEF Quiet, OneLeft
    <2>4. Awaits(A1, B, C, D1, s, t, st)
      BY <1>4 DEF Quiet, Awaits, EndedByAck
    <2>5. QED
      BY <1>2, <2>1, <2>2, <2>3, <2>4 DEF Quiet
  <1>5. QED
    BY <1>3, <1>4

(***************************************************************************)
(* What the phones do to a call.                                           *)
(***************************************************************************)

(* Before the final answer has come there are no ACK and no BYE.           *)
LEMMA WaitingTalk ==
    ASSUME NEW A, NEW B, NEW C, NEW D, NEW s, NEW t, NEW st, Talk(A, B, C, D, s, t, st),
           s \notin Settled
    PROVE  /\ "ack" \notin A /\ "bye" \notin A \cup B \cup C \cup D
           /\ "byeEnd" \notin A \cup B \cup C \cup D
  BY DEF Talk

LEMMA InvitingQuiet ==
    ASSUME NEW A, NEW B, NEW C, NEW D, NEW s, NEW t, NEW st, st \in States, Talk(A, B, C, D, s, t, st),
           Quiet(A, B, C, D, s, t, st), s = "idle", NEW A1, A1 \subseteq A \cup {"invite"}
    PROVE  Quiet(A1, B, C, D, "inviting", t, st)
  <1>1. t = "idle" /\ s \notin Settled
    BY DEF Talk, InStep, Settled
  <1>2. /\ "ack" \notin A /\ "bye" \notin A \cup B \cup C \cup D
        /\ "byeEnd" \notin A \cup B \cup C \cup D
    BY <1>1, WaitingTalk
  <1>3. "invite" \notin D /\ "ok" \notin B /\ "refusal" \notin B
    BY <1>1 DEF Talk
  <1>4. st = "none"
    BY <1>1, <1>2, <1>3 DEF Talk, Quiet, Awaits, States
  <1>5. AckFirst(A1, B, t) /\ ~Passing(A1, B, C, D)
    BY <1>2 DEF AckFirst, Passing
  <1>6. QED
    BY <1>4, <1>5, QuietNone

LEMMA CancellingQuiet ==
    ASSUME NEW A, NEW B, NEW C, NEW D, NEW t, NEW st, Talk(A, B, C, D, "proceeding", t, st),
           Quiet(A, B, C, D, "proceeding", t, st), NEW A1,
           A \subseteq A1, A1 \subseteq A \cup {"cancel"}, "cancel" \in A1
    PROVE  Quiet(A1, B, C, D, "cancelling", t, st)
  <1>1. /\ "ack" \notin A1 /\ "bye" \notin A1 \cup B \cup C \cup D
        /\ "byeEnd" \notin A1 \cup B \cup C \cup D
    BY WaitingTalk DEF Settled
  <1>2. AckFirst(A1, B, t) /\ ByePassed(A1, B, C, D, st)
    BY <1>1 DEF AckFirst, ByePassed, Passing
  <1>3. CancelEnds(A1, "cancelling", st) /\ OneLeft(A1, B, "cancelling", t, st)
    BY <1>1 DEF CancelEnds, OneLeft
  <1>4. Awaits(A1, B, C, D, "cancelling", t, st)
    BY <1>1 DEF Quiet, Awaits, Waiting
  <1>5. QED
    BY <1>2, <1>3, <1>4 DEF Quiet

LEMMA CallerLeavesQuiet ==
    ASSUME NEW A, NEW B, NEW C, NEW D, NEW t, NEW st, Talk(A, B, C, D, "up", t, st),
           Quiet(A, B, C, D, "up", t, st), NEW A1, A \subseteq A1, A1 \subseteq A \cup {"bye"}
    PROVE  Quiet(A1, B, C, D, "leaving", t, st)
  <1>1. AckFirst(A1, B, t) /\ ByePassed(A1, B, C, D, st)
    BY DEF Quiet, AckFirst, ByePassed, Passing
  <1>2. CancelEnds(A1, "leaving", st) /\ OneLeft(A1, B, "leaving", t, st)
    BY DEF Quiet, CancelEnds, OneLeft
  <1>3. Awaits(A1, B, C, D, "leaving", t, st)
    BY DEF Quiet, Awaits, Waiting
  <1>4. QED
    BY <1>1, <1>2, <1>3 DEF Quiet

(* A caller that takes a message of no importance to it.                   *)
LEMMA CallerIgnoresQuiet ==
    ASSUME NEW A, NEW B, NEW C, NEW D, NEW s, NEW t, NEW st, Quiet(A, B, C, D, s, t, st),
           NEW C1, C1 \subseteq C,
           "bye" \in C /\ s \in {"up", "leaving"} => "bye" \in C1,
           "refusal" \in C => "refusal" \in C1
    PROVE  Quiet(A, B, C1, D, s, t, st)
  <1>1. ByePassed(A, B, C1, D, st) /\ Awaits(A, B, C1, D, s, t, st)
    BY DEF Quiet, ByePassed, Passing, Awaits
  <1>2. QED
    BY <1>1 DEF Quiet

LEMMA ProceedingQuiet ==
    ASSUME NEW A, NEW B, NEW C, NEW D, NEW s, NEW t, NEW st, Quiet(A, B, C, D, s, t, st),
           s \in {"inviting", "proceeding"}
    PROVE  Quiet(A, B, C, D, "proceeding", t, st)
  <1>1. Awaits(A, B, C, D, "proceeding", t, st)
    BY DEF Quiet, Awaits, Waiting
  <1>2. CancelEnds(A, "proceeding", st) /\ OneLeft(A, B, "proceeding", t, st)
    BY DEF Quiet, CancelEnds, OneLeft
  <1>3. QED
    BY <1>1, <1>2 DEF Quiet

LEMMA AnsweredQuiet ==
    ASSUME NEW A, NEW B, NEW C, NEW D, NEW s, NEW t, NEW st, Talk(A, B, C, D, s, t, st),
           Quiet(A, B, C, D, s, t, st), s \in {"inviting", "proceeding"}, t = "answered",
           "ok" \notin B, "refusal" \notin B,
           NEW A1, NEW C1, C1 \subseteq C, A \subseteq A1, A1 \subseteq A \cup {"ack"}, "ack" \in A1
    PROVE  Quiet(A1, B, C1, D, "up", t, st)
  <1>1. /\ "bye" \notin A1 \cup B \cup C1 \cup D /\ "byeEnd" \notin A1 \cup B \cup C1 \cup D
        /\ "bye" \notin C /\ "invite" \notin D
    BY WaitingTalk DEF Talk, Settled
  <1>2. AckFirst(A1, B, t) /\ ByePassed(A1, B, C1, D, st)
    BY <1>1 DEF AckFirst, ByePassed, Passing
  <1>3. CancelEnds(A1, "up", st) /\ OneLeft(A1, B, "up", t, st)
    BY DEF CancelEnds, OneLeft
  <1>4. Awaits(A1, B, C1, D, "up", t, st)
    BY <1>1, WaitingTalk DEF Quiet, Awaits, Settled
  <1>5. QED
    BY <1>2, <1>3, <1>4 DEF Quiet

LEMMA TooLateQuiet ==
    ASSUME NEW A, NEW B, NEW C, NEW D, NEW t, NEW st, Talk(A, B, C, D, "cancelling", t, st),
           Quiet(A, B, C, D, "cancelling", t, st), t = "answered",
           "ok" \notin B, "refusal" \notin B,
           NEW A1, NEW C1, C1 \subseteq C, A \subseteq A1, A1 \subseteq A \cup {"ack", "bye"}, "ack" \in A1
    PROVE  Quiet(A1, B, C1, D, "dropping", t, st)
  <1>1. /\ "bye" \notin A \cup B \cup C \cup D /\ "byeEnd" \notin A1 \cup B \cup C \cup D
        /\ "invite" \notin D
    BY WaitingTalk DEF Talk, Settled
  <1>2. AckFirst(A1, B, t) /\ ByePassed(A1, B, C1, D, st)
    BY <1>1 DEF AckFirst, ByePassed, Passing
  <1>3. CancelEnds(A1, "dropping", st) /\ OneLeft(A1, B, "dropping", t, st)
    BY DEF Quiet, CancelEnds, OneLeft
  <1>4. Awaits(A1, B, C1, D, "dropping", t, st)
    BY <1>1 DEF Quiet, Awaits
  <1>5. QED
    BY <1>2, <1>3, <1>4 DEF Quiet

LEMMA RefusedQuiet ==
    ASSUME NEW A, NEW B, NEW C, NEW D, NEW s, NEW t, NEW st, Talk(A, B, C, D, s, t, st),
           Quiet(A, B, C, D, s, t, st), s \in Waiting, t \in {"idle", "refused"},
           "invite" \notin D, "ok" \notin B, "refusal" \notin B,
           NEW A1, NEW C1, C1 \subseteq C, A \subseteq A1, A1 \subseteq A \cup {"ack"}, "ack" \in A1
    PROVE  Quiet(A1, B, C1, D, "over", t, st)
  <1>1. /\ "bye" \notin A1 \cup B \cup C \cup D /\ "byeEnd" \notin A1 \cup B \cup C \cup D
    BY WaitingTalk DEF Settled, Waiting
  <1>2. AckFirst(A1, B, t) /\ ByePassed(A1, B, C1, D, st)
    BY <1>1 DEF AckFirst, ByePassed, Passing
  <1>3. CancelEnds(A1, "over", st) /\ OneLeft(A1, B, "over", t, st)
    BY <1>1 DEF CancelEnds, OneLeft
  <1>4. Awaits(A1, B, C1, D, "over", t, st)
    BY <1>1 DEF Quiet, Awaits
  <1>5. QED
    BY <1>2, <1>3, <1>4 DEF Quiet

LEMMA CallerLeftQuiet ==
    ASSUME NEW A, NEW B, NEW C, NEW D, NEW s, NEW t, NEW st, Talk(A, B, C, D, s, t, st),
           Quiet(A, B, C, D, s, t, st), "bye" \in C, "bye" \notin B,
           NEW A1, NEW C1, C1 \subseteq C, A \subseteq A1, A1 \subseteq A \cup {"byeEnd"}, "byeEnd" \in A1
    PROVE  Quiet(A1, B, C1, D, "over", t, st)
  <1>1. t \in {"leaving", "over"} /\ st \in {"none", "Bye"} /\ "cancel" \notin A
    BY DEF Talk, Quiet, ByePassed, Passing
  <1>2. AckFirst(A1, B, t) /\ ByePassed(A1, B, C1, D, st)
    BY <1>1 DEF Quiet, AckFirst, ByePassed, Passing
  <1>3. CancelEnds(A1, "over", st) /\ OneLeft(A1, B, "over", t, st)
    BY <1>1 DEF Quiet, CancelEnds, OneLeft
  <1>4. Awaits(A1, B, C1, D, "over", t, st)
    BY <1>1 DEF Awaits
  <1>5. QED
    BY <1>2, <1>3, <1>4 DEF Quiet

(* The answer to a BYE has come: the session is gone.                      *)
LEMMA DoneQuiet ==
    ASSUME NEW A, NEW B, NEW C, NEW D, NEW s, NEW t, NEW st, Quiet(A, B, C, D, s, t, st),
           "byeEnd" \in C \cup D, NEW C1, NEW D1, C1 \subseteq C, D1 \subseteq D, NEW s1, NEW t1,
           t1 \in {t, "over"}
    PROVE  Quiet(A, B, C1, D1, s1, t1, st)
  <1>1. st = "none" /\ "cancel" \notin A
    BY DEF Quiet, ByePassed, Passing
  <1>2. AckFirst(A, B, t1)
    BY DEF Quiet, AckFirst
  <1>3. QED
    BY <1>1, <1>2, QuietNone

LEMMA TryingQuiet ==
    ASSUME NEW A, NEW B, NEW C, NEW D, NEW s, NEW t, NEW st, Talk(A, B, C, D, s, t, st),
           Quiet(A, B, C, D, s, t, st), s = "inviting", t = "idle", NEW D1, D1 \subseteq D
    PROVE  Quiet(A, B, C, D1, s, "trying", st)
  <1>1. /\ "ack" \notin A /\ "bye" \notin A \cup B \cup C \cup D
        /\ "byeEnd" \notin A \cup B \cup C \cup D
    BY WaitingTalk DEF Settled
  <1>2. AckFirst(A, B, "trying") /\ ByePassed(A, B, C, D1, st)
    BY <1>1 DEF AckFirst, ByePassed, Passing
  <1>3. OneLeft(A, B, s, "trying", st)
    BY <1>1 DEF OneLeft
  <1>4. Awaits(A, B, C, D1, s, "trying", st)
    BY <1>1 DEF Quiet, Awaits
  <1>5. QED
    BY <1>2, <1>3, <1>4 DEF Quiet

LEMMA StoppedQuiet ==
    ASSUME NEW A, NEW B, NEW C, NEW D, NEW s, NEW t, NEW st, Talk(A, B, C, D, s, t, st),
           Quiet(A, B, C, D, s, t, st), t \in {"trying", "ringing"}, "cancel" \in D,
           NEW D1, D1 \subseteq D
    PROVE  Quiet(A, B, C, D1, s, "refused", st)
  <1>1. s \in Waiting
    BY DEF Talk, InStep
  <1>2. /\ "ack" \notin A /\ "bye" \notin A \cup B \cup C \cup D
        /\ "byeEnd" \notin A \cup B \cup C \cup D
    BY <1>1, WaitingTalk DEF Settled, Waiting
  <1>3. AckFirst(A, B, "refused") /\ ByePassed(A, B, C, D1, st)
    BY <1>2 DEF AckFirst, ByePassed, Passing
  <1>4. OneLeft(A, B, s, "refused", st)
    BY <1>2 DEF OneLeft
  <1>5. Awaits(A, B, C, D1, s, "refused", st)
    BY <1>2 DEF Quiet, Awaits
  <1>6. QED
    BY <1>3, <1>4, <1>5 DEF Quiet

LEMMA CalledIgnoresQuiet ==
    ASSUME NEW A, NEW B, NEW C, NEW D, NEW s, NEW t, NEW st, Quiet(A, B, C, D, s, t, st),
           NEW D1, D1 \subseteq D, "invite" \in D => "invite" \in D1,
           "bye" \in D /\ t \in Accepted => "bye" \in D1
    PROVE  Quiet(A, B, C, D1, s, t, st)
  <1>1. ByePassed(A, B, C, D1, st) /\ Awaits(A, B, C, D1, s, t, st)
    BY DEF Quiet, ByePassed, Passing, Awaits
  <1>2. QED
    BY <1>1 DEF Quiet

LEMMA ConfirmedQuiet ==
    ASSUME NEW A, NEW B, NEW C, NEW D, NEW s, NEW t, NEW st, Talk(A, B, C, D, s, t, st),
           Quiet(A, B, C, D, s, t, st), "ack" \in D, "ack" \notin A, t \in {"answered", "refused"},
           NEW D1, D1 \subseteq D, D \subseteq D1 \cup {"ack"},
           NEW t1, t1 = IF t = "answered" THEN "up" ELSE "over"
    PROVE  Quiet(A, B, C, D1, s, t1, st)
  <1>1. s \in Settled /\ s \notin Waiting
    BY DEF Talk, Settled, Waiting
  <1>2. "invite" \notin D /\ "ok" \notin B /\ "refusal" \notin B
    BY <1>1 DEF Talk
  <1>3. t = "refused" => s = "over" /\ "bye" \notin A \cup B
    BY <1>1 DEF Talk, InStep, Settled, Accepted
  <1>4. AckFirst(A, B, t1) /\ ByePassed(A, B, C, D1, st)
    BY DEF Quiet, AckFirst, ByePassed, Passing
  <1>5. OneLeft(A, B, s, t1, st)
    BY <1>3 DEF Quiet, OneLeft
  <1>6. Awaits(A, B, C, D1, s, t1, st)
    BY <1>2, <1>3 DEF Quiet, Awaits, Accepted
  <1>7. QED
    BY <1>4, <1>5, <1>6 DEF Quiet

LEMMA CalledLeftQuiet ==
    ASSUME NEW A, NEW B, NEW C, NEW D, NEW s, NEW t, NEW st, Talk(A, B, C, D, s, t, st),
           Quiet(A, B, C, D, s, t, st), "bye" \in D, "bye" \notin A,
           NEW B1, NEW D1, D1 \subseteq D, B \subseteq B1, B1 \subseteq B \cup {"byeEnd"}, "byeEnd" \in B1
    PROVE  Quiet(A, B1, C, D1, s, "over", st)
  <1>1. s # "up" /\ st \in {"none", "Bye"} /\ "cancel" \notin A
    BY DEF Talk, Quiet, ByePassed, Passing
  <1>2. AckFirst(A, B1, "over") /\ ByePassed(A, B1, C, D1, st)
    BY <1>1 DEF Quiet, AckFirst, ByePassed, Passing
  <1>3. OneLeft(A, B1, s, "over", st)
    BY <1>1 DEF Quiet, OneLeft
  <1>4. Awaits(A, B1, C, D1, s, "over", st)
    BY <1>1 DEF Awaits
  <1>5. QED
    BY <1>2, <1>3, <1>4 DEF Quiet

(* A called party rings, accepts or refuses.                               *)
LEMMA DecisionQuiet ==
    ASSUME NEW A, NEW B, NEW C, NEW D, NEW s, NEW t, NEW st, Talk(A, B, C, D, s, t, st),
           Quiet(A, B, C, D, s, t, st), t \in {"trying", "ringing"},
           NEW B1, B \subseteq B1, B1 \subseteq B \cup {"ok", "refusal"},
           NEW t1, \/ t1 = "ringing"
                   \/ t1 = "answered" /\ "ok" \in B1
                   \/ t1 = "refused" /\ "refusal" \in B1
    PROVE  Quiet(A, B1, C, D, s, t1, st)
  <1>1. s \in Waiting
    BY DEF Talk, InStep
  <1>2. /\ "ack" \notin A /\ "bye" \notin A \cup B1 \cup C \cup D
        /\ "byeEnd" \notin A \cup B1 \cup C \cup D
    BY <1>1, WaitingTalk DEF Settled, Waiting
  <1>3. AckFirst(A, B1, t1) /\ ByePassed(A, B1, C, D, st)
    BY <1>2 DEF AckFirst, ByePassed, Passing
  <1>4. OneLeft(A, B1, s, t1, st)
    BY <1>1, <1>2 DEF OneLeft, Waiting
  <1>5. Awaits(A, B1, C, D, s, t1, st)
    BY <1>2 DEF Quiet, Awaits
  <1>6. QED
    BY <1>3, <1>4, <1>5 DEF Quiet

LEMMA CalledLeavesQuiet ==
    ASSUME NEW A, NEW B, NEW C, NEW D, NEW s, NEW t, NEW st, Talk(A, B, C, D, s, t, st),
           Quiet(A, B, C, D, s, t, st), t = "up", NEW B1, B \subseteq B1, B1 \subseteq B \cup {"bye"}
    PROVE  Quiet(A, B1, C, D, s, "leaving", st)
  <1>1. s \in Settled /\ s \notin Waiting
    BY DEF Talk, InStep, Settled, Waiting
  <1>2. "invite" \notin D /\ "ok" \notin B /\ "refusal" \notin B
    BY <1>1 DEF Talk
  <1>3. AckFirst(A, B1, "leaving") /\ ByePassed(A, B1, C, D, st)
    BY DEF Quiet, AckFirst, ByePassed, Passing
  <1>4. OneLeft(A, B1, s, "leaving", st)
    BY DEF Quiet, OneLeft
  <1>5. Awaits(A, B1, C, D, s, "leaving", st)
    BY <1>2 DEF Quiet, Awaits, Accepted
  <1>6. QED
    BY <1>3, <1>4, <1>5 DEF Quiet

(***************************************************************************)
(* The kinds and the order of the messages of a queue.                     *)
(***************************************************************************)
LEMMA TailSet ==
    ASSUME NEW S, NEW s \in Seq(S), s # <<>>
    PROVE  ToSet(s) \subseteq ToSet(Tail(s)) \cup {Head(s)}
  <1>1. PICK n \in Nat \ {0} : n = Len(s)
    BY PopFacts
  <1>2. PICK t \in Seq(S) : t = Tail(s)
    BY PopFacts
  <1>3. Len(t) = n - 1 /\ Head(s) = s[1] /\ \A i \in 1 .. n - 1 : t[i] = s[i + 1]
    BY <1>1, <1>2, PopFacts
  <1>4. ASSUME NEW x \in ToSet(s) PROVE x \in ToSet(t) \cup {Head(s)}
    <2>1. PICK i \in 1 .. n : x = s[i]
      BY <1>1, <1>4, InSequence
    <2>2. CASE i = 1
      BY <1>3, <2>1, <2>2
    <2>3. CASE i # 1
      <3>1. i - 1 \in 1 .. n - 1 /\ i - 1 + 1 = i
        BY <2>3
      <3>2. x = t[i - 1] /\ i - 1 \in 1 .. Len(t)
        BY <1>3, <2>1, <3>1
      <3>3. QED
        BY <1>2, <3>2, InSequence
    <2>4. QED
      BY <2>2, <2>3
  <1>5. QED
    BY <1>2, <1>4

(* Of the queues u the one of p loses m, or gains it: u2 is what is left.  *)
Loses(k, u, p, m, u2) ==
    /\ \A r \in Phones : KindsIn(k, u2[r]) \subseteq KindsIn(k, u[r])
    /\ \A r \in Phones : r # p => KindsIn(k, u2[r]) = KindsIn(k, u[r])
    /\ KindsIn(k, u[p]) \subseteq KindsIn(k, u2[p]) \cup KindOf(k, m)
    /\ KindOf(k, m) \subseteq KindsIn(k, u[p])

Gains(k, u, p, m, u2) ==
    \A r \in Phones :
        KindsIn(k, u2[r]) = IF r = p THEN KindsIn(k, u[r]) \cup KindOf(k, m) ELSE KindsIn(k, u[r])

LEMMA KindsPopped ==
    ASSUME NEW k, NEW u \in Queues, NEW p \in Phones, u[p] # <<>>, NEW m, m = Head(u[p]),
           NEW u2, u2 = Popped(u, p)
    PROVE  Loses(k, u, p, m, u2)
  <1>1. (\A r \in Phones : ToSet(u2[r]) \subseteq ToSet(u[r])) /\ m \in ToSet(u[p])
    BY PopQueue
  <1>2. \A r \in Phones : r # p => u2[r] = u[r]
    BY DEF Popped, Queues
  <1>3. ToSet(u[p]) \subseteq ToSet(u2[p]) \cup {m}
    <2>1. u[p] \in Seq(Messages)
      BY DEF Queues
    <2>2. u2[p] = Tail(u[p])
      BY DEF Popped, Queues
    <2>3. QED
      BY <2>1, <2>2, TailSet
  <1>4. \A r \in Phones : KindsIn(k, u2[r]) \subseteq KindsIn(k, u[r])
    BY <1>1 DEF KindsIn
  <1>5. KindsIn(k, u[p]) \subseteq KindsIn(k, u2[p]) \cup KindOf(k, m)
    BY <1>3 DEF KindsIn, KindOf
  <1>6. KindOf(k, m) \subseteq KindsIn(k, u[p])
    BY <1>1 DEF KindsIn, KindOf
  <1>7. QED
    BY <1>2, <1>4, <1>5, <1>6 DEF Loses

LEMMA KindsAdded ==
    ASSUME NEW k, NEW u \in Queues, NEW p \in Phones, NEW m \in Messages,
           NEW u2, u2 = Added(u, p, m)
    PROVE  Gains(k, u, p, m, u2)
  <1> SUFFICES ASSUME NEW r \in Phones
      PROVE  KindsIn(k, u2[r]) = IF r = p THEN KindsIn(k, u[r]) \cup KindOf(k, m) ELSE KindsIn(k, u[r])
    BY DEF Gains
  <1>1. \A x : x \in ToSet(u2[r]) <=> x \in ToSet(u[r]) \/ (r = p /\ x = m)
    BY AddSet
  <1>2. CASE r = p
    BY <1>1, <1>2 DEF KindsIn, KindOf
  <1>3. CASE r # p
    BY <1>1, <1>3 DEF KindsIn, KindOf
  <1>4. QED
    BY <1>2, <1>3

LEMMA OrderlyTail ==
    ASSUME NEW k, NEW q \in Seq(Messages), q # <<>>, NEW s, Orderly(k, q, s)
    PROVE  /\ Orderly(k, Tail(q), s)
           /\ "bye" \in KindOf(k, Head(q)) => "ack" \notin KindsIn(k, q)
  <1>1. PICK n \in Nat \ {0} : n = Len(q)
    BY PopFacts
  <1>2. PICK t \in Seq(Messages) : t = Tail(q)
    BY PopFacts
  <1>3. Len(t) = n - 1 /\ Head(q) = q[1] /\ \A i \in 1 .. n - 1 : t[i] = q[i + 1] /\ i + 1 \in 1 .. n
    BY <1>1, <1>2, PopFacts
  <1>4. ASSUME NEW i \in 1 .. Len(t), Is(k, "cancel", t[i]), s # "cancelling"
        PROVE  \E j \in 1 .. Len(t) : i < j /\ Is(k, "ack", t[j])
    <2>1. i \in 1 .. n - 1 /\ i + 1 \in 1 .. n /\ t[i] = q[i + 1]
      BY <1>3
    <2>2. PICK j \in 1 .. n : i + 1 < j /\ Is(k, "ack", q[j])
      BY <1>1, <1>4, <2>1 DEF Orderly
    <2>3. j - 1 \in 1 .. n - 1 /\ i < j - 1 /\ j - 1 + 1 = j
      BY <2>1, <2>2
    <2>4. Is(k, "ack", t[j - 1])
      BY <1>3, <2>2, <2>3
    <2>5. QED
      BY <1>3, <2>3, <2>4
  <1>5. ASSUME NEW i \in 1 .. Len(t), NEW j \in 1 .. Len(t), Is(k, "bye", t[i]), Is(k, "ack", t[j])
        PROVE  j < i
    <2>1. i \in 1 .. n - 1 /\ j \in 1 .. n - 1
      BY <1>3
    <2>2. /\ i + 1 \in 1 .. n /\ j + 1 \in 1 .. n
          /\ Is(k, "bye", q[i + 1]) /\ Is(k, "ack", q[j + 1])
      BY <1>3, <1>5, <2>1
    <2>3. j + 1 < i + 1
      BY <1>1, <2>2 DEF Orderly
    <2>4. QED
      BY <2>1, <2>3
  <1>6. Orderly(k, t, s)
    BY <1>4, <1>5 DEF Orderly
  <1>7. ASSUME "bye" \in KindOf(k, Head(q)), "ack" \in KindsIn(k, q) PROVE FALSE
    <2>1. Is(k, "bye", q[1]) /\ 1 \in 1 .. n
      BY <1>3, <1>7 DEF KindOf
    <2>2. PICK j \in 1 .. n : Is(k, "ack", q[j])
      BY <1>1, <1>7, InSequence DEF KindsIn
    <2>3. j < 1
      BY <1>1, <2>1, <2>2 DEF Orderly
    <2>4. QED
      BY <2>3
  <1>8. QED
    BY <1>2, <1>6, <1>7

LEMMA OrderlyCovers ==
    ASSUME NEW k, NEW q \in Seq(Messages), NEW s, Orderly(k, q, s)
    PROVE  Covered(KindsIn(k, q), s)
  <1> SUFFICES ASSUME "cancel" \in KindsIn(k, q), s # "cancelling" PROVE "ack" \in KindsIn(k, q)
    BY DEF Covered
  <1>1. PICK i \in 1 .. Len(q) : Is(k, "cancel", q[i])
    BY InSequence DEF KindsIn
  <1>2. PICK j \in 1 .. Len(q) : Is(k, "ack", q[j])
    BY <1>1 DEF Orderly
  <1>3. QED
    BY <1>2, InSequence DEF KindsIn, Kinds

(* What the caller may send next, and how it may go on.                    *)
LEMMA OrderlyAppend ==
    ASSUME NEW k, NEW q \in Seq(Messages), NEW s, Orderly(k, q, s), NEW m \in Messages, NEW s1,
           "cancel" \in KindOf(k, m) => s1 = "cancelling",
           s = "cancelling" => s1 = "cancelling" \/ "ack" \in KindOf(k, m),
           "ack" \in KindOf(k, m) => "bye" \notin KindsIn(k, q)
    PROVE  Orderly(k, Append(q, m), s1)
  <1>1. PICK n \in Nat : n = Len(q)
    BY AppendFacts
  <1>2. PICK t \in Seq(Messages) : t = Append(q, m)
    BY AppendFacts
  <1>3. /\ Len(t) = n + 1 /\ t[n + 1] = m
        /\ \A i \in 1 .. n : t[i] = q[i]
        /\ \A i \in 1 .. n + 1 : i \in 1 .. n \/ i = n + 1
    BY <1>1, <1>2, AppendFacts
  <1>4. \A c \in Kinds : Is(k, c, m) <=> c \in KindOf(k, m)
    BY DEF KindOf
  <1>5. {"cancel", "ack", "bye"} \subseteq Kinds
    BY DEF Kinds
  <1>6. ASSUME NEW i \in 1 .. Len(t), Is(k, "cancel", t[i]), s1 # "cancelling"
        PROVE  \E j \in 1 .. Len(t) : i < j /\ Is(k, "ack", t[j])
    <2>1. i \in 1 .. n /\ Is(k, "cancel", q[i])
      BY <1>3, <1>4, <1>5, <1>6
    <2>2. CASE s = "cancelling"
      <3>1. Is(k, "ack", t[n + 1]) /\ n + 1 \in 1 .. n + 1
        BY <1>3, <1>4, <1>5, <1>6, <2>2
      <3>2. i < n + 1
        BY <2>1
      <3>3. QED
        BY <1>3, <3>1, <3>2
    <2>3. CASE s # "cancelling"
      <3>1. PICK j \in 1 .. n : i < j /\ Is(k, "ack", q[j])
        BY <1>1, <2>1, <2>3 DEF Orderly
      <3>2. j \in 1 .. n + 1 /\ t[j] = q[j]
        BY <1>3, <3>1
      <3>3. QED
        BY <1>3, <3>1, <3>2
    <2>4. QED
      BY <2>2, <2>3
  <1>7. ASSUME NEW i \in 1 .. Len(t), NEW j \in 1 .. Len(t), Is(k, "bye", t[i]), Is(k, "ack", t[j])
        PROVE  j < i
    <2>1. ~(Is(k, "bye", m) /\ Is(k, "ack", m))
      BY DEF Is
    <2>2. CASE j = n + 1
      <3>1. "bye" \notin KindsIn(k, q) /\ Is(k, "ack", m)
        BY <1>3, <1>4, <1>5, <1>7, <2>2
      <3>2. i \in 1 .. n /\ Is(k, "bye", q[i])
        BY <1>3, <1>7, <2>1, <3>1
      <3>3. "bye" \in KindsIn(k, q)
        BY <1>1, <1>5, <3>2, InSequence DEF KindsIn
      <3>4. QED
        BY <3>1, <3>3
    <2>3. CASE j # n + 1
      <3>1. j \in 1 .. n /\ Is(k, "ack", q[j])
        BY <1>3, <1>7, <2>3
      <3>2. CASE i = n + 1
        BY <3>1, <3>2
      <3>3. CASE i # n + 1
        <4>1. i \in 1 .. n /\ Is(k, "bye", q[i])
          BY <1>3, <1>7, <3>3
        <4>2. QED
          BY <1>1, <3>1, <4>1 DEF Orderly
      <3>4. QED
        BY <3>2, <3>3
    <2>4. QED
      BY <2>2, <2>3
  <1>8. QED
    BY <1>2, <1>6, <1>7 DEF Orderly

LEMMA OrderlyState ==
    ASSUME NEW k, NEW q, NEW s, Orderly(k, q, s), NEW s1, s # "cancelling" \/ s1 = "cancelling"
    PROVE  Orderly(k, q, s1)
  BY DEF Orderly

LEMMA OneKind ==
    ASSUME NEW k, NEW m
    PROVE  \A c, e \in KindOf(k, m) : c = e
  BY DEF KindOf, Kinds, Is

LEMMA OthersKind ==
    ASSUME NEW k, NEW m, ~Mine(k, m)
    PROVE  KindOf(k, m) = {}
  BY DEF KindOf, Kinds, Is, Mine

(* Where a sole message is not, its kinds are not either.                  *)
LEMMA NoneKinds ==
    ASSUME NEW k \in Calls, NEW u, Ups(u), NEW d, Downs(d)
    PROVE  /\ NoneIn(k, "offer", u, d) => \A r \in Phones : \A c \in {"invite", "ok", "refusal"} :
                 c \notin KindsIn(k, u[r]) /\ c \notin KindsIn(k, d[r])
           /\ NoneIn(k, "ack", u, d) => \A r \in Phones :
                 "ack" \notin KindsIn(k, u[r]) /\ "ack" \notin KindsIn(k, d[r])
           /\ NoneIn(k, "callerBye", u, d) =>
                 "bye" \notin KindsIn(k, u[Caller[k]]) /\ "bye" \notin KindsIn(k, d[Called[k]])
           /\ NoneIn(k, "calledBye", u, d) =>
                 "bye" \notin KindsIn(k, u[Called[k]]) /\ "bye" \notin KindsIn(k, d[Caller[k]])
  <1>1. u \in Queues /\ d \in Queues
    BY DEF Ups, Downs
  <1>2. Caller[k] \in Phones /\ Called[k] \in Phones /\ Caller[k] # Called[k]
    BY PartiesAssumption
  <1>3. ASSUME NEW c \in Sole, NoneIn(k, c, u, d)
        PROVE  /\ \A r \in Phones : \A m \in ToSet(u[r]) : ~InUp(k, c, m)
               /\ \A r \in Phones : \A m \in ToSet(d[r]) : ~InUp(k, c, m)
    <2>1. /\ \A r \in Phones : \A m \in ToSet(u[r]) : ~InUp(k, c, m)
          /\ \A r \in Phones : \A m \in ToSet(d[r]) : ~InDown(k, c, r, m)
      BY <1>1, <1>3, NoneInSets
    <2>2. QED
      BY <2>1 DEF InDown
  <1>4. ASSUME NoneIn(k, "offer", u, d)
        PROVE  \A r \in Phones : \A c \in {"invite", "ok", "refusal"} :
                  c \notin KindsIn(k, u[r]) /\ c \notin KindsIn(k, d[r])
    <2>1. \A m : \A c \in {"invite", "ok", "refusal"} : Is(k, c, m) => InUp(k, "offer", m)
      BY DEF Is, InUp, Finals
    <2>2. QED
      BY <1>3, <1>4, <2>1 DEF Sole, KindsIn
  <1>5. ASSUME NoneIn(k, "ack", u, d)
        PROVE  \A r \in Phones : "ack" \notin KindsIn(k, u[r]) /\ "ack" \notin KindsIn(k, d[r])
    <2>1. \A m : Is(k, "ack", m) => InUp(k, "ack", m)
      BY DEF Is, InUp
    <2>2. QED
      BY <1>3, <1>5, <2>1 DEF Sole, KindsIn
  <1>6. /\ \A m \in ToSet(u[Caller[k]]) : Is(k, "bye", m) => InUp(k, "callerBye", m)
        /\ \A m \in ToSet(u[Called[k]]) : Is(k, "bye", m) => InUp(k, "calledBye", m)
    <2>1. ASSUME NEW p \in {Caller[k], Called[k]}, NEW m, UpMessage(p, m), Is(k, "bye", m)
          PROVE  InUp(k, IF p = Caller[k] THEN "callerBye" ELSE "calledBye", m)
      BY <1>2, <2>1 DEF UpMessage, Registers, CallerRequests, CalledAnswers, CalledHangUp,
                        ByCaller, ByCalled, Is, InUp, Finals
    <2>2. QED
      BY <1>2, <2>1 DEF Ups
  <1>7. /\ \A m \in ToSet(d[Caller[k]]) : Is(k, "bye", m) => InUp(k, "calledBye", m)
        /\ \A m \in ToSet(d[Called[k]]) : Is(k, "bye", m) => InUp(k, "callerBye", m)
    <2>1. ASSUME NEW p \in {Caller[k], Called[k]}, NEW m, DownMessage(p, m), Is(k, "bye", m)
          PROVE  InUp(k, IF p = Caller[k] THEN "calledBye" ELSE "callerBye", m)
      BY <1>2, <2>1 DEF DownMessage, CallerRequests, CalledAnswers, ByCaller, ByCalled, Is, InUp, Finals
    <2>2. QED
      BY <1>2, <2>1 DEF Downs
  <1>8. ASSUME NoneIn(k, "callerBye", u, d)
        PROVE  "bye" \notin KindsIn(k, u[Caller[k]]) /\ "bye" \notin KindsIn(k, d[Called[k]])
    BY <1>2, <1>3, <1>6, <1>7, <1>8 DEF Sole, KindsIn
  <1>9. ASSUME NoneIn(k, "calledBye", u, d)
        PROVE  "bye" \notin KindsIn(k, u[Called[k]]) /\ "bye" \notin KindsIn(k, d[Caller[k]])
    BY <1>2, <1>3, <1>6, <1>7, <1>9 DEF Sole, KindsIn
  <1>10. QED
    BY <1>4, <1>5, <1>8, <1>9

LEMMA TalkHolds ==
    ASSUME NEW k \in Calls, NEW u, Ups(u), NEW d, Downs(d), NEW s, NEW t, NEW st,
           CallOf(k, u, d, s, t, st)
    PROVE  Talk(KindsIn(k, u[Caller[k]]), KindsIn(k, u[Called[k]]),
                KindsIn(k, d[Caller[k]]), KindsIn(k, d[Called[k]]), s, t, st)
  <1>1. Caller[k] \in Phones /\ Called[k] \in Phones /\ Caller[k] # Called[k]
    BY PartiesAssumption
  <1>2. ASSUME NEW m, \E p \in Phones : m \in ToSet(u[p]) \cup ToSet(d[p])
        PROVE  Mine(k, m) => Tells(k, m, s, t)
    BY <1>2 DEF CallOf, Told
  <1>3. ASSUME NEW m, Mine(k, m) => Tells(k, m, s, t)
        PROVE  /\ Is(k, "invite", m) => s = "inviting" /\ t = "idle"
               /\ Is(k, "ok", m) => s \in Waiting /\ t = "answered"
               /\ Is(k, "refusal", m) => s \in Waiting /\ t = "refused"
               /\ Is(k, "cancel", m) => t # "idle"
               /\ Is(k, "ack", m) => s \in Settled
               /\ Is(k, "bye", m) \/ Is(k, "byeEnd", m) =>
                     s \in Settled /\ t \in Accepted \cup {"over"}
               /\ Is(k, "bye", m) /\ m.from = Caller[k] => s # "up"
               /\ Is(k, "bye", m) /\ m.from = Called[k] => t \in {"leaving", "over"}
    BY <1>3 DEF Is, Mine, Tells, Finals
  <1>4. /\ \A m \in ToSet(u[Caller[k]]) : Is(k, "bye", m) => m.from = Caller[k]
        /\ \A m \in ToSet(u[Called[k]]) : Is(k, "bye", m) => m.from = Called[k]
    <2>1. ASSUME NEW p \in {Caller[k], Called[k]}, NEW m, UpMessage(p, m), Is(k, "bye", m)
          PROVE  m.from = p
      BY <1>1, <2>1 DEF UpMessage, Registers, CallerRequests, CalledAnswers, CalledHangUp,
                        ByCaller, ByCalled, Is, Finals
    <2>2. QED
      BY <1>1, <2>1 DEF Ups
  <1>5. /\ \A m \in ToSet(d[Caller[k]]) : Is(k, "bye", m) => m.from = Called[k]
        /\ \A m \in ToSet(d[Called[k]]) : Is(k, "bye", m) => m.from = Caller[k]
    <2>1. ASSUME NEW p \in {Caller[k], Called[k]}, NEW m, DownMessage(p, m), Is(k, "bye", m)
          PROVE  m.from = IF p = Caller[k] THEN Called[k] ELSE Caller[k]
      BY <1>1, <2>1 DEF DownMessage, CallerRequests, CalledAnswers, ByCaller, ByCalled, Is, Finals
    <2>2. QED
      BY <1>1, <2>1 DEF Downs
  <1> DEFINE A == KindsIn(k, u[Caller[k]])
             B == KindsIn(k, u[Called[k]])
             C == KindsIn(k, d[Caller[k]])
             D == KindsIn(k, d[Called[k]])
  <1>6. ASSUME NEW c \in A \cup B \cup C \cup D
        PROVE  \E m : /\ Is(k, c, m)
                      /\ \E p \in Phones : m \in ToSet(u[p]) \cup ToSet(d[p])
                      /\ c = "bye" /\ c \in A \cup D =>
                            \E e : /\ Is(k, c, e) /\ e.from = Caller[k]
                                  /\ \E p \in Phones : e \in ToSet(u[p]) \cup ToSet(d[p])
                      /\ c = "bye" /\ c \in B \cup C =>
                            \E e : /\ Is(k, c, e) /\ e.from = Called[k]
                                  /\ \E p \in Phones : e \in ToSet(u[p]) \cup ToSet(d[p])
    BY <1>1, <1>4, <1>5, <1>6 DEF KindsIn
  <1> HIDE DEF A, B, C, D
  <1>7. /\ "invite" \in A \cup B \cup C \cup D => s = "inviting" /\ t = "idle"
        /\ "ok" \in A \cup B \cup C \cup D => s \in Waiting /\ t = "answered"
        /\ "refusal" \in A \cup B \cup C \cup D => s \in Waiting /\ t = "refused"
        /\ "cancel" \in A \cup B \cup C \cup D => t # "idle"
        /\ "ack" \in A \cup B \cup C \cup D => s \in Settled
        /\ "bye" \in A \cup B \cup C \cup D \/ "byeEnd" \in A \cup B \cup C \cup D =>
              s \in Settled /\ t \in Accepted \cup {"over"}
        /\ "bye" \in A \cup D => s # "up"
        /\ "bye" \in B \cup C => t \in {"leaving", "over"}
    BY <1>2, <1>3, <1>6
  <1>8. InStep(s, t) /\ (st = "Connected" => s \notin {"idle", "over"} /\ t \in Accepted)
    BY DEF CallOf, Connects
  <1>9. Talk(A, B, C, D, s, t, st)
    BY <1>7, <1>8 DEF Talk
  <1>10. QED
    BY <1>9 DEF A, B, C, D

(***************************************************************************)
(* The server takes a message m from p.                                    *)
(***************************************************************************)
FromCaller(k) == KindsIn(k, up[Caller[k]])
FromCalled(k) == KindsIn(k, up[Called[k]])
ForCaller(k) == KindsIn(k, down[Caller[k]])
ForCalled(k) == KindsIn(k, down[Called[k]])

QuietAs(k, s, t, st) == Quiet(FromCaller(k), FromCalled(k), ForCaller(k), ForCalled(k), s, t, st)
TalkAs(k, s, t, st) == Talk(FromCaller(k), FromCalled(k), ForCaller(k), ForCalled(k), s, t, st)

(* What is on its way to the server is what was, without m.                *)
Taken(k, p, m) ==
    /\ FromCaller(k)' \subseteq FromCaller(k) /\ FromCalled(k)' \subseteq FromCalled(k)
    /\ IF p = Caller[k]
       THEN /\ KindOf(k, m) \subseteq FromCaller(k)
            /\ FromCaller(k) \subseteq FromCaller(k)' \cup KindOf(k, m)
       ELSE FromCaller(k)' = FromCaller(k)
    /\ IF p = Called[k]
       THEN /\ KindOf(k, m) \subseteq FromCalled(k)
            /\ FromCalled(k) \subseteq FromCalled(k)' \cup KindOf(k, m)
       ELSE FromCalled(k)' = FromCalled(k)

(* The sole messages, and the order of the caller's.                       *)
TakenAlone(k, p, m) ==
    /\ Orderly(k, up'[Caller[k]], caller[k])
    /\ Covered(FromCaller(k), caller[k]) /\ Covered(FromCaller(k)', caller[k])
    /\ \A c \in {"invite", "ok", "refusal"} : c \in KindOf(k, m) =>
          \A e \in {"invite", "ok", "refusal"} :
              /\ e \notin FromCaller(k)' /\ e \notin FromCalled(k)'
              /\ e \notin ForCaller(k) /\ e \notin ForCalled(k)
    /\ "ack" \in KindOf(k, m) => "ack" \notin FromCaller(k)'
    /\ "bye" \in KindOf(k, m) /\ p = Caller[k] => "ack" \notin FromCaller(k)

LEMMA CalmIs ==
    ASSUME NEW k \in Calls
    PROVE  CalmCall(k) <=> /\ Between(k) /\ Orderly(k, up[Caller[k]], caller[k])
                           /\ QuietAs(k, caller[k], called[k], sessions[k].state)
  BY DEF CalmCall, CalmOf, QuietAs, FromCaller, FromCalled, ForCaller, ForCalled

LEMMA TalkIs ==
    ASSUME Placed, NEW k \in Calls, CallInv(k)
    PROVE  TalkAs(k, caller[k], called[k], sessions[k].state)
  <1>1. Ups(up) /\ Downs(down)
    BY PlacedIs
  <1>2. QED
    BY <1>1, TalkHolds DEF CallInv, TalkAs, FromCaller, FromCalled, ForCaller, ForCalled

LEMMA ServerTakes ==
    ASSUME SipTypeOK, Placed, NEW k \in Calls, NEW p \in Phones, Server(p), NEW m, m = Head(up[p])
    PROVE  /\ m \in Messages /\ m \in ToSet(up[p]) /\ UpMessage(p, m)
           /\ UNCHANGED <<caller, called>> /\ Taken(k, p, m)
  <1>1. Caller[k] \in Phones /\ Called[k] \in Phones
    BY PartiesAssumption
  <1>2. up[p] # <<>> /\ up' = Popped(up, p) /\ UNCHANGED <<caller, called>>
    BY ServerHandles
  <1>3. m \in Messages /\ m \in ToSet(up[p]) /\ UpMessage(p, m) /\ up \in Queues
    BY <1>2, MessageFacts DEF Placed
  <1>4. PICK u2 : u2 = Popped(up, p)
    OBVIOUS
  <1>5. Loses(k, up, p, m, u2)
    BY <1>2, <1>3, <1>4, KindsPopped
  <1>6. Taken(k, p, m)
    BY <1>1, <1>2, <1>4, <1>5 DEF Loses, Taken, FromCaller, FromCalled
  <1>7. QED
    BY <1>2, <1>3, <1>6

LEMMA ServerTakesAlone ==
    ASSUME SipTypeOK, Placed, NEW k \in Calls, CallInv(k), CalmCall(k), NEW p \in Phones, Server(p),
           NEW m, m = Head(up[p])
    PROVE  TakenAlone(k, p, m)
  <1>1. Caller[k] \in Phones /\ Called[k] \in Phones
    BY PartiesAssumption
  <1>2. up[p] # <<>> /\ up' = Popped(up, p) /\ UNCHANGED <<caller, called>>
    BY ServerHandles
  <1>3. /\ Ups(up) /\ Downs(down) /\ Ups(up') /\ up \in Queues /\ up' \in Queues /\ down \in Queues
    <2>1. Placed'
      BY ServerKeepsTypes
    <2>2. QED
      BY <2>1, PlacedIs DEF Placed, Ups
  <1>4. PICK u2, q : u2 = up' /\ q = up[Caller[k]]
    OBVIOUS
  <1>5. Orderly(k, q, caller[k]) /\ q \in Seq(Messages) /\ u2[Caller[k]] \in Seq(Messages)
    BY <1>1, <1>3, <1>4, CalmIs DEF Queues
  <1>6. /\ u2[Caller[k]] = IF p = Caller[k] THEN Tail(q) ELSE q
    BY <1>1, <1>2, <1>3, <1>4 DEF Popped, Queues
  <1>7. /\ Orderly(k, u2[Caller[k]], caller[k])
        /\ "bye" \in KindOf(k, m) /\ p = Caller[k] => "ack" \notin FromCaller(k)
    BY <1>2, <1>4, <1>5, <1>6, OrderlyTail DEF FromCaller
  <1>8. Covered(FromCaller(k), caller[k]) /\ Covered(FromCaller(k)', caller[k])
    BY <1>4, <1>5, <1>7, OrderlyCovers DEF FromCaller
  <1>9. \A c \in Sole : InUp(k, c, m) => NoneIn(k, c, u2, down)
    BY <1>2, <1>3, <1>4, PopUpNone DEF CallInv, CallOf
  <1>10. ASSUME NEW c \in {"invite", "ok", "refusal"}, c \in KindOf(k, m)
         PROVE  \A e \in {"invite", "ok", "refusal"} :
                    /\ e \notin FromCaller(k)' /\ e \notin FromCalled(k)'
                    /\ e \notin ForCaller(k) /\ e \notin ForCalled(k)
    <2>1. InUp(k, "offer", m)
      BY <1>10 DEF KindOf, Is, InUp, Finals
    <2>2. NoneIn(k, "offer", u2, down)
      BY <1>9, <2>1 DEF Sole
    <2>3. \A r \in Phones : \A e \in {"invite", "ok", "refusal"} :
              e \notin KindsIn(k, u2[r]) /\ e \notin KindsIn(k, down[r])
      BY <1>3, <1>4, <2>2, NoneKinds
    <2>4. QED
      BY <1>1, <1>4, <2>3 DEF FromCaller, FromCalled, ForCaller, ForCalled
  <1>11. ASSUME "ack" \in KindOf(k, m) PROVE "ack" \notin FromCaller(k)'
    <2>1. InUp(k, "ack", m)
      BY <1>11 DEF KindOf, Is, InUp
    <2>2. NoneIn(k, "ack", u2, down)
      BY <1>9, <2>1 DEF Sole
    <2>3. "ack" \notin KindsIn(k, u2[Caller[k]])
      BY <1>1, <1>3, <1>4, <2>2, NoneKinds
    <2>4. QED
      BY <1>4, <2>3 DEF FromCaller
  <1>12. QED
    BY <1>4, <1>7, <1>8, <1>10, <1>11 DEF TakenAlone

(* What a message from p says of its call.                                 *)
LEMMA MineUp ==
    ASSUME NEW k \in Calls, NEW p, NEW m, UpMessage(p, m), Mine(k, m)
    PROVE  /\ m.call = k /\ m.type \notin {"REGISTER", "UNREGISTER", "NotFound"}
           /\ m.type \in {"INVITE", "CANCEL", "ACK", "BYE"} => m.method = m.type /\ p = m.from
           /\ m.type \in {"INVITE", "CANCEL", "ACK"} => p = Caller[k] /\ m.to = Called[k]
           /\ m.type = "BYE" => \/ p = Caller[k] /\ m.to = Called[k]
                                \/ p = Called[k] /\ m.to = Caller[k]
           /\ m.type \in {"Trying", "Ringing", "Busy", "Unavailable", "RequestTerminated"} =>
                 m.method = "INVITE"
           /\ m.method = "INVITE" /\ m.type # "INVITE" => p = Called[k] /\ m.to = p /\ m.from = Caller[k]
           /\ m.type = "OK" => m.method \in {"INVITE", "CANCEL", "BYE"} /\ p \in {Caller[k], Called[k]}
  BY DEF UpMessage, Registers, CallerRequests, CalledAnswers, CalledHangUp, ByCaller, ByCalled, Mine,
         Finals

(* The kinds that endHandle sends.                                         *)
LEMMA HandKinds ==
    ASSUME Placed, NEW k, NEW m \in Messages, NEW number \in Phones, NEW p \in Phones,
           NEW d2, d2 = EndHandle(number, m, p)
    PROVE  /\ number \in clients => Gains(k, down, number, m, d2)
           /\ number \notin clients /\ m.method # "BYE" => \A r \in Phones :
                 KindsIn(k, d2[r]) = KindsIn(k, down[r])
  <1>1. down \in Queues
    BY DEF Placed
  <1>2. ASSUME number \in clients PROVE Gains(k, down, number, m, d2)
    <2>1. d2 = Added(down, number, m)
      BY <1>2 DEF EndHandle, Added
    <2>2. QED
      BY <1>1, <2>1, KindsAdded
  <1>3. ASSUME number \notin clients, m.method # "BYE"
        PROVE  \A r \in Phones : KindsIn(k, d2[r]) = KindsIn(k, down[r])
    <2>1. PICK n : n = [m EXCEPT !.type = "NotFound"]
      OBVIOUS
    <2>2. n \in Messages /\ n.type = "NotFound" /\ n.method = m.method
      BY <2>1, RenamedFacts DEF Types
    <2>3. KindOf(k, n) = {}
      BY <1>3, <2>2 DEF KindOf, Kinds, Is
    <2>4. d2 = Added(down, p, n)
      BY <1>3, <2>1 DEF EndHandle, Added
    <2>5. Gains(k, down, p, n, d2)
      BY <1>1, <2>2, <2>4, KindsAdded
    <2>6. QED
      BY <2>3, <2>5 DEF Gains
  <1>4. QED
    BY <1>2, <1>3

LEMMA BetweenStays ==
    ASSUME NEW k, Between(k), UNCHANGED <<sessions, clients>>
    PROVE  Between(k)'
  BY DEF Between

LEMMA BetweenEnds ==
    ASSUME SipTypeOK, NEW k \in Calls, sessions' = EndCall(k)
    PROVE  Between(k)' /\ sessions'[k].state = "none"
  <1>1. sessions'[k] = NoSession
    BY DEF SipTypeOK, EndCall
  <1>2. NoSession.state = "none"
    BY DEF NoSession
  <1>3. QED
    BY <1>1, <1>2 DEF Between

LEMMA BetweenSets ==
    ASSUME SipTypeOK, NEW k \in Calls, Between(k), clients' = clients, NEW state, state # "none",
           sessions' = SetCallState(k, state)
    PROVE  /\ Between(k)'
           /\ sessions'[k].state = IF sessions[k].state = "none" THEN "none" ELSE state
           /\ sessions[k].state # "none" => Caller[k] \in clients /\ Called[k] \in clients
  <1>1. sessions \in [Calls -> Sessions]
    BY DEF SipTypeOK, Sessions
  <1>2. PICK v : v = IF sessions[k].state = "none" THEN "none" ELSE state
    OBVIOUS
  <1>3. sessions'[k] = [sessions[k] EXCEPT !.state = v]
    BY <1>1, <1>2 DEF SetCallState
  <1>4. sessions'[k] = [state |-> v, dest |-> sessions[k].dest]
    BY <1>1, <1>3 DEF Sessions
  <1>5. sessions'[k].state = v
    BY <1>4
  <1>6. ASSUME sessions[k].state = "none" PROVE sessions'[k] = sessions[k]
    <2>1. sessions[k] = [state |-> sessions[k].state, dest |-> sessions[k].dest]
      BY <1>1 DEF Sessions
    <2>2. QED
      BY <1>2, <1>4, <1>6, <2>1
  <1>7. QED
    BY <1>2, <1>5, <1>6 DEF Between

LEMMA CalmNext ==
    ASSUME NEW k \in Calls, NEW p, NEW m, TakenAlone(k, p, m), UNCHANGED <<caller, called>>,
           Between(k)', NEW st1, st1 = sessions'[k].state,
           Quiet(FromCaller(k)', FromCalled(k)', ForCaller(k)', ForCalled(k)',
                 caller[k], called[k], st1)
    PROVE  CalmCall(k)'
  BY DEF TakenAlone, CalmCall, CalmOf, FromCaller, FromCalled, ForCaller, ForCalled

(***************************************************************************)
(* A step of the server, seen from a call.                                 *)
(***************************************************************************)
Served(k, p, m) ==
    /\ m \in Messages /\ UpMessage(p, m) /\ UNCHANGED <<caller, called>>
    /\ Taken(k, p, m) /\ TakenAlone(k, p, m) /\ Between(k)
    /\ sessions[k].state \in States
    /\ TalkAs(k, caller[k], called[k], sessions[k].state)
    /\ QuietAs(k, caller[k], called[k], sessions[k].state)

LEMMA ServerServes ==
    ASSUME SipTypeOK, Placed, NEW k \in Calls, CallInv(k), CalmCall(k), NEW p \in Phones, Server(p),
           NEW m, m = Head(up[p])
    PROVE  Served(k, p, m)
  <1>1. sessions[k].state \in States
    BY DEF SipTypeOK
  <1>2. Between(k) /\ QuietAs(k, caller[k], called[k], sessions[k].state)
    BY CalmIs
  <1>3. QED
    BY <1>1, <1>2, TalkIs, ServerTakes, ServerTakesAlone DEF Served

(* A call between clients has its messages passed on.                      *)
LEMMA Handed ==
    ASSUME Placed, NEW k \in Calls, NEW m \in Messages, NEW p \in Phones
    PROVE  /\ down' = EndHandle(Caller[k], m, p) /\ (Caller[k] \in clients \/ m.method # "BYE") =>
                 /\ ForCalled(k)' = ForCalled(k) /\ ForCaller(k) \subseteq ForCaller(k)'
                 /\ ForCaller(k)' \subseteq ForCaller(k) \cup KindOf(k, m)
                 /\ Caller[k] \in clients => KindOf(k, m) \subseteq ForCaller(k)'
           /\ down' = EndHandle(Called[k], m, p) /\ (Called[k] \in clients \/ m.method # "BYE") =>
                 /\ ForCaller(k)' = ForCaller(k) /\ ForCalled(k) \subseteq ForCalled(k)'
                 /\ ForCalled(k)' \subseteq ForCalled(k) \cup KindOf(k, m)
                 /\ Called[k] \in clients => KindOf(k, m) \subseteq ForCalled(k)'
  <1>1. Caller[k] \in Phones /\ Called[k] \in Phones /\ Caller[k] # Called[k]
    BY PartiesAssumption
  <1>2. ASSUME NEW number \in Phones, down' = EndHandle(number, m, p),
               number \in clients \/ m.method # "BYE"
        PROVE  /\ number \in clients => Gains(k, down, number, m, down')
               /\ number \notin clients => \A r \in Phones : KindsIn(k, down'[r]) = KindsIn(k, down[r])
    <2>1. PICK d2 : d2 = EndHandle(number, m, p)
      OBVIOUS
    <2>2. QED
      BY <1>2, <2>1, HandKinds
  <1>3. ASSUME down' = EndHandle(Caller[k], m, p), Caller[k] \in clients \/ m.method # "BYE"
        PROVE  /\ ForCalled(k)' = ForCalled(k) /\ ForCaller(k) \subseteq ForCaller(k)'
               /\ ForCaller(k)' \subseteq ForCaller(k) \cup KindOf(k, m)
               /\ Caller[k] \in clients => KindOf(k, m) \subseteq ForCaller(k)'
    BY <1>1, <1>2, <1>3 DEF Gains, ForCaller, ForCalled
  <1>4. ASSUME down' = EndHandle(Called[k], m, p), Called[k] \in clients \/ m.method # "BYE"
        PROVE  /\ ForCaller(k)' = ForCaller(k) /\ ForCalled(k) \subseteq ForCalled(k)'
               /\ ForCalled(k)' \subseteq ForCalled(k) \cup KindOf(k, m)
               /\ Called[k] \in clients => KindOf(k, m) \subseteq ForCalled(k)'
    BY <1>1, <1>2, <1>4 DEF Gains, ForCaller, ForCalled
  <1>5. QED
    BY <1>3, <1>4

LEMMA RefusedCalm ==
    ASSUME SipTypeOK, Placed, NEW k \in Calls, NEW p \in Phones, NEW m, m = Head(up[p]),
           Served(k, p, m), OnRefused(p), Mine(k, m)
    PROVE  CalmCall(k)'
  <1>1. m.type \in {"Busy", "Unavailable"} /\ m \in Messages
    BY DEF OnRefused, Receive, Served
  <1>2. p = Called[k] /\ m.from = Caller[k] /\ m.method = "INVITE" /\ m.call = k
    BY <1>1, MineUp DEF Served
  <1>3. /\ sessions' = SetCallState(k, m.type) /\ down' = EndHandle(Caller[k], m, p)
        /\ clients' = clients
    BY <1>2 DEF OnRefused
  <1>4. KindOf(k, m) = {"refusal"}
    BY <1>1, <1>2 DEF KindOf, Kinds, Is
  <1>5. PICK s, t, st, st1 :
            s = caller[k] /\ t = called[k] /\ st = sessions[k].state /\ st1 = sessions'[k].state
    OBVIOUS
  <1>6. PICK A, B, C, D, B1, C1 :
            /\ A = FromCaller(k) /\ B = FromCalled(k) /\ C = ForCaller(k) /\ D = ForCalled(k)
            /\ B1 = FromCalled(k)' /\ C1 = ForCaller(k)'
    OBVIOUS
  <1>7. Caller[k] # Called[k]
    BY PartiesAssumption
  <1>8. "refusal" \in B /\ B1 \subseteq B /\ FromCaller(k)' = A
    BY <1>2, <1>4, <1>6, <1>7 DEF Served, Taken
  <1>9. st \in States /\ Talk(A, B, C, D, s, t, st) /\ Quiet(A, B, C, D, s, t, st)
    BY <1>5, <1>6 DEF Served, TalkAs, QuietAs
  <1>10. Between(k)' /\ st1 = (IF st = "none" THEN "none" ELSE m.type)
         /\ (st # "none" => Caller[k] \in clients)
    BY <1>1, <1>3, <1>5, BetweenSets DEF Served
  <1>11. ForCalled(k)' = D /\ C1 \subseteq C \cup {"refusal"} /\ (st # "none" => "refusal" \in C1)
    BY <1>1, <1>2, <1>3, <1>4, <1>6, <1>10, Handed
  <1>12. Quiet(A, B1, C1, D, s, t, st1)
    BY <1>1, <1>8, <1>9, <1>10, <1>11, RefusalQuiet
  <1>13. QED
    BY <1>5, <1>6, <1>8, <1>10, <1>11, <1>12, CalmNext DEF Served

LEMMA CancelCalm ==
    ASSUME SipTypeOK, Placed, NEW k \in Calls, NEW p \in Phones, NEW m, m = Head(up[p]),
           Served(k, p, m), OnCancel(p), Mine(k, m)
    PROVE  CalmCall(k)'
  <1>1. m.type = "CANCEL" /\ m \in Messages
    BY DEF OnCancel, Receive, Served
  <1>2. p = Caller[k] /\ m.to = Called[k] /\ m.method = "CANCEL" /\ m.call = k
    BY <1>1, MineUp DEF Served
  <1>3. /\ sessions' = SetCallState(k, "Cancel") /\ down' = EndHandle(Called[k], m, p)
        /\ clients' = clients
    BY <1>2 DEF OnCancel
  <1>4. KindOf(k, m) = {"cancel"}
    BY <1>1, <1>2 DEF KindOf, Kinds, Is
  <1>5. PICK s, t, st, st1 :
            s = caller[k] /\ t = called[k] /\ st = sessions[k].state /\ st1 = sessions'[k].state
    OBVIOUS
  <1>6. PICK A, B, C, D, A1, D1 :
            /\ A = FromCaller(k) /\ B = FromCalled(k) /\ C = ForCaller(k) /\ D = ForCalled(k)
            /\ A1 = FromCaller(k)' /\ D1 = ForCalled(k)'
    OBVIOUS
  <1>7. Caller[k] # Called[k]
    BY PartiesAssumption
  <1>8. "cancel" \in A /\ A1 \subseteq A /\ A \subseteq A1 \cup {"cancel"} /\ FromCalled(k)' = B
    BY <1>2, <1>4, <1>6, <1>7 DEF Served, Taken
  <1>9. Quiet(A, B, C, D, s, t, st) /\ Covered(A, s)
    BY <1>5, <1>6 DEF Served, QuietAs, TakenAlone
  <1>10. Between(k)' /\ st1 = IF st = "none" THEN "none" ELSE "Cancel"
    BY <1>3, <1>5, BetweenSets DEF Served
  <1>11. ForCaller(k)' = C /\ D1 \subseteq D \cup {"cancel"}
    BY <1>1, <1>2, <1>3, <1>4, <1>6, Handed
  <1>12. Quiet(A1, B, C, D1, s, t, st1)
    BY <1>8, <1>9, <1>10, <1>11, CancelQuiet
  <1>13. QED
    BY <1>5, <1>6, <1>8, <1>10, <1>11, <1>12, CalmNext DEF Served

LEMMA AckCalm ==
    ASSUME SipTypeOK, Placed, NEW k \in Calls, NEW p \in Phones, NEW m, m = Head(up[p]),
           Served(k, p, m), OnAck(p), Mine(k, m)
    PROVE  CalmCall(k)'
  <1>1. m.type = "ACK" /\ m \in Messages
    BY DEF OnAck, Receive, Served
  <1>2. p = Caller[k] /\ m.to = Called[k] /\ m.method = "ACK" /\ m.call = k
    BY <1>1, MineUp DEF Served
  <1>3. KindOf(k, m) = {"ack"}
    BY <1>1, <1>2 DEF KindOf, Kinds, Is
  <1>4. PICK s, t, st, st1 :
            s = caller[k] /\ t = called[k] /\ st = sessions[k].state /\ st1 = sessions'[k].state
    OBVIOUS
  <1>5. PICK A, B, C, D, A1, D1 :
            /\ A = FromCaller(k) /\ B = FromCalled(k) /\ C = ForCaller(k) /\ D = ForCalled(k)
            /\ A1 = FromCaller(k)' /\ D1 = ForCalled(k)'
    OBVIOUS
  <1>6. /\ down' = IF st = "none" THEN down ELSE EndHandle(Called[k], m, p)
        /\ sessions' = IF st \in EndedByAck THEN EndCall(k) ELSE sessions
        /\ clients' = clients
    BY <1>2, <1>4 DEF OnAck
  <1>7. Caller[k] # Called[k]
    BY PartiesAssumption
  <1>8. /\ "ack" \in A /\ A1 \subseteq A /\ A \subseteq A1 \cup {"ack"} /\ FromCalled(k)' = B
        /\ "ack" \notin A1 /\ Covered(A1, s)
    BY <1>2, <1>3, <1>4, <1>5, <1>7 DEF Served, Taken, TakenAlone
  <1>9. Talk(A, B, C, D, s, t, st) /\ Quiet(A, B, C, D, s, t, st)
    BY <1>4, <1>5 DEF Served, TalkAs, QuietAs
  <1>10. Between(k)' /\ st1 = IF st \in EndedByAck THEN "none" ELSE st
    <2>1. CASE st \in EndedByAck
      BY <1>4, <1>6, <2>1, BetweenEnds
    <2>2. CASE st \notin EndedByAck
      BY <1>4, <1>6, <2>2, BetweenStays DEF Served
    <2>3. QED
      BY <2>1, <2>2
  <1>11. ForCaller(k)' = C /\ D1 \subseteq D \cup {"ack"} /\ D \subseteq D1
    <2>1. CASE st = "none"
      BY <1>5, <1>6, <2>1 DEF ForCaller, ForCalled
    <2>2. CASE st # "none"
      BY <1>1, <1>2, <1>3, <1>5, <1>6, <2>2, Handed
    <2>3. QED
      BY <2>1, <2>2
  <1>12. Quiet(A1, B, C, D1, s, t, st1)
    BY <1>8, <1>9, <1>10, <1>11, AckQuiet
  <1>13. QED
    BY <1>4, <1>5, <1>8, <1>10, <1>11, <1>12, CalmNext DEF Served

LEMMA ByeCalm ==
    ASSUME SipTypeOK, Placed, NEW k \in Calls, NEW p \in Phones, NEW m, m = Head(up[p]),
           Served(k, p, m), OnBye(p), Mine(k, m)
    PROVE  CalmCall(k)'
  <1>1. m.type = "BYE" /\ m \in Messages
    BY DEF OnBye, Receive, Served
  <1>2. /\ m.method = "BYE" /\ m.call = k
        /\ \/ p = Caller[k] /\ m.to = Called[k]
           \/ p = Called[k] /\ m.to = Caller[k]
    BY <1>1, MineUp DEF Served
  <1>3. /\ sessions' = SetCallState(k, "Bye") /\ down' = EndHandle(m.to, m, p)
        /\ clients' = clients
    BY <1>2 DEF OnBye
  <1>4. KindOf(k, m) = {"bye"}
    BY <1>1, <1>2 DEF KindOf, Kinds, Is
  <1>5. PICK s, t, st, st1 :
            s = caller[k] /\ t = called[k] /\ st = sessions[k].state /\ st1 = sessions'[k].state
    OBVIOUS
  <1>6. PICK A, B, C, D, A1, B1, C1, D1 :
            /\ A = FromCaller(k) /\ B = FromCalled(k) /\ C = ForCaller(k) /\ D = ForCalled(k)
            /\ A1 = FromCaller(k)' /\ B1 = FromCalled(k)' /\ C1 = ForCaller(k)' /\ D1 = ForCalled(k)'
    OBVIOUS
  <1>7. Caller[k] # Called[k]
    BY PartiesAssumption
  <1>8. Talk(A, B, C, D, s, t, st) /\ Quiet(A, B, C, D, s, t, st) /\ Covered(A, s) /\ Covered(A1, s)
    BY <1>5, <1>6 DEF Served, TalkAs, QuietAs, TakenAlone
  <1>9. /\ Between(k)' /\ st1 = IF st = "none" THEN "none" ELSE "Bye"
        /\ st # "none" => Caller[k] \in clients /\ Called[k] \in clients
    BY <1>3, <1>5, BetweenSets DEF Served
  <1>10. CASE p = Caller[k] /\ m.to = Called[k]
    <2>1. "bye" \in A /\ A1 \subseteq A /\ B1 = B /\ "ack" \notin A
      BY <1>4, <1>6, <1>7, <1>10 DEF Served, Taken, TakenAlone
    <2>2. "cancel" \notin A1
      BY <1>8, <2>1 DEF Covered, Talk, Settled
    <2>3. st # "none" => "bye" \in D1 /\ C1 = C /\ D1 \subseteq D \cup {"bye"}
      BY <1>1, <1>3, <1>4, <1>6, <1>9, <1>10, Handed
    <2>4. Quiet(A1, B1, C1, D1, s, t, st1)
      BY <1>8, <1>9, <2>1, <2>2, <2>3, CallerByeQuiet
    <2>5. QED
      BY <1>5, <1>6, <1>9, <2>4, CalmNext DEF Served
  <1>11. CASE p = Called[k] /\ m.to = Caller[k]
    <2>1. "bye" \in B /\ B1 \subseteq B /\ A1 = A
      BY <1>4, <1>6, <1>7, <1>11 DEF Served, Taken
    <2>2. st # "none" => "bye" \in C1 /\ D1 = D /\ C1 \subseteq C \cup {"bye"}
      BY <1>1, <1>3, <1>4, <1>6, <1>9, <1>11, Handed
    <2>3. Quiet(A1, B1, C1, D1, s, t, st1)
      BY <1>8, <1>9, <2>1, <2>2, CalledByeQuiet
    <2>4. QED
      BY <1>5, <1>6, <1>9, <2>3, CalmNext DEF Served
  <1>12. QED
    BY <1>2, <1>10, <1>11

LEMMA InviteCalm ==
    ASSUME SipTypeOK, Placed, NEW k \in Calls, NEW p \in Phones, NEW m, m = Head(up[p]),
           Served(k, p, m), OnInvite(p), Mine(k, m)
    PROVE  CalmCall(k)'
  <1>1. m.type = "INVITE" /\ m \in Messages /\ clients' = clients
    BY DEF OnInvite, Receive, Served
  <1>2. /\ p = Caller[k] /\ m.from = Caller[k] /\ m.to = Called[k]
        /\ m.method = "INVITE" /\ m.call = k
    BY <1>1, MineUp DEF Served
  <1>3. KindOf(k, m) = {"invite"}
    BY <1>1, <1>2 DEF KindOf, Kinds, Is
  <1>4. PICK s, t, st, st1 :
            s = caller[k] /\ t = called[k] /\ st = sessions[k].state /\ st1 = sessions'[k].state
    OBVIOUS
  <1>5. PICK A, B, C, D, A1, D1 :
            /\ A = FromCaller(k) /\ B = FromCalled(k) /\ C = ForCaller(k) /\ D = ForCalled(k)
            /\ A1 = FromCaller(k)' /\ D1 = ForCalled(k)'
    OBVIOUS
  <1>6. Caller[k] # Called[k]
    BY PartiesAssumption
  <1>7. /\ "invite" \in A /\ A1 \subseteq A /\ FromCalled(k)' = B
        /\ "invite" \notin D
    BY <1>2, <1>3, <1>5, <1>6 DEF Served, Taken, TakenAlone
  <1>8. st \in States /\ Talk(A, B, C, D, s, t, st) /\ Quiet(A, B, C, D, s, t, st)
    BY <1>4, <1>5 DEF Served, TalkAs, QuietAs
  <1>9. ASSUME ForCaller(k)' = C, D1 \subseteq D \cup {"invite"}
        PROVE  /\ st = "none" /\ Quiet(A1, B, C, D1, s, t, "none")
               /\ "invite" \in D1 => Quiet(A1, B, C, D1, s, t, "Invited")
    BY <1>7, <1>8, <1>9, InviteQuiet
  <1>10. ASSUME ForCaller(k)' = C, D1 = D, sessions' = sessions
         PROVE  CalmCall(k)'
    <2>1. st1 = "none" /\ Quiet(A1, B, C, D1, s, t, st1)
      BY <1>4, <1>9, <1>10
    <2>2. Between(k)'
      BY <1>1, <1>10, BetweenStays DEF Served
    <2>3. QED
      BY <1>4, <1>5, <1>7, <1>10, <2>1, <2>2, CalmNext DEF Served
  <1>11. CASE UNCHANGED <<sessions, down>>
    BY <1>5, <1>10, <1>11 DEF ForCaller, ForCalled
  <1>12. CASE down' = EndHandle(m.from, [m EXCEPT !.type = "NotFound"], p) /\ UNCHANGED sessions
    <2>1. PICK n : n = [m EXCEPT !.type = "NotFound"]
      OBVIOUS
    <2>2. n \in Messages /\ n.type = "NotFound" /\ n.method = m.method
      BY <1>1, <2>1, RenamedFacts DEF Types
    <2>3. KindOf(k, n) = {}
      BY <1>2, <2>2 DEF KindOf, Kinds, Is
    <2>4. ForCalled(k)' = D /\ ForCaller(k)' = C
      BY <1>2, <1>5, <1>12, <2>1, <2>2, <2>3, Handed, Zenon
    <2>5. QED
      BY <1>5, <1>10, <1>12, <2>4
  <1>13. CASE /\ {m.from, m.to} \subseteq clients
              /\ sessions' = IF sessions[m.call] # NoSession THEN sessions
                             ELSE [sessions EXCEPT ![m.call].state = "Invited"]
              /\ down' = EndHandle(m.to, m, p)
    <2>1. Called[k] \in clients /\ Caller[k] \in clients
      BY <1>2, <1>13
    <2>2. ForCaller(k)' = C /\ D1 \subseteq D \cup {"invite"} /\ "invite" \in D1
      BY <1>1, <1>2, <1>3, <1>5, <1>13, <2>1, Handed
    <2>3. sessions[k] = NoSession
      BY <1>4, <1>9, <2>2 DEF Served, Between
    <2>4. PICK r : r = [sessions[k] EXCEPT !.state = "Invited"]
      OBVIOUS
    <2>5. r.state = "Invited"
      BY <2>3, <2>4 DEF NoSession
    <2>6. sessions'[k] = r
      BY <1>2, <1>13, <2>3, <2>4 DEF SipTypeOK
    <2>7. st1 = "Invited" /\ Between(k)'
      BY <1>1, <1>4, <2>1, <2>5, <2>6 DEF Between
    <2>8. Quiet(A1, B, C, D1, s, t, st1)
      BY <1>9, <2>2, <2>7
    <2>9. QED
      BY <1>4, <1>5, <1>7, <2>2, <2>7, <2>8, CalmNext DEF Served
  <1>14. QED
    BY <1>11, <1>12, <1>13 DEF OnInvite

LEMMA AnswerCalm ==
    ASSUME SipTypeOK, Placed, NEW k \in Calls, NEW p \in Phones, NEW m, m = Head(up[p]),
           Served(k, p, m), OnOk(p), Mine(k, m), m.method = "INVITE"
    PROVE  CalmCall(k)'
  <1>1. m.type = "OK" /\ m \in Messages /\ clients' = clients
    BY DEF OnOk, Receive, Served
  <1>2. p = Called[k] /\ m.to = Called[k] /\ m.from = Caller[k] /\ m.call = k
    BY <1>1, MineUp DEF Served
  <1>3. KindOf(k, m) = {"ok"}
    BY <1>1, <1>2 DEF KindOf, Kinds, Is
  <1>4. PICK s, t, st, st1 :
            s = caller[k] /\ t = called[k] /\ st = sessions[k].state /\ st1 = sessions'[k].state
    OBVIOUS
  <1>5. PICK A, B, C, D, B1, C1 :
            /\ A = FromCaller(k) /\ B = FromCalled(k) /\ C = ForCaller(k) /\ D = ForCalled(k)
            /\ B1 = FromCalled(k)' /\ C1 = ForCaller(k)'
    OBVIOUS
  <1>6. Caller[k] # Called[k]
    BY PartiesAssumption
  <1>7. "ok" \in B /\ B1 \subseteq B /\ B \subseteq B1 \cup {"ok"} /\ FromCaller(k)' = A
    BY <1>2, <1>3, <1>5, <1>6 DEF Served, Taken
  <1>8. "refusal" \notin B
    BY <1>3, <1>5, <1>7 DEF Served, TakenAlone
  <1>9. Talk(A, B, C, D, s, t, st) /\ Quiet(A, B, C, D, s, t, st)
    BY <1>4, <1>5 DEF Served, TalkAs, QuietAs
  <1>10. /\ down' = down => ForCalled(k)' = D /\ C1 = C
         /\ down' = EndHandle(Caller[k], m, p) =>
               ForCalled(k)' = D /\ C \subseteq C1 /\ C1 \subseteq C \cup {"ok"}
    <2>1. down' = down => ForCalled(k)' = D /\ C1 = C
      BY <1>5 DEF ForCaller, ForCalled
    <2>2. down' = EndHandle(Caller[k], m, p) =>
             ForCalled(k)' = D /\ C \subseteq C1 /\ C1 \subseteq C \cup {"ok"}
      BY <1>1, <1>3, <1>5, Handed
    <2>3. QED
      BY <2>1, <2>2
  <1>11. ASSUME ForCalled(k)' = D, C \subseteq C1, C1 \subseteq C \cup {"ok"}
         PROVE  /\ Quiet(A, B1, C1, D, s, t, "none")
                /\ st = "Cancel" => Quiet(A, B1, C1, D, s, t, "Cancel")
                /\ st \notin {"none", "Cancel"} => Quiet(A, B1, C1, D, s, t, "Connected")
    BY <1>7, <1>8, <1>9, <1>11, OkQuiet
  <1>12. ASSUME ForCalled(k)' = D, Between(k)', Quiet(A, B1, C1, D, s, t, st1)
         PROVE  CalmCall(k)'
    BY <1>4, <1>5, <1>7, <1>12, CalmNext DEF Served
  <1>13. CASE st \in {"none", "Cancel"} /\ sessions' = sessions
              /\ (down' = down \/ down' = EndHandle(Caller[k], m, p))
    <2>1. ForCalled(k)' = D /\ Quiet(A, B1, C1, D, s, t, st1)
      BY <1>4, <1>10, <1>11, <1>13
    <2>2. Between(k)'
      BY <1>1, <1>13, BetweenStays DEF Served
    <2>3. QED
      BY <1>12, <2>1, <2>2
  <1>14. CASE sessions' = EndCall(k) /\ down' = down
    <2>1. Between(k)' /\ st1 = "none"
      BY <1>4, <1>14, BetweenEnds
    <2>2. ForCalled(k)' = D /\ Quiet(A, B1, C1, D, s, t, st1)
      BY <1>10, <1>11, <1>14, <2>1
    <2>3. QED
      BY <1>12, <2>1, <2>2
  <1>15. CASE st \notin {"none", "Cancel"} /\ Connect(m, p)
    <2>1. PICK r : r = [state |-> "Connected", dest |-> TRUE]
      OBVIOUS
    <2>2. sessions'[k] = r /\ down' = EndHandle(Caller[k], m, p)
      BY <1>2, <1>15, <2>1 DEF Connect, SipTypeOK
    <2>3. st1 = "Connected" /\ Between(k)'
      BY <1>1, <1>4, <1>15, <2>1, <2>2 DEF Between, Served
    <2>4. ForCalled(k)' = D /\ Quiet(A, B1, C1, D, s, t, st1)
      BY <1>10, <1>11, <1>15, <2>2, <2>3
    <2>5. QED
      BY <1>12, <2>3, <2>4
  <1>16. st \notin {"none", "Cancel"} => m.to \in clients
    BY <1>2, <1>4 DEF Served, Between
  <1>17. QED
    BY <1>2, <1>4, <1>13, <1>14, <1>15, <1>16 DEF OnOk

LEMMA ByeAnswerCalm ==
    ASSUME SipTypeOK, Placed, NEW k \in Calls, NEW p \in Phones, NEW m, m = Head(up[p]),
           Served(k, p, m), OnOk(p), Mine(k, m), m.method = "BYE"
    PROVE  CalmCall(k)'
  <1>1. m.type = "OK" /\ m \in Messages /\ clients' = clients
    BY DEF OnOk, Receive, Served
  <1>2. p \in {Caller[k], Called[k]} /\ m.call = k
    BY <1>1, MineUp DEF Served
  <1>3. KindOf(k, m) = {"byeEnd"}
    BY <1>1, <1>2 DEF KindOf, Kinds, Is
  <1>4. PICK s, t, st, st1 :
            s = caller[k] /\ t = called[k] /\ st = sessions[k].state /\ st1 = sessions'[k].state
    OBVIOUS
  <1>5. PICK A, B, C, D, A1, B1, C1, D1 :
            /\ A = FromCaller(k) /\ B = FromCalled(k) /\ C = ForCaller(k) /\ D = ForCalled(k)
            /\ A1 = FromCaller(k)' /\ B1 = FromCalled(k)' /\ C1 = ForCaller(k)' /\ D1 = ForCalled(k)'
    OBVIOUS
  <1>6. "byeEnd" \in A \cup B /\ A1 \subseteq A /\ B1 \subseteq B
    BY <1>2, <1>3, <1>5 DEF Served, Taken
  <1>7. Quiet(A, B, C, D, s, t, st)
    BY <1>4, <1>5 DEF Served, QuietAs
  <1>8. st \in {"none", "Bye"} /\ Quiet(A1, B1, C1, D1, s, t, "none")
    BY <1>6, <1>7, ByeEndQuiet
  <1>9. \/ st = "none" /\ sessions' = sessions
        \/ sessions' = EndCall(k)
    BY <1>2, <1>4, <1>8 DEF OnOk
  <1>10. Between(k)' /\ st1 = "none"
    BY <1>1, <1>4, <1>9, BetweenStays, BetweenEnds DEF Served
  <1>11. QED
    BY <1>4, <1>5, <1>8, <1>10, CalmNext DEF Served

(* Of the messages of no kind the OK of a CANCEL may end a session.        *)
LEMMA OthersMove ==
    ASSUME SipTypeOK, Placed, NEW k \in Calls, NEW p \in Phones, NEW m, m = Head(up[p]),
           Server(p), UpMessage(p, m), KindOf(k, m) = {}
    PROVE  sessions'[k] = sessions[k] \/ sessions' = EndCall(k)
  <1>1. CASE OnRegister(p) \/ OnForwarded(p)
    BY <1>1 DEF OnRegister, OnForwarded
  <1>2. CASE Mine(k, m) /\ ~(OnRegister(p) \/ OnForwarded(p))
    <2>1. m.type \in {"INVITE", "CANCEL", "ACK", "BYE", "OK", "Busy", "Unavailable"}
      BY <1>2 DEF Server, OnInvite, OnRefused, OnCancel, OnBye, OnOk, OnAck, Receive
    <2>2. \A c \in Kinds : ~Is(k, c, m)
      BY DEF KindOf
    <2>3. m.call = k /\ m.method = "CANCEL" /\ m.type = "OK"
      BY <1>2, <2>1, <2>2, MineUp DEF Kinds, Is
    <2>4. OnOk(p)
      BY <1>2, <2>3 DEF Server, OnInvite, OnRefused, OnCancel, OnBye, OnAck, Receive
    <2>5. QED
      BY <2>3, <2>4 DEF OnOk
  <1>3. CASE ~Mine(k, m) /\ ~OnRegister(p)
    <2>1. m.method # "REGISTER"
      BY <1>3 DEF UpMessage, Registers, CallerRequests, CalledAnswers, CalledHangUp, Server, OnInvite,
                  OnForwarded, OnRefused, OnCancel, OnBye, OnOk, OnAck, Receive
    <2>2. m.call # k
      BY <1>3, <2>1 DEF Mine
    <2>3. Moves(m)
      BY ServerHandles DEF Handles
    <2>4. QED
      BY <2>2, <2>3 DEF Moves, SipTypeOK
  <1>4. QED
    BY <1>1, <1>2, <1>3

LEMMA OthersPass ==
    ASSUME Placed, NEW k \in Calls, NEW m, Delivers(m), KindOf(k, m) = {}
    PROVE  ForCaller(k)' = ForCaller(k) /\ ForCalled(k)' = ForCalled(k)
  <1>1. Caller[k] \in Phones /\ Called[k] \in Phones /\ down \in Queues
    BY PartiesAssumption DEF Placed
  <1>2. CASE down' = down
    BY <1>2 DEF ForCaller, ForCalled
  <1>3. ASSUME NEW q \in Phones, NEW m2 \in Messages, down' = Added(down, q, m2), Passes(q, m, m2)
        PROVE  ForCaller(k)' = ForCaller(k) /\ ForCalled(k)' = ForCalled(k)
    <2>1. KindOf(k, m2) = {}
      BY <1>3 DEF KindOf, Kinds, Is, Passes
    <2>2. PICK d2 : d2 = Added(down, q, m2)
      OBVIOUS
    <2>3. Gains(k, down, q, m2, d2)
      BY <1>1, <2>2, KindsAdded
    <2>4. QED
      BY <1>1, <1>3, <2>1, <2>2, <2>3 DEF Gains, ForCaller, ForCalled
  <1>4. QED
    BY <1>2, <1>3 DEF Delivers

LEMMA OthersCalm ==
    ASSUME SipTypeOK, Placed, NEW k \in Calls, NEW p \in Phones, NEW m, m = Head(up[p]),
           Served(k, p, m), Server(p), KindOf(k, m) = {}, clients \subseteq clients'
    PROVE  CalmCall(k)'
  <1>1. ForCaller(k)' = ForCaller(k) /\ ForCalled(k)' = ForCalled(k)
    BY ServerHandles, OthersPass DEF Handles
  <1>2. PICK A, B, C, D, A1, B1 :
            /\ A = FromCaller(k) /\ B = FromCalled(k) /\ C = ForCaller(k) /\ D = ForCalled(k)
            /\ A1 = FromCaller(k)' /\ B1 = FromCalled(k)'
    OBVIOUS
  <1>3. PICK s, t, st, st1 :
            s = caller[k] /\ t = called[k] /\ st = sessions[k].state /\ st1 = sessions'[k].state
    OBVIOUS
  <1>4. A1 = A /\ B1 = B
    BY <1>2 DEF Served, Taken
  <1>5. Quiet(A, B, C, D, s, t, st)
    BY <1>2, <1>3 DEF Served, QuietAs
  <1>6. Quiet(A, B, C, D, s, t, "none")
    BY <1>5, QuietEnds
  <1>7. CASE sessions'[k] = sessions[k]
    <2>1. Between(k)' /\ st1 = st
      BY <1>3, <1>7 DEF Between, Served
    <2>2. QED
      BY <1>1, <1>2, <1>3, <1>4, <1>5, <2>1, CalmNext DEF Served
  <1>8. CASE sessions' = EndCall(k)
    <2>1. Between(k)' /\ st1 = "none"
      BY <1>3, <1>8, BetweenEnds
    <2>2. QED
      BY <1>1, <1>2, <1>3, <1>4, <1>6, <2>1, CalmNext DEF Served
  <1>9. QED
    BY <1>7, <1>8, OthersMove DEF Served

LEMMA ServerKeepsCalm ==
    ASSUME SipTypeOK, Placed, \A k \in Calls : CallInv(k), Calm, NEW p \in Phones, Server(p)
    PROVE  Calm'
  <1>1. PICK m : m = Head(up[p])
    OBVIOUS
  <1>2. up[p] # <<>> /\ up' = Popped(up, p) /\ m \in ToSet(up[p]) /\ up \in Queues
    BY <1>1, ServerHandles, MessageFacts DEF Placed
  <1>3. NobodyUnregisters'
    <2>1. PICK u2 : u2 = Popped(up, p)
      OBVIOUS
    <2>2. \A r \in Phones : ToSet(u2[r]) \subseteq ToSet(up[r])
      BY <1>2, <2>1, PopQueue
    <2>3. QED
      BY <1>2, <2>1, <2>2 DEF Calm, NobodyUnregisters
  <1>4. clients \subseteq clients'
    <2>1. m.type # "UNREGISTER"
      BY <1>2 DEF Calm, NobodyUnregisters
    <2>2. QED
      BY <1>1, <2>1 DEF Server, OnRegister, OnInvite, OnForwarded, OnRefused, OnCancel, OnBye, OnOk,
                        OnAck, Receive
  <1>5. ASSUME NEW k \in Calls PROVE CalmCall(k)'
    <2>1. Served(k, p, m)
      BY <1>1, ServerServes DEF Calm
    <2>2. CASE KindOf(k, m) = {}
      BY <1>1, <1>4, <2>1, <2>2, OthersCalm
    <2>3. CASE KindOf(k, m) # {}
      <3>1. Mine(k, m)
        BY <2>3, OthersKind
      <3>2. m.method # "REGISTER" /\ m.type \notin {"REGISTER", "UNREGISTER"}
        BY <2>1, <3>1, MineUp DEF Mine, Served
      <3>3. ~OnRegister(p) /\ (OnOk(p) => m.method \in {"INVITE", "BYE"}) /\ ~OnForwarded(p)
        <4>1. ~OnRegister(p)
          BY <1>1, <3>2 DEF OnRegister, Receive
        <4>2. OnOk(p) => m.type = "OK"
          BY <1>1 DEF OnOk, Receive
        <4>3. OnForwarded(p) => m.type \in {"Trying", "Ringing", "RequestTerminated"}
          BY <1>1 DEF OnForwarded, Receive
        <4>4. m.type = "OK" => m.method \in {"INVITE", "BYE"}
          BY <2>1, <2>3, <3>1, MineUp DEF Served, KindOf, Is
        <4>5. m.type \notin {"Trying", "Ringing", "RequestTerminated"}
          BY <2>1, <2>3, <3>1, MineUp DEF Served, KindOf, Is
        <4>6. QED
          BY <4>1, <4>2, <4>3, <4>4, <4>5
      <3>4. QED
        BY <1>1, <2>1, <3>1, <3>3, InviteCalm, RefusedCalm, CancelCalm, ByeCalm, AnswerCalm,
           ByeAnswerCalm, AckCalm DEF Server
    <2>4. QED
      BY <2>2, <2>3
  <1>6. QED
    BY <1>3, <1>5 DEF Calm

(***************************************************************************)
(* What a phone says of a call k leaves the others as they are.            *)
(***************************************************************************)
SameFor(j, u, u2) ==
    \A r \in Phones :
        /\ KindsIn(j, u2[r]) = KindsIn(j, u[r])
        /\ \A s : Orderly(j, u[r], s) => Orderly(j, u2[r], s)

LEMMA NoKindAdded ==
    ASSUME NEW j, NEW u \in Queues, NEW p \in Phones, NEW m \in Messages, KindOf(j, m) = {},
           NEW u2, u2 = Added(u, p, m)
    PROVE  SameFor(j, u, u2)
  <1>1. Gains(j, u, p, m, u2)
    BY KindsAdded
  <1>2. \A r \in Phones : KindsIn(j, u2[r]) = KindsIn(j, u[r])
    BY <1>1 DEF Gains
  <1>3. ASSUME NEW r \in Phones, NEW s, Orderly(j, u[r], s) PROVE Orderly(j, u2[r], s)
    <2>1. CASE r # p
      BY <1>3, <2>1 DEF Added, Queues
    <2>2. CASE r = p
      <3>1. PICK q \in Seq(Messages) : q = u[r]
        BY DEF Queues
      <3>2. u2[r] = Append(q, m)
        BY <2>2, <3>1 DEF Added, Queues
      <3>3. Orderly(j, Append(q, m), s)
        BY <1>3, <3>1, OrderlyAppend
      <3>4. QED
        BY <3>2, <3>3
    <2>3. QED
      BY <2>1, <2>2
  <1>4. QED
    BY <1>2, <1>3 DEF SameFor

LEMMA SaysKinds ==
    ASSUME NEW u, Ups(u), NEW k \in Calls, NEW p \in Phones, NEW ms, SaysAll(k, p, ms),
           NEW u2, u2 = Sent(u, p, ms), NEW j, j # k
    PROVE  SameFor(j, u, u2)
  <1>1. u \in Queues
    BY DEF Ups
  <1>2. \A a : Says(k, p, a) => KindOf(j, a) = {}
    BY OthersKind DEF Says, Mine
  <1>3. CASE ms = <<>>
    <2>1. u2 = u
      BY <1>1, <1>3, NothingSent
    <2>2. QED
      BY <2>1 DEF SameFor
  <1>4. ASSUME NEW a \in Messages, ms = <<a>>, Says(k, p, a) PROVE SameFor(j, u, u2)
    <2>1. u2 = Added(u, p, a)
      BY <1>1, <1>4, OneSent
    <2>2. QED
      BY <1>1, <1>2, <1>4, <2>1, NoKindAdded
  <1>5. ASSUME NEW a \in Messages, NEW b \in Messages, ms = <<a, b>>, Says(k, p, a), Says(k, p, b)
        PROVE  SameFor(j, u, u2)
    <2>1. PICK u1 : u1 = Added(u, p, a)
      OBVIOUS
    <2>2. u2 = Added(u1, p, b)
      BY <1>1, <1>5, <2>1, TwoSent
    <2>3. u1 \in Queues
      BY <1>1, <2>1, AddQueue
    <2>4. SameFor(j, u, u1)
      BY <1>1, <1>2, <1>5, <2>1, NoKindAdded
    <2>5. SameFor(j, u1, u2)
      BY <1>2, <1>5, <2>2, <2>3, NoKindAdded
    <2>6. QED
      BY <2>4, <2>5 DEF SameFor
  <1>6. QED
    BY <1>3, <1>4, <1>5 DEF SaysAll

(* No party of a call unregisters by what it says of it.                   *)
LEMMA SaysNoUnregister ==
    ASSUME NEW u, Ups(u), NEW k \in Calls, NEW p \in Phones, NEW ms, SaysAll(k, p, ms),
           NEW u2, u2 = Sent(u, p, ms), \A r \in Phones : \A m \in ToSet(u[r]) : m.type # "UNREGISTER"
    PROVE  \A r \in Phones : \A m \in ToSet(u2[r]) : m.type # "UNREGISTER"
  <1>1. u \in Queues
    BY DEF Ups
  <1>2. \A a : Says(k, p, a) => a.type # "UNREGISTER"
    <2>1. ASSUME NEW a, Says(k, p, a) PROVE a.type # "UNREGISTER"
      BY <2>1, MineUp DEF Says
    <2>2. QED
      BY <2>1
  <1>3. ASSUME NEW v \in Queues, NEW a \in Messages, Says(k, p, a), NEW v2, v2 = Added(v, p, a),
               \A r \in Phones : \A m \in ToSet(v[r]) : m.type # "UNREGISTER"
        PROVE  v2 \in Queues /\ \A r \in Phones : \A m \in ToSet(v2[r]) : m.type # "UNREGISTER"
    <2>1. v2 \in Queues
      BY <1>3, AddQueue
    <2>2. \A r \in Phones : \A x : x \in ToSet(v2[r]) <=> x \in ToSet(v[r]) \/ (r = p /\ x = a)
      BY <1>3, AddSet
    <2>3. QED
      BY <1>2, <1>3, <2>1, <2>2
  <1>4. CASE ms = <<>>
    BY <1>1, <1>4, NothingSent
  <1>5. ASSUME NEW a \in Messages, ms = <<a>>, Says(k, p, a)
        PROVE  \A r \in Phones : \A m \in ToSet(u2[r]) : m.type # "UNREGISTER"
    <2>1. u2 = Added(u, p, a)
      BY <1>1, <1>5, OneSent
    <2>2. QED
      BY <1>1, <1>3, <1>5, <2>1
  <1>6. ASSUME NEW a \in Messages, NEW b \in Messages, ms = <<a, b>>, Says(k, p, a), Says(k, p, b)
        PROVE  \A r \in Phones : \A m \in ToSet(u2[r]) : m.type # "UNREGISTER"
    <2>1. PICK u1 : u1 = Added(u, p, a)
      OBVIOUS
    <2>2. u2 = Added(u1, p, b)
      BY <1>1, <1>6, <2>1, TwoSent
    <2>3. u1 \in Queues /\ \A r \in Phones : \A m \in ToSet(u1[r]) : m.type # "UNREGISTER"
      BY <1>1, <1>3, <1>6, <2>1
    <2>4. QED
      BY <1>3, <1>6, <2>2, <2>3
  <1>7. QED
    BY <1>4, <1>5, <1>6 DEF SaysAll

(* A step of a party of the call k: the others and the server stay.        *)
LEMMA PartyKeepsCalm ==
    ASSUME Placed, Calm, NEW k \in Calls, NEW p \in Phones, NEW ms, SaysAll(k, p, ms),
           NEW u2, u2 = Sent(up, p, ms), NEW d2, up' = u2, down' = d2,
           \A j : j # k => \A r \in Phones : KindsIn(j, d2[r]) = KindsIn(j, down[r]),
           NEW s2, NEW t2, caller' = [caller EXCEPT ![k] = s2], called' = [called EXCEPT ![k] = t2],
           UNCHANGED server, NEW st, st = sessions[k].state, CalmOf(k, u2, d2, s2, t2, st)
    PROVE  Calm'
  <1>1. /\ caller \in [Calls -> CallerStates] /\ called \in [Calls -> CalledStates] /\ Ups(up)
    BY PlacedIs
  <1>2. NobodyUnregisters'
    BY <1>1, SaysNoUnregister DEF Calm, NobodyUnregisters
  <1>3. ASSUME NEW j \in Calls PROVE CalmCall(j)'
    <2>1. Between(j)'
      BY DEF Calm, CalmCall, Between, server
    <2>2. CASE j = k
      <3>1. caller'[k] = s2 /\ called'[k] = t2 /\ sessions'[k].state = st
        BY <1>1 DEF server
      <3>2. QED
        BY <2>1, <2>2, <3>1 DEF CalmCall
    <2>3. CASE j # k
      <3>1. caller'[j] = caller[j] /\ called'[j] = called[j] /\ sessions'[j].state = sessions[j].state
        BY <1>1, <2>3 DEF server
      <3>2. SameFor(j, up, u2)
        BY <1>1, <2>3, SaysKinds
      <3>3. Caller[j] \in Phones /\ Called[j] \in Phones
        BY PartiesAssumption
      <3>4. CalmOf(j, up, down, caller[j], called[j], sessions[j].state)
        BY DEF Calm, CalmCall
      <3>5. CalmOf(j, u2, d2, caller[j], called[j], sessions[j].state)
        BY <2>3, <3>2, <3>3, <3>4 DEF CalmOf, SameFor
      <3>6. QED
        BY <2>1, <3>1, <3>5 DEF CalmCall
    <2>4. QED
      BY <2>2, <2>3
  <1>4. QED
    BY <1>2, <1>3 DEF Calm

(***************************************************************************)
(* A caller takes a message: the session it leaves behind is quiet.        *)
(***************************************************************************)
LEMMA CallerHeeds ==
    ASSUME NEW s, NEW m, NEW e, e = CallerReaction(s, m)
    PROVE  /\ m.type = "BYE" /\ s \in {"up", "leaving"} => e[1] = "over"
           /\ m.type \in {"Busy", "Unavailable"} /\ m.method = "INVITE" /\ s \in Waiting => e[1] = "over"
  BY DEF CallerReaction, Waiting, FinalRefusals

(* What the kind of a message taken by r says of the others on their way.  *)
LEMMA HeardAlone ==
    ASSUME NEW k \in Calls, NEW p \in Phones, NEW m, NEW u, Ups(u), NEW d, Downs(d), NEW s, NEW t,
           NEW st, Heard(k, p, m, u, d, s, t, st), Mine(k, m)
    PROVE  /\ /\ m.method = "INVITE"
              /\ m.type \in Finals \cup {"INVITE"} \/ (m.type = "NotFound" /\ p = Caller[k])
              =>
                 \A c \in {"invite", "ok", "refusal"} :
                    /\ c \notin KindsIn(k, u[Caller[k]]) /\ c \notin KindsIn(k, u[Called[k]])
                    /\ c \notin KindsIn(k, d[Caller[k]]) /\ c \notin KindsIn(k, d[Called[k]])
           /\ m.method = "ACK" /\ m.type = "ACK" => "ack" \notin KindsIn(k, u[Caller[k]])
           /\ m.method = "BYE" /\ m.type = "BYE" /\ m.from = Caller[k] =>
                 "bye" \notin KindsIn(k, u[Caller[k]])
           /\ m.method = "BYE" /\ m.type = "BYE" /\ m.from = Called[k] =>
                 "bye" \notin KindsIn(k, u[Called[k]])
  <1>1. Caller[k] \in Phones /\ Called[k] \in Phones
    BY PartiesAssumption
  <1>2. /\ m.method = "INVITE" /\ m.type \in Finals \cup {"INVITE"} => InDown(k, "offer", p, m)
        /\ m.method = "INVITE" /\ m.type = "NotFound" /\ p = Caller[k] => InDown(k, "offer", p, m)
        /\ m.method = "ACK" /\ m.type = "ACK" => InDown(k, "ack", p, m)
        /\ m.method = "BYE" /\ m.type = "BYE" /\ m.from = Caller[k] => InDown(k, "callerBye", p, m)
        /\ m.method = "BYE" /\ m.type = "BYE" /\ m.from = Called[k] => InDown(k, "calledBye", p, m)
    BY DEF InDown, InUp, Mine
  <1>3. \A c \in Sole : InDown(k, c, p, m) => NoneIn(k, c, u, d)
    BY DEF Heard
  <1>4. {"offer", "ack", "callerBye", "calledBye"} \subseteq Sole
    BY DEF Sole
  <1>5. /\ NoneIn(k, "offer", u, d) => \A r \in Phones : \A c \in {"invite", "ok", "refusal"} :
              c \notin KindsIn(k, u[r]) /\ c \notin KindsIn(k, d[r])
        /\ NoneIn(k, "ack", u, d) => \A r \in Phones : "ack" \notin KindsIn(k, u[r])
        /\ NoneIn(k, "callerBye", u, d) => "bye" \notin KindsIn(k, u[Caller[k]])
        /\ NoneIn(k, "calledBye", u, d) => "bye" \notin KindsIn(k, u[Called[k]])
    BY NoneKinds
  <1>6. QED
    BY <1>1, <1>2, <1>3, <1>4, <1>5

LEMMA CallerStaysCalm ==
    ASSUME NEW k \in Calls, NEW p, p = Caller[k], NEW m \in Messages, DownMessage(p, m), Mine(k, m),
           NEW s \in CallerStates, NEW e, e = CallerReaction(s, m), NEW u, Ups(u), NEW d, Downs(d),
           d[p] # <<>>, m = Head(d[p]), NEW d2, d2 = Popped(d, p), Downs(d2), NEW t, NEW st,
           CallOf(k, u, d, s, t, st), Heard(k, p, m, u, d2, s, t, st),
           CalmOf(k, u, d, s, t, st), NEW u2, u2 = Sent(u, p, e[2])
    PROVE  CalmOf(k, u2, d2, e[1], t, st)
  <1>1. p \in Phones /\ Called[k] \in Phones /\ Called[k] # p /\ m.call = k
    BY PartiesAssumption DEF Mine
  <1>2. u \in Queues /\ d \in Queues
    BY DEF Ups, Downs
  <1>3. PICK a, b, o :
            /\ a = Request(m.call, "ACK", m.from) /\ b = Request(m.call, "BYE", m.from)
            /\ o = Okay(m)
    OBVIOUS
  <1>4. m.method = "INVITE" =>
            a \in Messages /\ b \in Messages /\ KindOf(k, a) = {"ack"} /\ KindOf(k, b) = {"bye"}
    <2>1. m.method = "INVITE" =>
              /\ a \in Messages /\ a.type = "ACK" /\ a.method = "ACK" /\ a.call = k
              /\ b \in Messages /\ b.type = "BYE" /\ b.method = "BYE" /\ b.call = k
      BY <1>1, <1>3, ToCaller, RequestFacts DEF Methods, Says
    <2>2. QED
      BY <2>1 DEF KindOf, Kinds, Is
  <1>5. m.type = "BYE" => /\ o \in Messages /\ KindOf(k, o) = {"byeEnd"}
                          /\ m.method = "BYE" /\ m.from = Called[k]
    <2>1. m.type = "BYE" => /\ o \in Messages /\ o.type = "OK" /\ o.method = "BYE" /\ o.call = k
                            /\ m.method = "BYE" /\ m.from = Called[k]
      BY <1>1, <1>3, ToCaller, OkFacts
    <2>2. QED
      BY <2>1 DEF KindOf, Kinds, Is
  <1>6. PICK q : q = u[p]
    OBVIOUS
  <1>7. PICK A, B, C, D, C1 :
            /\ A = KindsIn(k, q) /\ B = KindsIn(k, u[Called[k]])
            /\ C = KindsIn(k, d[p]) /\ D = KindsIn(k, d[Called[k]]) /\ C1 = KindsIn(k, d2[p])
    OBVIOUS
  <1>8. /\ q \in Seq(Messages) /\ Orderly(k, q, s) /\ Quiet(A, B, C, D, s, t, st)
        /\ Talk(A, B, C, D, s, t, st)
    BY <1>1, <1>2, <1>6, <1>7, TalkHolds DEF CalmOf, Queues
  <1>9. C1 \subseteq C /\ C \subseteq C1 \cup KindOf(k, m) /\ KindOf(k, m) \subseteq C
        /\ KindsIn(k, d2[Called[k]]) = D
    <2>1. Loses(k, d, p, m, d2)
      BY <1>1, <1>2, KindsPopped
    <2>2. QED
      BY <1>1, <1>7, <2>1 DEF Loses
  <1>10. Tells(k, m, s, t) /\ TellsBack(k, p, m, s, t)
    BY DEF Heard
  <1>11. /\ m.method = "INVITE" /\ m.type \in Finals \cup {"NotFound"} =>
               "invite" \notin D /\ "ok" \notin B /\ "refusal" \notin B
         /\ m.type = "BYE" => "bye" \notin B
    BY <1>1, <1>5, <1>7, <1>9, HeardAlone
  <1>12. ASSUME NEW q2, NEW s2, Orderly(k, q2, s2), NEW A2, A2 = KindsIn(k, q2),
                Quiet(A2, B, C1, D, s2, t, st), u2[p] = q2, u2[Called[k]] = u[Called[k]], e[1] = s2
         PROVE  CalmOf(k, u2, d2, e[1], t, st)
    BY <1>7, <1>9, <1>12 DEF CalmOf
  <1>13. ASSUME NEW x \in Messages, e[2] = <<x>>
         PROVE  /\ u2[p] = Append(q, x) /\ u2[Called[k]] = u[Called[k]]
                /\ KindsIn(k, u2[p]) = A \cup KindOf(k, x)
    <2>1. u2 = Added(u, p, x)
      BY <1>1, <1>2, <1>13, OneSent
    <2>2. Gains(k, u, p, x, u2)
      BY <1>1, <1>2, <2>1, KindsAdded
    <2>3. QED
      BY <1>1, <1>2, <1>6, <1>7, <2>1, <2>2, Zenon DEF Gains, Added, Queues
  <1>14. ASSUME e[2] = <<>> PROVE u2[p] = q /\ u2[Called[k]] = u[Called[k]]
    BY <1>1, <1>2, <1>6, <1>14, NothingSent
  <1>15. CASE CallerProceeds(s, m, e)
    <2>1. s \in {"inviting", "proceeding"} /\ e[1] = "proceeding" /\ e[2] = <<>>
      BY <1>15 DEF CallerProceeds
    <2>2. KindOf(k, m) = {}
      BY <1>15, ToCaller DEF CallerProceeds, KindOf, Kinds, Is
    <2>3. C1 = C
      BY <1>9, <2>2
    <2>4. Quiet(A, B, C1, D, "proceeding", t, st)
      BY <1>8, <2>1, <2>3, ProceedingQuiet
    <2>5. Orderly(k, q, "proceeding")
      BY <1>8, <2>1, OrderlyState
    <2>6. QED
      BY <1>7, <1>12, <1>14, <2>1, <2>4, <2>5
  <1>16. ASSUME m.type = "OK", m.method = "INVITE"
         PROVE  s \in Waiting /\ t = "answered" /\ "bye" \notin A
    <2>1. s \in Waiting /\ t = "answered"
      BY <1>10, <1>16 DEF Tells, Finals
    <2>2. QED
      BY <1>8, <2>1, WaitingTalk DEF Waiting, Settled
  <1>17. CASE CallerAnswered(s, m, e, a)
    <2>1. m.type = "OK" /\ m.method = "INVITE"
      BY <1>17 DEF CallerAnswered
    <2>2. s \in {"inviting", "proceeding"} /\ e[1] = "up" /\ e[2] = <<a>>
      BY <1>16, <1>17, <2>1 DEF CallerAnswered, Waiting
    <2>3. PICK q2, A1 : q2 = u2[p] /\ A1 = KindsIn(k, u2[p])
      OBVIOUS
    <2>4. q2 = Append(q, a) /\ u2[Called[k]] = u[Called[k]] /\ A1 = A \cup {"ack"}
      BY <1>4, <1>13, <2>1, <2>2, <2>3
    <2>5. "ok" \notin B /\ "refusal" \notin B
      BY <1>11, <2>1 DEF Finals
    <2>6. Quiet(A1, B, C1, D, "up", t, st)
      BY <1>8, <1>9, <1>16, <2>1, <2>2, <2>4, <2>5, AnsweredQuiet
    <2>7. Orderly(k, q2, "up")
      BY <1>4, <1>7, <1>8, <1>16, <2>1, <2>2, <2>4, OrderlyAppend
    <2>8. QED
      BY <1>12, <2>2, <2>3, <2>4, <2>6, <2>7
  <1>18. CASE CallerTooLate(s, m, e, a, b)
    <2>1. m.type = "OK" /\ m.method = "INVITE" /\ s = "cancelling" /\ e[1] = "dropping" /\ e[2] = <<a, b>>
      BY <1>18 DEF CallerTooLate
    <2>2. a \in Messages /\ b \in Messages /\ KindOf(k, a) = {"ack"} /\ KindOf(k, b) = {"bye"}
      BY <1>4, <2>1
    <2>3. PICK u1 : u1 = Added(u, p, a)
      OBVIOUS
    <2>4. u2 = Added(u1, p, b)
      <3>1. PICK ms : ms = e[2]
        OBVIOUS
      <3>2. Sent(u, p, ms) = Added(Added(u, p, a), p, b)
        BY <1>1, <1>2, <2>1, <2>2, <3>1, TwoSent
      <3>3. QED
        BY <2>3, <3>1, <3>2
    <2>5. u1 \in Queues
      BY <1>1, <1>2, <2>2, <2>3, AddQueue
    <2>6. Gains(k, u, p, a, u1)
      BY <1>1, <1>2, <2>2, <2>3, KindsAdded
    <2>7. Gains(k, u1, p, b, u2)
      BY <1>1, <2>2, <2>4, <2>5, KindsAdded
    <2>8. PICK q1, q2, A1 : q1 = u1[p] /\ q2 = u2[p] /\ A1 = KindsIn(k, u2[p])
      OBVIOUS
    <2>9. KindsIn(k, q1) = A \cup {"ack"} /\ A1 = A \cup {"ack", "bye"}
      BY <1>1, <1>6, <1>7, <2>2, <2>6, <2>7, <2>8, Zenon DEF Gains
    <2>10. /\ q1 = Append(q, a) /\ q2 = Append(q1, b) /\ q1 \in Seq(Messages)
           /\ u2[Called[k]] = u[Called[k]]
      BY <1>1, <1>2, <1>6, <2>3, <2>4, <2>5, <2>8, Zenon DEF Added, Queues
    <2>11. "ok" \notin B /\ "refusal" \notin B /\ t = "answered" /\ "bye" \notin A
      BY <1>11, <1>16, <2>1 DEF Finals
    <2>12. Quiet(A1, B, C1, D, "dropping", t, st)
      BY <1>8, <1>9, <2>1, <2>9, <2>11, TooLateQuiet
    <2>13. Orderly(k, q1, "dropping")
      BY <1>7, <1>8, <2>1, <2>2, <2>10, <2>11, OrderlyAppend
    <2>14. Orderly(k, q2, "dropping")
      BY <2>2, <2>10, <2>13, OrderlyAppend
    <2>15. QED
      BY <1>12, <2>1, <2>8, <2>10, <2>12, <2>14
  <1>19. CASE CallerRefused(s, m, e, a)
    <2>1. m.type \in FinalRefusals /\ m.method = "INVITE" /\ e[1] = "over" /\ e[2] = <<a>> /\ s \in Waiting
      BY <1>19 DEF CallerRefused
    <2>2. t \in {"idle", "refused"}
      BY <1>10, <2>1 DEF Tells, TellsBack, FinalRefusals, Finals
    <2>3. "invite" \notin D /\ "ok" \notin B /\ "refusal" \notin B
      BY <1>11, <2>1 DEF FinalRefusals, Finals
    <2>4. PICK q2, A1 : q2 = u2[p] /\ A1 = KindsIn(k, u2[p])
      OBVIOUS
    <2>5. q2 = Append(q, a) /\ u2[Called[k]] = u[Called[k]] /\ A1 = A \cup {"ack"}
      BY <1>4, <1>13, <2>1, <2>4
    <2>6. "bye" \notin A
      BY <1>8, <2>1, WaitingTalk DEF Waiting, Settled
    <2>7. Quiet(A1, B, C1, D, "over", t, st)
      BY <1>8, <1>9, <2>1, <2>2, <2>3, <2>5, RefusedQuiet
    <2>8. Orderly(k, q2, "over")
      BY <1>4, <1>7, <1>8, <2>1, <2>5, <2>6, OrderlyAppend
    <2>9. QED
      BY <1>12, <2>1, <2>4, <2>5, <2>7, <2>8
  <1>20. CASE CallerLeft(s, m, e, o)
    <2>1. m.type = "BYE" /\ e[1] = "over" /\ e[2] = <<o>> /\ s \in {"up", "leaving"}
      BY <1>20 DEF CallerLeft
    <2>2. "bye" \in C /\ "bye" \notin B
      BY <1>1, <1>5, <1>9, <1>11, <2>1 DEF KindOf, Kinds, Is
    <2>3. PICK q2, A1 : q2 = u2[p] /\ A1 = KindsIn(k, u2[p])
      OBVIOUS
    <2>4. q2 = Append(q, o) /\ u2[Called[k]] = u[Called[k]] /\ A1 = A \cup {"byeEnd"}
      BY <1>5, <1>13, <2>1, <2>3
    <2>5. Quiet(A1, B, C1, D, "over", t, st)
      BY <1>8, <1>9, <2>2, <2>4, CallerLeftQuiet
    <2>6. Orderly(k, q2, "over")
      BY <1>5, <1>8, <2>1, <2>4, OrderlyAppend
    <2>7. QED
      BY <1>12, <2>1, <2>3, <2>4, <2>5, <2>6
  <1>21. CASE CallerDone(s, m, e)
    <2>1. /\ m.type \in {"OK", "NotFound"} /\ m.method = "BYE" /\ e[1] = "over" /\ e[2] = <<>>
          /\ s \in {"leaving", "dropping"}
      BY <1>21 DEF CallerDone
    <2>2. "byeEnd" \in C
      BY <1>1, <1>9, <2>1 DEF KindOf, Kinds, Is
    <2>3. Quiet(A, B, C1, D, "over", t, st)
      BY <1>8, <1>9, <2>2, DoneQuiet
    <2>4. Orderly(k, q, "over")
      BY <1>8, <2>1, OrderlyState
    <2>5. QED
      BY <1>7, <1>12, <1>14, <2>1, <2>3, <2>4
  <1>22. CASE e = <<s, <<>>>>
    <2>1. e[1] = s /\ e[2] = <<>>
      BY <1>22
    <2>2. "bye" \in C /\ s \in {"up", "leaving"} => "bye" \in C1
      <3>1. "bye" \in KindOf(k, m) => m.type = "BYE"
        BY DEF KindOf, Is
      <3>2. m.type = "BYE" => s \notin {"up", "leaving"}
        BY <2>1, CallerHeeds
      <3>3. QED
        BY <1>9, <3>1, <3>2
    <2>3. "refusal" \in C => "refusal" \in C1
      <3>1. "refusal" \notin KindOf(k, m)
        <4>1. "refusal" \in KindOf(k, m) => s \in Waiting
          BY <1>10 DEF KindOf, Is, Tells, Finals
        <4>2. QED
          BY <2>1, <4>1, CallerHeeds DEF KindOf, Is, Waiting
      <3>2. QED
        BY <1>9, <3>1
    <2>4. Quiet(A, B, C1, D, s, t, st)
      BY <1>8, <1>9, <2>2, <2>3, CallerIgnoresQuiet
    <2>5. QED
      BY <1>7, <1>8, <1>12, <1>14, <2>1, <2>4
  <1>23. QED
    BY <1>3, <1>15, <1>17, <1>18, <1>19, <1>20, <1>21, <1>22, CallerCases

(***************************************************************************)
(* A called party takes a message.                                         *)
(***************************************************************************)
LEMMA CalledHeeds ==
    ASSUME NEW t, NEW m, NEW e, e = CalledReaction(t, m)
    PROVE  /\ m.type = "INVITE" /\ t = "idle" => e[1] = "trying"
           /\ m.type = "BYE" /\ t \in Accepted => e[1] = "over"
  BY DEF CalledReaction, Accepted

LEMMA CalledStaysCalm ==
    ASSUME NEW k \in Calls, NEW p \in Phones, p # Caller[k], NEW m \in Messages, DownMessage(p, m),
           Mine(k, m), NEW t \in CalledStates, NEW e, e = CalledReaction(t, m), NEW u, Ups(u), NEW d,
           Downs(d), d[p] # <<>>, m = Head(d[p]), NEW d2, d2 = Popped(d, p), Downs(d2), NEW s, NEW st,
           CallOf(k, u, d, s, t, st), Heard(k, p, m, u, d2, s, t, st),
           CalmOf(k, u, d, s, t, st), NEW u2, u2 = Sent(u, p, e[2])
    PROVE  CalmOf(k, u2, d2, s, e[1], st)
  <1>1. p = Called[k] /\ Caller[k] \in Phones /\ Caller[k] # p /\ m.call = k
    BY ToCalled, PartiesAssumption DEF Mine
  <1>2. u \in Queues /\ d \in Queues
    BY DEF Ups, Downs
  <1>3. PICK y, o, x : y = Try(m) /\ o = Okay(m) /\ x = Terminated(m.call)
    OBVIOUS
  <1>4. Answers(k, p, m, y, o, x)
    BY <1>3, CalledAnswer
  <1>5. m.type \in {"INVITE", "CANCEL", "ACK", "BYE"} => m.method = m.type /\ m.from = Caller[k]
    BY ToCalled
  <1>6. PICK A, B, C, D, D1, q :
            /\ A = KindsIn(k, u[Caller[k]]) /\ B = KindsIn(k, u[p]) /\ q = u[Caller[k]]
            /\ C = KindsIn(k, d[Caller[k]]) /\ D = KindsIn(k, d[p]) /\ D1 = KindsIn(k, d2[p])
    OBVIOUS
  <1>7. /\ Orderly(k, q, s) /\ Quiet(A, B, C, D, s, t, st) /\ Talk(A, B, C, D, s, t, st)
    BY <1>1, <1>6, TalkHolds DEF CalmOf
  <1>8. D1 \subseteq D /\ D \subseteq D1 \cup KindOf(k, m) /\ KindOf(k, m) \subseteq D
        /\ KindsIn(k, d2[Caller[k]]) = C
    <2>1. Loses(k, d, p, m, d2)
      BY <1>2, KindsPopped
    <2>2. QED
      BY <1>1, <1>6, <2>1 DEF Loses
  <1>9. /\ m.type = "BYE" => "bye" \notin A
        /\ m.type = "ACK" => "ack" \notin A
    BY <1>5, <1>6, HeardAlone
  <1>10. ASSUME NEW B2, KindsIn(k, u2[p]) = B2, u2[Caller[k]] = q, NEW t2, e[1] = t2,
                Quiet(A, B2, C, D1, s, t2, st)
         PROVE  CalmOf(k, u2, d2, s, e[1], st)
    BY <1>1, <1>6, <1>7, <1>8, <1>10 DEF CalmOf
  <1>11. ASSUME e[2] = <<>> PROVE KindsIn(k, u2[p]) = B /\ u2[Caller[k]] = q
    BY <1>2, <1>6, <1>11, NothingSent
  <1>12. ASSUME NEW z \in Messages, e[2] = <<z>>
         PROVE  KindsIn(k, u2[p]) = B \cup KindOf(k, z) /\ u2[Caller[k]] = q
    <2>1. u2 = Added(u, p, z)
      BY <1>2, <1>12, OneSent
    <2>2. Gains(k, u, p, z, u2)
      BY <1>2, <2>1, KindsAdded
    <2>3. QED
      BY <1>1, <1>2, <1>6, <2>1, <2>2, Zenon DEF Gains, Added, Queues
  <1>13. CASE CalledIsTried(t, m, e, y)
    <2>1. m.type = "INVITE" /\ m.method = "INVITE" /\ t = "idle" /\ e[1] = "trying" /\ e[2] = <<y>>
      BY <1>5, <1>13 DEF CalledIsTried
    <2>2. y \in Messages /\ KindOf(k, y) = {}
      BY <1>4, <2>1 DEF Answers, KindOf, Kinds, Is
    <2>3. s = "inviting"
      BY <1>1, <2>1 DEF Heard, Tells
    <2>4. Quiet(A, B, C, D1, s, "trying", st)
      BY <1>7, <1>8, <2>1, <2>3, TryingQuiet
    <2>5. QED
      BY <1>10, <1>12, <2>1, <2>2, <2>4
  <1>14. CASE CalledIsStopped(t, m, e, o, x)
    <2>1. m.type = "CANCEL" /\ t \in {"trying", "ringing"} /\ e[1] = "refused" /\ e[2] = <<o, x>>
      BY <1>14 DEF CalledIsStopped
    <2>2. /\ o \in Messages /\ KindOf(k, o) = {} /\ x \in Messages /\ KindOf(k, x) = {}
          /\ "cancel" \in KindOf(k, m)
      BY <1>1, <1>4, <1>5, <2>1 DEF Answers, KindOf, Kinds, Is
    <2>3. PICK u1 : u1 = Added(u, p, o)
      OBVIOUS
    <2>4. u2 = Added(u1, p, x)
      <3>1. PICK ms : ms = e[2]
        OBVIOUS
      <3>2. Sent(u, p, ms) = Added(Added(u, p, o), p, x)
        BY <1>2, <2>1, <2>2, <3>1, TwoSent
      <3>3. QED
        BY <2>3, <3>1, <3>2
    <2>5. u1 \in Queues
      BY <1>2, <2>2, <2>3, AddQueue
    <2>6. Gains(k, u, p, o, u1)
      BY <1>2, <2>2, <2>3, KindsAdded
    <2>7. Gains(k, u1, p, x, u2)
      BY <2>2, <2>4, <2>5, KindsAdded
    <2>8. KindsIn(k, u2[p]) = B
      BY <1>6, <2>2, <2>6, <2>7 DEF Gains
    <2>9. u2[Caller[k]] = q
      BY <1>1, <1>2, <1>6, <2>3, <2>4, <2>5, Zenon DEF Added, Queues
    <2>10. Quiet(A, B, C, D1, s, "refused", st)
      BY <1>7, <1>8, <2>1, <2>2, StoppedQuiet
    <2>11. QED
      BY <1>10, <2>1, <2>8, <2>9, <2>10
  <1>15. ASSUME "invite" \notin KindOf(k, m), "bye" \notin KindOf(k, m) \/ t \notin Accepted
         PROVE  Quiet(A, B, C, D1, s, t, st)
    BY <1>7, <1>8, <1>15, CalledIgnoresQuiet
  <1>16. CASE CalledStopsLate(t, m, e, o)
    <2>1. m.type = "CANCEL" /\ e[1] = t /\ e[2] = <<o>>
      BY <1>16 DEF CalledStopsLate
    <2>2. o \in Messages /\ KindOf(k, o) = {}
      BY <1>4, <2>1 DEF Answers, KindOf, Kinds, Is
    <2>3. Quiet(A, B, C, D1, s, t, st)
      BY <1>15, <2>1 DEF KindOf, Is
    <2>4. QED
      BY <1>10, <1>12, <2>1, <2>2, <2>3
  <1>17. CASE CalledIsConfirmed(t, m, e)
    <2>1. PICK t1 : t1 = IF t = "answered" THEN "up" ELSE "over"
      OBVIOUS
    <2>2. m.type = "ACK" /\ t \in {"answered", "refused"} /\ e[1] = t1 /\ e[2] = <<>>
      BY <1>17, <2>1 DEF CalledIsConfirmed
    <2>3. KindOf(k, m) = {"ack"}
      BY <1>1, <1>5, <2>2 DEF KindOf, Kinds, Is
    <2>4. Quiet(A, B, C, D1, s, t1, st)
      BY <1>7, <1>8, <1>9, <2>1, <2>2, <2>3, ConfirmedQuiet
    <2>5. QED
      BY <1>10, <1>11, <2>2, <2>4
  <1>18. CASE CalledLeft(t, m, e, o)
    <2>1. m.type = "BYE" /\ e[1] = "over" /\ e[2] = <<o>>
      BY <1>18 DEF CalledLeft
    <2>2. /\ o \in Messages /\ KindOf(k, o) = {"byeEnd"} /\ "bye" \in KindOf(k, m)
      BY <1>1, <1>4, <2>1 DEF Answers, KindOf, Kinds, Is, Says, Mine
    <2>3. PICK B1 : B1 = KindsIn(k, u2[p])
      OBVIOUS
    <2>4. B1 = B \cup {"byeEnd"} /\ u2[Caller[k]] = q
      BY <1>12, <2>1, <2>2, <2>3
    <2>5. Quiet(A, B1, C, D1, s, "over", st)
      BY <1>7, <1>8, <1>9, <2>1, <2>2, <2>4, CalledLeftQuiet
    <2>6. QED
      BY <1>10, <2>1, <2>3, <2>4, <2>5
  <1>19. CASE CalledDone(t, m, e)
    <2>1. m.type \in {"OK", "NotFound"} /\ m.method = "BYE" /\ e[1] = "over" /\ e[2] = <<>>
      BY <1>19 DEF CalledDone
    <2>2. "byeEnd" \in D
      BY <1>1, <1>8, <2>1 DEF KindOf, Kinds, Is
    <2>3. Quiet(A, B, C, D1, s, "over", st)
      BY <1>7, <1>8, <2>2, DoneQuiet
    <2>4. QED
      BY <1>10, <1>11, <2>1, <2>3
  <1>20. CASE e = <<t, <<>>>>
    <2>1. e[1] = t /\ e[2] = <<>>
      BY <1>20
    <2>2. "bye" \notin KindOf(k, m) \/ t \notin Accepted
      BY <2>1, CalledHeeds DEF KindOf, Is, Accepted
    <2>3. "invite" \notin KindOf(k, m)
      <3>1. "invite" \in KindOf(k, m) => t = "idle" /\ m.type = "INVITE"
        BY <1>7, <1>8 DEF Talk, KindOf, Is
      <3>2. QED
        BY <2>1, <3>1, CalledHeeds
    <2>4. QED
      BY <1>10, <1>11, <1>15, <2>1, <2>2, <2>3
  <1>21. QED
    BY <1>3, <1>13, <1>14, <1>16, <1>17, <1>18, <1>19, <1>20, CalledCases

(***************************************************************************)
(* The steps of the phones and of their users keep every session quiet.    *)
(***************************************************************************)
LEMMA PhoneReceivesCalm ==
    ASSUME SipTypeOK, Placed, \A j \in Calls : CallInv(j), Calm, NEW p \in Phones, PhoneReceives(p)
    PROVE  Calm'
  <1>1. PICK m, d2 : m = Head(down[p]) /\ d2 = Popped(down, p)
    OBVIOUS
  <1>2. down[p] # <<>> /\ down' = d2
    BY <1>1 DEF PhoneReceives, Popped
  <1>3. /\ caller \in [Calls -> CallerStates] /\ called \in [Calls -> CalledStates]
        /\ Ups(up) /\ Downs(down) /\ up \in Queues /\ down \in Queues
    BY PlacedIs DEF Ups, Downs
  <1>4. /\ d2 \in Queues /\ m \in ToSet(down[p]) /\ m \in Messages
        /\ \A r \in Phones : Thinned(down[r], d2[r])
    BY <1>1, <1>2, <1>3, PopQueue
  <1>5. DownMessage(p, m) /\ Downs(d2)
    BY <1>3, <1>4, FewerAreDowns DEF Downs
  <1>6. PICK k : k = m.call
    OBVIOUS
  <1>7. UNCHANGED server
    BY <1>1, Zenon DEF PhoneReceives, Sends
  <1>8. ASSUME NEW j, ~Mine(j, m)
        PROVE  \A r \in Phones : KindsIn(j, d2[r]) = KindsIn(j, down[r])
    <2>1. Loses(j, down, p, m, d2)
      BY <1>1, <1>2, <1>3, KindsPopped
    <2>2. KindOf(j, m) = {}
      BY <1>8, OthersKind
    <2>3. QED
      BY <2>1, <2>2 DEF Loses
  <1>9. CASE m.method = "REGISTER"
    <2>1. Sends(p, <<>>) /\ UNCHANGED <<caller, called>>
      BY <1>1, <1>9 DEF PhoneReceives
    <2>2. up' = Sent(up, p, <<>>)
      BY <2>1 DEF Sends, Sent
    <2>3. up' = up
      BY <1>3, <2>2, NothingSent
    <2>4. ASSUME NEW j \in Calls PROVE CalmCall(j)'
      <3>1. ~Mine(j, m)
        BY <1>9 DEF Mine
      <3>2. Caller[j] \in Phones /\ Called[j] \in Phones
        BY PartiesAssumption
      <3>3. /\ KindsIn(j, d2[Caller[j]]) = KindsIn(j, down[Caller[j]])
            /\ KindsIn(j, d2[Called[j]]) = KindsIn(j, down[Called[j]])
        BY <1>8, <3>1, <3>2
      <3>4. CalmOf(j, up, d2, caller[j], called[j], sessions[j].state)
        BY <3>3 DEF Calm, CalmCall, CalmOf
      <3>5. Between(j)'
        BY <1>7 DEF Calm, CalmCall, Between, server
      <3>6. QED
        BY <1>2, <1>7, <2>1, <2>3, <3>4, <3>5 DEF CalmCall, server
    <2>5. QED
      BY <2>3, <2>4 DEF Calm, NobodyUnregisters
  <1>10. ASSUME m.method # "REGISTER"
         PROVE  k \in Calls /\ Mine(k, m)
    BY <1>5, <1>6, <1>10, DownCall DEF Mine
  <1>11. \A j : j # k => \A r \in Phones : KindsIn(j, d2[r]) = KindsIn(j, down[r])
    BY <1>6, <1>8 DEF Mine
  <1>12. CASE m.method # "REGISTER" /\ p = Caller[k]
    <2>1. PICK s, t, st : s = caller[k] /\ t = called[k] /\ st = sessions[k].state
      OBVIOUS
    <2>2. PICK e : e = CallerReaction(s, m)
      OBVIOUS
    <2>3. caller' = [caller EXCEPT ![k] = e[1]] /\ Sends(p, e[2]) /\ UNCHANGED called
      BY <1>1, <1>6, <1>12, <2>1, <2>2, Zenon DEF PhoneReceives
    <2>4. PICK u2 : u2 = Sent(up, p, e[2])
      OBVIOUS
    <2>5. up' = u2
      BY <2>3, <2>4 DEF Sends, Sent
    <2>6. k \in Calls /\ Mine(k, m) /\ s \in CallerStates
      BY <1>3, <1>10, <1>12, <2>1
    <2>7. SaysAll(k, p, e[2])
      BY <1>4, <1>5, <1>12, <2>2, <2>6, CallerSays
    <2>8. CallOf(k, up, down, s, t, st) /\ CalmOf(k, up, down, s, t, st)
      BY <2>1, <2>6 DEF CallInv, Calm, CalmCall
    <2>9. Heard(k, p, m, up, d2, s, t, st)
      BY <1>1, <1>2, <2>1, <2>6, HeadIsHeard
    <2>10. CalmOf(k, u2, d2, e[1], t, st)
      BY <1>1, <1>2, <1>3, <1>4, <1>5, <1>12, <2>2, <2>4, <2>6, <2>8, <2>9, CallerStaysCalm
    <2>11. called' = [called EXCEPT ![k] = t]
      BY <1>3, <2>1, <2>3
    <2>12. QED
      BY <1>2, <1>7, <1>11, <2>1, <2>3, <2>4, <2>5, <2>6, <2>7, <2>10, <2>11, PartyKeepsCalm
  <1>13. CASE m.method # "REGISTER" /\ p # Caller[k]
    <2>1. PICK s, t, st : s = caller[k] /\ t = called[k] /\ st = sessions[k].state
      OBVIOUS
    <2>2. PICK e : e = CalledReaction(t, m)
      OBVIOUS
    <2>3. called' = [called EXCEPT ![k] = e[1]] /\ Sends(p, e[2]) /\ UNCHANGED caller
      BY <1>1, <1>6, <1>13, <2>1, <2>2 DEF PhoneReceives
    <2>4. PICK u2 : u2 = Sent(up, p, e[2])
      OBVIOUS
    <2>5. up' = u2
      BY <2>3, <2>4 DEF Sends, Sent
    <2>6. k \in Calls /\ Mine(k, m) /\ t \in CalledStates
      BY <1>3, <1>10, <1>13, <2>1
    <2>7. SaysAll(k, p, e[2])
      BY <1>4, <1>5, <1>13, <2>2, <2>6, CalledSays
    <2>8. CallOf(k, up, down, s, t, st) /\ CalmOf(k, up, down, s, t, st)
      BY <2>1, <2>6 DEF CallInv, Calm, CalmCall
    <2>9. Heard(k, p, m, up, d2, s, t, st)
      BY <1>1, <1>2, <2>1, <2>6, HeadIsHeard
    <2>10. CalmOf(k, u2, d2, s, e[1], st)
      BY <1>1, <1>2, <1>3, <1>4, <1>5, <1>13, <2>2, <2>4, <2>6, <2>8, <2>9, CalledStaysCalm
    <2>11. caller' = [caller EXCEPT ![k] = s]
      BY <1>3, <2>1, <2>3
    <2>12. QED
      BY <1>2, <1>7, <1>11, <2>1, <2>3, <2>4, <2>5, <2>6, <2>7, <2>10, <2>11, PartyKeepsCalm
  <1>14. QED
    BY <1>9, <1>12, <1>13

(* A user has one message sent: the others and the server stay.            *)
LEMMA UserStaysCalm ==
    ASSUME Placed, Calm, NEW k \in Calls, NEW p \in Phones, NEW m, Says(k, p, m), Sends(p, <<m>>),
           UNCHANGED down, NEW s2, NEW t2,
           caller' = [caller EXCEPT ![k] = s2], called' = [called EXCEPT ![k] = t2],
           NEW u2, u2 = Added(up, p, m), CalmOf(k, u2, down, s2, t2, sessions[k].state)
    PROVE  Calm'
  <1>1. up \in Queues /\ m \in Messages
    BY DEF Placed, Says
  <1>2. PICK ms : ms = <<m>>
    OBVIOUS
  <1>3. SaysAll(k, p, ms)
    BY <1>1, <1>2 DEF SaysAll
  <1>4. u2 = Sent(up, p, ms)
    BY <1>1, <1>2, OneSent
  <1>5. up' = u2 /\ UNCHANGED server
    BY <1>2, <1>4 DEF Sends, Sent
  <1>6. PICK d2, st : d2 = down /\ st = sessions[k].state
    OBVIOUS
  <1>7. down' = d2 /\ \A j : j # k => \A r \in Phones : KindsIn(j, d2[r]) = KindsIn(j, down[r])
    BY <1>6
  <1>8. CalmOf(k, u2, d2, s2, t2, st)
    BY <1>6
  <1>9. QED
    BY <1>3, <1>4, <1>5, <1>6, <1>7, <1>8, PartyKeepsCalm

(* What the caller's user, and the called party's, may make of a session.  *)
CallerMay(K, s, s1, t, st) ==
    \A A, B, C, D, A1 :
        Talk(A, B, C, D, s, t, st) /\ Quiet(A, B, C, D, s, t, st) /\ A1 = A \cup K =>
            Quiet(A1, B, C, D, s1, t, st)

CalledMay(K, s, t, t1, st) ==
    \A A, B, C, D, B1 :
        Talk(A, B, C, D, s, t, st) /\ Quiet(A, B, C, D, s, t, st) /\ B1 = B \cup K =>
            Quiet(A, B1, C, D, s, t1, st)

LEMMA CallerActs ==
    ASSUME Placed, Calm, NEW k \in Calls, CallInv(k), NEW p, p = Caller[k],
           NEW m \in Messages, NEW u2, u2 = Added(up, p, m), NEW s1,
           NEW s, NEW t, NEW st, s = caller[k], t = called[k], st = sessions[k].state,
           "cancel" \in KindOf(k, m) => s1 = "cancelling", s # "cancelling", "ack" \notin KindOf(k, m),
           CallerMay(KindOf(k, m), s, s1, t, st)
    PROVE  CalmOf(k, u2, down, s1, t, st)
  <1>1. /\ Ups(up) /\ Downs(down) /\ up \in Queues
        /\ p \in Phones /\ Called[k] \in Phones /\ Called[k] # p
    BY PlacedIs, PartiesAssumption DEF Ups
  <1>2. PICK A, B, C, D, q :
            /\ A = KindsIn(k, q) /\ B = KindsIn(k, up[Called[k]]) /\ q = up[p]
            /\ C = KindsIn(k, down[p]) /\ D = KindsIn(k, down[Called[k]])
    OBVIOUS
  <1>3. CallOf(k, up, down, s, t, st) /\ CalmOf(k, up, down, s, t, st)
    BY DEF CallInv, Calm, CalmCall
  <1>4. /\ Talk(A, B, C, D, s, t, st) /\ Quiet(A, B, C, D, s, t, st) /\ Orderly(k, q, s)
        /\ q \in Seq(Messages)
    BY <1>1, <1>2, <1>3, TalkHolds DEF CalmOf, Queues
  <1>5. PICK A1 : A1 = A \cup KindOf(k, m)
    OBVIOUS
  <1>6. Quiet(A1, B, C, D, s1, t, st)
    BY <1>4, <1>5 DEF CallerMay
  <1>7. Gains(k, up, p, m, u2)
    BY <1>1, KindsAdded
  <1>8. KindsIn(k, u2[p]) = A1 /\ KindsIn(k, u2[Called[k]]) = B
    BY <1>1, <1>2, <1>5, <1>7 DEF Gains
  <1>9. Orderly(k, Append(q, m), s1)
    BY <1>4, OrderlyAppend
  <1>10. u2[p] = Append(q, m)
    BY <1>1, <1>2 DEF Added, Queues
  <1>11. QED
    BY <1>2, <1>6, <1>8, <1>9, <1>10 DEF CalmOf

LEMMA CalledActs ==
    ASSUME Placed, Calm, NEW k \in Calls, CallInv(k), NEW p, p = Called[k],
           NEW m \in Messages, NEW u2, u2 = Added(up, p, m), NEW t1,
           NEW s, NEW t, NEW st, s = caller[k], t = called[k], st = sessions[k].state,
           CalledMay(KindOf(k, m), s, t, t1, st)
    PROVE  CalmOf(k, u2, down, s, t1, st)
  <1>1. /\ Ups(up) /\ Downs(down) /\ up \in Queues
        /\ p \in Phones /\ Caller[k] \in Phones /\ Caller[k] # p
    BY PlacedIs, PartiesAssumption DEF Ups
  <1>2. PICK A, B, C, D, q :
            /\ A = KindsIn(k, q) /\ B = KindsIn(k, up[p]) /\ q = up[Caller[k]]
            /\ C = KindsIn(k, down[Caller[k]]) /\ D = KindsIn(k, down[p])
    OBVIOUS
  <1>3. CallOf(k, up, down, s, t, st) /\ CalmOf(k, up, down, s, t, st)
    BY DEF CallInv, Calm, CalmCall
  <1>4. Talk(A, B, C, D, s, t, st) /\ Quiet(A, B, C, D, s, t, st) /\ Orderly(k, q, s)
    BY <1>1, <1>2, <1>3, TalkHolds DEF CalmOf
  <1>5. PICK B1 : B1 = B \cup KindOf(k, m)
    OBVIOUS
  <1>6. Quiet(A, B1, C, D, s, t1, st)
    BY <1>4, <1>5 DEF CalledMay
  <1>7. Gains(k, up, p, m, u2)
    BY <1>1, KindsAdded
  <1>8. KindsIn(k, u2[p]) = B1 /\ KindsIn(k, u2[Caller[k]]) = A
    BY <1>1, <1>2, <1>5, <1>7 DEF Gains
  <1>9. u2[Caller[k]] = q
    BY <1>1, <1>2 DEF Added, Queues
  <1>10. QED
    BY <1>2, <1>4, <1>6, <1>8, <1>9 DEF CalmOf

LEMMA CallerActsCalm ==
    ASSUME Placed, Calm, NEW k \in Calls, CallInv(k), NEW p \in Phones, p = Caller[k],
           NEW m \in Messages, Says(k, p, m), Sends(p, <<m>>), UNCHANGED <<down, called>>, NEW s1,
           caller' = [caller EXCEPT ![k] = s1],
           NEW s, NEW t, NEW st, s = caller[k], t = called[k], st = sessions[k].state,
           "cancel" \in KindOf(k, m) => s1 = "cancelling", s # "cancelling", "ack" \notin KindOf(k, m),
           CallerMay(KindOf(k, m), s, s1, t, st)
    PROVE  Calm'
  <1>1. PICK u2 : u2 = Added(up, p, m)
    OBVIOUS
  <1>2. CalmOf(k, u2, down, s1, t, st)
    BY <1>1, CallerActs
  <1>3. called' = [called EXCEPT ![k] = t]
    BY DEF Placed
  <1>4. QED
    BY <1>1, <1>2, <1>3, UserStaysCalm

LEMMA CalledActsCalm ==
    ASSUME Placed, Calm, NEW k \in Calls, CallInv(k), NEW p \in Phones, p = Called[k],
           NEW m \in Messages, Says(k, p, m), Sends(p, <<m>>), UNCHANGED <<down, caller>>, NEW t1,
           called' = [called EXCEPT ![k] = t1],
           NEW s, NEW t, NEW st, s = caller[k], t = called[k], st = sessions[k].state,
           CalledMay(KindOf(k, m), s, t, t1, st)
    PROVE  Calm'
  <1>1. PICK u2 : u2 = Added(up, p, m)
    OBVIOUS
  <1>2. CalmOf(k, u2, down, s, t1, st)
    BY <1>1, CalledActs
  <1>3. caller' = [caller EXCEPT ![k] = s]
    BY DEF Placed
  <1>4. QED
    BY <1>1, <1>2, <1>3, UserStaysCalm

LEMMA SendInviteCalm ==
    ASSUME SipTypeOK, Placed, Calm, NEW k \in Calls, CallInv(k), SendInvite(k)
    PROVE  Calm'
  <1>1. PICK p \in Phones : p = Caller[k]
    BY PartiesAssumption
  <1>2. PICK s, t, st : s = caller[k] /\ t = called[k] /\ st = sessions[k].state
    OBVIOUS
  <1>3. PICK sdp \in BOOLEAN : Sends(p, <<[Request(k, "INVITE", p) EXCEPT !.sdp = sdp]>>)
    BY <1>1 DEF SendInvite
  <1>4. PICK a : a = Request(k, "INVITE", p)
    OBVIOUS
  <1>5. PICK m : m = [a EXCEPT !.sdp = sdp]
    OBVIOUS
  <1>6. Says(k, p, m) /\ m.type = "INVITE" /\ m.method = "INVITE" /\ m.call = k /\ m \in Messages
    <2>1. /\ Says(k, p, a) /\ a \in Messages /\ a.type = "INVITE" /\ a.method = "INVITE"
          /\ a.call = k /\ a.from = p /\ a.to = Called[k]
      BY <1>1, <1>4, RequestFacts DEF Methods, Says
    <2>2. m = [type |-> "INVITE", method |-> "INVITE", call |-> k, from |-> p, to |-> a.to, sdp |-> sdp]
      BY <1>5, <2>1 DEF Messages
    <2>3. /\ m \in Messages /\ m.type = "INVITE" /\ m.method = "INVITE" /\ m.call = k
          /\ m.from = p /\ m.to = Called[k]
      BY <2>1, <2>2 DEF Messages
    <2>4. UpMessage(p, m)
      BY <1>1, <2>3 DEF UpMessage, CallerRequests, ByCaller
    <2>5. QED
      BY <2>3, <2>4 DEF Says, Mine
  <1>7. KindOf(k, m) = {"invite"}
    BY <1>6 DEF KindOf, Kinds, Is
  <1>8. /\ s = "idle" /\ caller' = [caller EXCEPT ![k] = "inviting"] /\ UNCHANGED <<down, called>>
        /\ Sends(p, <<m>>) /\ st \in States
    BY <1>2, <1>3, <1>4, <1>5 DEF SendInvite, SipTypeOK
  <1>9. CallerMay(KindOf(k, m), s, "inviting", t, st)
    BY <1>7, <1>8, InvitingQuiet DEF CallerMay
  <1>10. QED
    BY <1>1, <1>2, <1>6, <1>7, <1>8, <1>9, CallerActsCalm

LEMMA SendCancelCalm ==
    ASSUME Placed, Calm, NEW k \in Calls, CallInv(k), SendCancel(k)
    PROVE  Calm'
  <1>1. PICK p \in Phones : p = Caller[k]
    BY PartiesAssumption
  <1>2. PICK s, t, st : s = caller[k] /\ t = called[k] /\ st = sessions[k].state
    OBVIOUS
  <1>3. PICK m : m = Request(k, "CANCEL", p)
    OBVIOUS
  <1>4. Says(k, p, m) /\ m.type = "CANCEL" /\ m.method = "CANCEL" /\ m.call = k /\ m \in Messages
    BY <1>1, <1>3, RequestFacts DEF Methods, Says
  <1>5. KindOf(k, m) = {"cancel"}
    BY <1>4 DEF KindOf, Kinds, Is
  <1>6. /\ s = "proceeding" /\ caller' = [caller EXCEPT ![k] = "cancelling"]
        /\ UNCHANGED <<down, called>> /\ Sends(p, <<m>>)
    BY <1>1, <1>2, <1>3 DEF SendCancel
  <1>7. CallerMay(KindOf(k, m), s, "cancelling", t, st)
    BY <1>5, <1>6, CancellingQuiet DEF CallerMay
  <1>8. QED
    BY <1>1, <1>2, <1>4, <1>5, <1>6, <1>7, CallerActsCalm

LEMMA CallerHangsUpCalm ==
    ASSUME Placed, Calm, NEW k \in Calls, CallInv(k), CallerHangsUp(k)
    PROVE  Calm'
  <1>1. PICK p \in Phones : p = Caller[k]
    BY PartiesAssumption
  <1>2. PICK s, t, st : s = caller[k] /\ t = called[k] /\ st = sessions[k].state
    OBVIOUS
  <1>3. PICK m : m = Request(k, "BYE", p)
    OBVIOUS
  <1>4. Says(k, p, m) /\ m.type = "BYE" /\ m.method = "BYE" /\ m.call = k /\ m \in Messages
    BY <1>1, <1>3, RequestFacts DEF Methods, Says
  <1>5. KindOf(k, m) = {"bye"}
    BY <1>4 DEF KindOf, Kinds, Is
  <1>6. /\ s = "up" /\ caller' = [caller EXCEPT ![k] = "leaving"]
        /\ UNCHANGED <<down, called>> /\ Sends(p, <<m>>)
    BY <1>1, <1>2, <1>3 DEF CallerHangsUp
  <1>7. CallerMay(KindOf(k, m), s, "leaving", t, st)
    BY <1>5, <1>6, CallerLeavesQuiet DEF CallerMay
  <1>8. QED
    BY <1>1, <1>2, <1>4, <1>5, <1>6, <1>7, CallerActsCalm

LEMMA CalledHangsUpCalm ==
    ASSUME Placed, Calm, NEW k \in Calls, CallInv(k), CalledHangsUp(k)
    PROVE  Calm'
  <1>1. PICK p \in Phones : p = Called[k]
    BY PartiesAssumption
  <1>2. PICK s, t, st : s = caller[k] /\ t = called[k] /\ st = sessions[k].state
    OBVIOUS
  <1>3. PICK m : m = Request(k, "BYE", p)
    OBVIOUS
  <1>4. Says(k, p, m) /\ m.type = "BYE" /\ m.method = "BYE" /\ m.call = k /\ m \in Messages
    BY <1>1, <1>3, RequestFacts DEF Methods, Says
  <1>5. KindOf(k, m) = {"bye"}
    BY <1>4 DEF KindOf, Kinds, Is
  <1>6. /\ t = "up" /\ called' = [called EXCEPT ![k] = "leaving"]
        /\ UNCHANGED <<down, caller>> /\ Sends(p, <<m>>)
    BY <1>1, <1>2, <1>3 DEF CalledHangsUp
  <1>7. CalledMay(KindOf(k, m), s, t, "leaving", st)
    BY <1>5, <1>6, CalledLeavesQuiet DEF CalledMay
  <1>8. QED
    BY <1>1, <1>2, <1>4, <1>6, <1>7, CalledActsCalm

LEMMA DecisionCalm ==
    ASSUME Placed, Calm, NEW k \in Calls, CallInv(k), called[k] \in {"trying", "ringing"},
           NEW type \in {"Ringing", "OK", "Busy", "Unavailable"}, NEW sdp \in BOOLEAN,
           NEW t1, t1 = IF type = "Ringing" THEN "ringing"
                        ELSE IF type = "OK" THEN "answered" ELSE "refused",
           NEW m, m = Reply(Invite(k), type, sdp), Sends(Called[k], <<m>>),
           called' = [called EXCEPT ![k] = t1], UNCHANGED <<down, caller>>
    PROVE  Calm'
  <1>1. PICK p \in Phones : p = Called[k]
    BY PartiesAssumption
  <1>2. PICK s, t, st : s = caller[k] /\ t = called[k] /\ st = sessions[k].state
    OBVIOUS
  <1>3. Says(k, p, m) /\ m.type = type /\ m.method = "INVITE" /\ m.call = k /\ m \in Messages
    BY <1>1, AnswerFacts DEF Finals, Says
  <1>4. KindOf(k, m) = IF type = "Ringing" THEN {} ELSE IF type = "OK" THEN {"ok"} ELSE {"refusal"}
    BY <1>3 DEF KindOf, Kinds, Is
  <1>5. ASSUME NEW A, NEW B, NEW C, NEW D, NEW B1, Talk(A, B, C, D, s, t, st),
               Quiet(A, B, C, D, s, t, st), B1 = B \cup KindOf(k, m)
        PROVE  Quiet(A, B1, C, D, s, t1, st)
    <2>1. B \subseteq B1 /\ B1 \subseteq B \cup {"ok", "refusal"}
      BY <1>4, <1>5
    <2>2. \/ t1 = "ringing"
          \/ t1 = "answered" /\ "ok" \in B1
          \/ t1 = "refused" /\ "refusal" \in B1
      BY <1>4, <1>5
    <2>3. QED
      BY <1>2, <1>5, <2>1, <2>2, DecisionQuiet
  <1>6. CalledMay(KindOf(k, m), s, t, t1, st)
    BY <1>5 DEF CalledMay
  <1>7. QED
    BY <1>1, <1>2, <1>3, <1>6, CalledActsCalm

LEMMA UserActsCalm ==
    ASSUME SipTypeOK, Placed, Calm, NEW k \in Calls, CallInv(k), UserActs(k)
    PROVE  Calm'
  <1>1. PICK sdp \in BOOLEAN : sdp = FALSE
    OBVIOUS
  <1>2. PICK body \in BOOLEAN : body = TRUE
    OBVIOUS
  <1>3. CASE Ring(k)
    <2>1. PICK type \in {"Ringing", "OK", "Busy", "Unavailable"} : type = "Ringing"
      OBVIOUS
    <2>2. PICK m : m = Reply(Invite(k), type, sdp)
      OBVIOUS
    <2>3. /\ called[k] \in {"trying", "ringing"} /\ called' = [called EXCEPT ![k] = "ringing"]
          /\ Sends(Called[k], <<m>>) /\ UNCHANGED <<down, caller>>
      BY <1>1, <1>3, <2>1, <2>2 DEF Ring
    <2>4. QED
      BY <2>1, <2>2, <2>3, DecisionCalm
  <1>4. CASE Accept(k)
    <2>1. PICK type \in {"Ringing", "OK", "Busy", "Unavailable"} : type = "OK"
      OBVIOUS
    <2>2. PICK m : m = Reply(Invite(k), type, body)
      OBVIOUS
    <2>3. /\ called[k] \in {"trying", "ringing"} /\ called' = [called EXCEPT ![k] = "answered"]
          /\ Sends(Called[k], <<m>>) /\ UNCHANGED <<down, caller>>
      BY <1>2, <1>4, <2>1, <2>2 DEF Accept
    <2>4. QED
      BY <2>1, <2>2, <2>3, DecisionCalm
  <1>5. CASE Refuse(k)
    <2>1. PICK type \in {"Busy", "Unavailable"} : Sends(Called[k], <<Reply(Invite(k), type, sdp)>>)
      BY <1>1, <1>5 DEF Refuse
    <2>2. PICK m : m = Reply(Invite(k), type, sdp)
      OBVIOUS
    <2>3. /\ called[k] \in {"trying", "ringing"} /\ called' = [called EXCEPT ![k] = "refused"]
          /\ Sends(Called[k], <<m>>) /\ UNCHANGED <<down, caller>>
      BY <1>5, <2>1, <2>2 DEF Refuse
    <2>4. QED
      BY <2>1, <2>2, <2>3, DecisionCalm
  <1>6. QED
    BY <1>3, <1>4, <1>5, SendInviteCalm, SendCancelCalm, CallerHangsUpCalm, CalledHangsUpCalm
    DEF UserActs

LEMMA SendRegisterCalm ==
    ASSUME Placed, Calm, NEW p \in Phones, SendRegister(p)
    PROVE  Calm'
  <1>1. PICK sdp \in BOOLEAN : sdp = FALSE
    OBVIOUS
  <1>2. PICK m : m = Registration(p, "REGISTER")
    OBVIOUS
  <1>3. m = [type |-> "REGISTER", method |-> "REGISTER", call |-> "registration",
             from |-> p, to |-> p, sdp |-> sdp]
    BY <1>1, <1>2 DEF Registration, Message
  <1>4. m \in Messages /\ m.type = "REGISTER" /\ m.method = "REGISTER" /\ up \in Queues
    BY <1>3 DEF Messages, Types, Methods, Placed
  <1>5. PICK u2 : u2 = Added(up, p, m)
    OBVIOUS
  <1>6. up' = u2 /\ UNCHANGED <<server, down, caller, called>>
    BY <1>2, <1>4, <1>5, SendsOne DEF SendRegister
  <1>7. NobodyUnregisters'
    <2>1. \A r \in Phones : \A x : x \in ToSet(u2[r]) <=> x \in ToSet(up[r]) \/ (r = p /\ x = m)
      BY <1>4, <1>5, AddSet
    <2>2. QED
      BY <1>4, <1>6, <2>1 DEF Calm, NobodyUnregisters
  <1>8. ASSUME NEW j \in Calls PROVE CalmCall(j)'
    <2>1. KindOf(j, m) = {}
      BY <1>4, OthersKind DEF Mine
    <2>2. SameFor(j, up, u2)
      BY <1>4, <1>5, <2>1, NoKindAdded
    <2>3. Caller[j] \in Phones /\ Called[j] \in Phones
      BY PartiesAssumption
    <2>4. CalmOf(j, u2, down, caller[j], called[j], sessions[j].state)
      BY <2>2, <2>3 DEF Calm, CalmCall, CalmOf, SameFor
    <2>5. Between(j)'
      BY <1>6 DEF Calm, CalmCall, Between, server
    <2>6. QED
      BY <1>6, <2>4, <2>5 DEF CalmCall, server
  <1>9. QED
    BY <1>7, <1>8 DEF Calm

(***************************************************************************)
(* The invariant: every session is quiet as long as nothing has gone wrong *)
(* on the network or at a phone.                                           *)
(***************************************************************************)
Undisturbed == disturbed = 0 /\ duplicated = 0

SipCalmInv == SipIInv /\ (Undisturbed => Calm)

LEMMA CalmAtFirst == SipInit => Calm
  <1> SUFFICES ASSUME SipInit PROVE Calm
    OBVIOUS
  <1>1. \A p \in Phones : up[p] = <<>> /\ down[p] = <<>>
    BY DEF SipInit
  <1>2. \A p \in Phones : ToSet(up[p]) = {} /\ ToSet(down[p]) = {} /\ Len(up[p]) = 0
    BY <1>1 DEF ToSet
  <1>3. NobodyUnregisters
    BY <1>2 DEF NobodyUnregisters
  <1>4. ASSUME NEW k \in Calls PROVE CalmCall(k)
    <2>1. Caller[k] \in Phones /\ Called[k] \in Phones
      BY PartiesAssumption
    <2>2. PICK E : E = {}
      OBVIOUS
    <2>3. /\ KindsIn(k, up[Caller[k]]) = E /\ KindsIn(k, up[Called[k]]) = E
          /\ KindsIn(k, down[Caller[k]]) = E /\ KindsIn(k, down[Called[k]]) = E
      BY <1>2, <2>1, <2>2 DEF KindsIn
    <2>4. AckFirst(E, E, "idle") /\ ~Passing(E, E, E, E)
      BY <2>2 DEF AckFirst, Passing
    <2>5. Quiet(E, E, E, E, "idle", "idle", "none")
      BY <2>4, QuietNone
    <2>6. Orderly(k, up[Caller[k]], "idle")
      BY <1>2, <2>1 DEF Orderly
    <2>7. /\ caller[k] = "idle" /\ called[k] = "idle"
          /\ sessions[k] = NoSession /\ sessions[k].state = "none"
      BY DEF SipInit, NoSession
    <2>8. CalmOf(k, up, down, "idle", "idle", "none")
      BY <2>3, <2>5, <2>6 DEF CalmOf
    <2>9. QED
      BY <2>7, <2>8 DEF CalmCall, Between
  <1>5. QED
    BY <1>3, <1>4 DEF Calm

LEMMA CalmNextKeeps ==
    ASSUME SipIInv, Undisturbed, Undisturbed', Calm, [SipNext]_sipVars
    PROVE  Calm'
  <1>1. SipTypeOK /\ Placed /\ \A k \in Calls : CallInv(k)
    BY DEF SipIInv, Undisturbed
  <1>2. ASSUME NEW p \in Phones, Server(p) PROVE Calm'
    BY <1>1, <1>2, ServerKeepsCalm
  <1>3. ASSUME NEW p \in Phones, SendRegister(p) PROVE Calm'
    BY <1>1, <1>3, SendRegisterCalm
  <1>4. ASSUME NEW p \in Phones, PhoneReceives(p) PROVE Calm'
    BY <1>1, <1>4, PhoneReceivesCalm
  <1>5. ASSUME NEW k \in Calls, UserActs(k) PROVE Calm'
    BY <1>1, <1>5, UserActsCalm
  <1>6. ~Fault
    <2>1. disturbed \in Nat /\ duplicated \in Nat
      BY <1>1, FaultsAssumption DEF SipTypeOK
    <2>2. ~Disturbed
      BY <2>1 DEF Disturbed, Undisturbed
    <2>3. \A p \in Phones : ~Duplicate(p)
      BY <2>1 DEF Duplicate, Undisturbed
    <2>4. QED
      BY <2>2, <2>3 DEF Fault, DisturbUp, DisturbDown, Unregister, AcceptWithoutBody
  <1>7. ASSUME UNCHANGED sipVars PROVE Calm'
    BY <1>7 DEF sipVars, server, phones, Calm, NobodyUnregisters, CalmCall, Between
  <1>8. QED
    BY <1>2, <1>3, <1>4, <1>5, <1>6, <1>7 DEF SipNext, Phone

(* Nothing that has gone wrong is forgotten.                               *)
LEMMA StillUndisturbed ==
    ASSUME SipIInv, Undisturbed', [SipNext]_sipVars
    PROVE  Undisturbed
  <1>1. SipTypeOK /\ Placed /\ disturbed \in Nat /\ duplicated \in Nat
    BY FaultsAssumption DEF SipIInv, SipTypeOK
  <1>2. ASSUME NEW p \in Phones, Server(p) PROVE UNCHANGED faults
    BY <1>2, Zenon DEF Server, OnRegister, OnInvite, OnForwarded, OnRefused, OnCancel, OnBye, OnOk, OnAck,
                Receive
  <1>3. ASSUME NEW p \in Phones, Phone(p) PROVE UNCHANGED faults
    BY <1>3, Zenon DEF Phone, SendRegister, PhoneReceives, Sends
  <1>4. ASSUME NEW k \in Calls, UserActs(k) PROVE UNCHANGED faults
    BY <1>4, Zenon DEF UserActs, SendInvite, SendCancel, CallerHangsUp, CalledHangsUp, Ring, Accept,
                Refuse, Sends
  <1>5. ASSUME Fault PROVE disturbed' = disturbed + 1 \/ duplicated' = duplicated + 1
    BY <1>5 DEF Fault, DisturbUp, DisturbDown, Unregister, AcceptWithoutBody, Disturbed, Duplicate
  <1>6. UNCHANGED faults \/ disturbed' = disturbed + 1 \/ duplicated' = duplicated + 1
    BY <1>2, <1>3, <1>4, <1>5 DEF SipNext, sipVars
  <1>7. QED
    BY <1>1, <1>6 DEF Undisturbed, faults

LEMMA CalmInvHolds == SipSpec => []SipCalmInv
  <1>1. SipInit => SipCalmInv
    BY SipInitSatisfies, CalmAtFirst DEF SipCalmInv
  <1>2. SipCalmInv /\ [SipNext]_sipVars => SipCalmInv'
    <2> SUFFICES ASSUME SipCalmInv, [SipNext]_sipVars PROVE SipCalmInv'
      OBVIOUS
    <2>1. SipIInv /\ SipIInv'
      BY SipNextKeeps DEF SipCalmInv
    <2>2. ASSUME Undisturbed' PROVE Calm'
      <3>1. Undisturbed /\ Calm
        BY <2>1, <2>2, StillUndisturbed DEF SipCalmInv
      <3>2. QED
        BY <2>1, <2>2, <3>1, CalmNextKeeps
    <2>3. QED
      BY <2>1, <2>2 DEF SipCalmInv
  <1>3. QED
    BY <1>1, <1>2, PTL DEF SipSpec

LEMMA NothingAwaited ==
    ASSUME NEW k \in Calls, SipIInv, Undisturbed, Calm, caller[k] \in {"over", "dropping"},
           called[k] \in {"idle", "over"}, ~InFlight(k)
    PROVE  sessions[k] = NoSession
  <1>1. PICK s, t, st : s = caller[k] /\ t = called[k] /\ st = sessions[k].state
    OBVIOUS
  <1>2. Between(k) /\ CalmOf(k, up, down, s, t, st) /\ CallOf(k, up, down, s, t, st) /\ st \in States
    BY <1>1 DEF Calm, CalmCall, SipIInv, Undisturbed, CallInv, SipTypeOK
  <1>3. Caller[k] \in Phones /\ Called[k] \in Phones
    BY PartiesAssumption
  <1>4. PICK E : E = {}
    OBVIOUS
  <1>5. /\ KindsIn(k, up[Caller[k]]) = E /\ KindsIn(k, up[Called[k]]) = E
        /\ KindsIn(k, down[Caller[k]]) = E /\ KindsIn(k, down[Called[k]]) = E
    BY <1>3, <1>4 DEF InFlight, KindsIn, Is
  <1>6. Quiet(E, E, E, E, s, t, st)
    BY <1>2, <1>5 DEF CalmOf
  <1>7. st \notin {"Invited", "Cancel", "Busy", "Unavailable", "Bye"}
    BY <1>1, <1>4, <1>6 DEF Quiet, Awaits
  <1>8. st # "Connected"
    BY <1>1, <1>2 DEF CallOf, Connects, Accepted
  <1>9. st = "none"
    BY <1>2, <1>7, <1>8 DEF States
  <1>10. QED
    BY <1>1, <1>2, <1>9 DEF Between

(* When both parties are through with a call and none of its datagrams is  *)
(* on its way, its session is gone from _sessions, as long as the network  *)
(* and the phones keep to the rules: OnAck ends what was refused or        *)
(* cancelled, OnOk ends what was hung up, and OnInvite starts no session   *)
(* that neither of the two will end.                                       *)
THEOREM SessionsEnd == SipSpec => []SessionEndsWithCall
  <1>1. SipCalmInv => SessionEndsWithCall
    BY NothingAwaited DEF SipCalmInv, Undisturbed, SessionEndsWithCall
  <1>2. QED
    BY <1>1, CalmInvHolds, PTL

=============================================================================
