------------------------------ MODULE TcpServer ------------------------------
(***************************************************************************)
(* xop::TcpServer with its Acceptor and its TcpConnections                 *)
(* (src/rtsp/net/TcpServer.cpp, Acceptor.cpp, TcpConnection.cpp).          *)
(*                                                                         *)
(* The acceptor's channel lives on scheduler 0; a connection lives on the  *)
(* scheduler GetTaskScheduler picked.  connections_ is keyed by socket, and *)
(* a socket number is free again as soon as the last reference to its      *)
(* connection is dropped.  Connections close on their own scheduler's      *)
(* thread, which then posts itself the removal from connections_; Stop     *)
(* runs on the user's thread.                                              *)
(*                                                                         *)
(* A scheduler is what TaskScheduler.tla shows it to be: it runs what was  *)
(* posted in order, drains the queue before it looks at timers and         *)
(* channels, and refuses a post when the queue is full.  That a post it    *)
(* accepts is kept is TaskScheduler's AcceptedIsKept, which two threads    *)
(* posting into the last free place can break.                             *)
(***************************************************************************)
EXTENDS Integers, Sequences

CONSTANTS
    Conns,       \* TcpConnection objects; each is accepted at most once
    Sockets,     \* socket numbers
    MaxScheduler,\* schedulers are 0 .. MaxScheduler
    MaxPosted,   \* kMaxTriggetEvents
    Nobody       \* no connection

ASSUME TcpServerAssumption ==
    /\ MaxScheduler \in Nat /\ MaxPosted \in Nat
    /\ Nobody \notin Conns

VARIABLES
    connections_,  \* which connection each socket number is mapped to
    index_,        \* EventLoop::index_
    socket,        \* the socket of each connection; meaningless before it is accepted
    scheduler,     \* the scheduler of each connection, -1 before it is accepted
    is_closed_,
    informed,      \* connections whose disconnect_cb_ is set
    listening,     \* the acceptor has a listening socket
    acceptPc,      \* how far scheduler 0 is in the acceptor's callback
    accepted,      \* the connection that callback works on
    posted,        \* what is posted to each scheduler
    draining,      \* schedulers in the middle of HandleTriggerEvent
    timers,        \* sockets each scheduler removes when a timer fires
    stopPc, todo   \* Stop: how far it is, and what it has still to disconnect

connVars == <<socket, scheduler, is_closed_, informed>>
acceptVars == <<index_, listening, acceptPc, accepted>>
stopVars == <<stopPc, todo>>
loopVars == <<posted, draining, timers>>
vars == <<connections_, connVars, acceptVars, stopVars, loopVars>>

Schedulers == 0 .. MaxScheduler
Listed == {c \in Conns : \E f \in Sockets : connections_[f] = c}

Init ==
    /\ connections_ = [f \in Sockets |-> Nobody]
    /\ index_ = 1
    /\ socket \in [Conns -> Sockets] /\ \A c, d \in Conns : socket[c] = socket[d]
    /\ scheduler = [c \in Conns |-> -1]
    /\ is_closed_ = [c \in Conns |-> FALSE]
    /\ informed = {}
    /\ listening = FALSE /\ acceptPc = "idle" /\ accepted = Nobody
    /\ posted = [s \in Schedulers |-> <<>>]
    /\ draining = {}
    /\ timers = [s \in Schedulers |-> {}]
    /\ stopPc = "stopped" /\ todo = {}

-----------------------------------------------------------------------------
(* What keeps a TcpConnection alive: connections_, the callback of the     *)
(* acceptor, and a posted Close.                                           *)
Referenced(c) ==
    \/ c = accepted \/ c \in Listed
    \/ \E s \in Schedulers : \E i \in 1 .. Len(posted[s]) : posted[s][i] = <<"close", c>>

Free(f) == \A c \in Conns : scheduler[c] # -1 /\ Referenced(c) => socket[c] # f

(* Scheduler s can run another handler: it is not in the middle of one,    *)
(* nor of HandleTriggerEvent.                                              *)
BetweenHandlers(s) == (s = 0 => acceptPc = "idle") /\ s \notin draining

(* A slip in Stop: mutex_ is held until it returns. *)
MutexHeldByStop == stopPc \notin {"disconnecting", "closing", "waiting"}

(* TcpServer::mutex_, which Stop holds while it disconnects. *)
MutexFree == stopPc # "disconnecting"

(* A slip in Close: a connection that is closed already closes again. *)
CloseAgain(c, queue) ==
    /\ is_closed_' = [is_closed_ EXCEPT ![c] = TRUE]
    /\ LET s == scheduler[c] IN
          \/ /\ c \notin informed
             /\ posted' = [posted EXCEPT ![s] = queue] /\ UNCHANGED timers
          \/ /\ c \in informed /\ Len(queue) < MaxPosted
             /\ posted' = [posted EXCEPT ![s] = Append(queue, <<"remove", socket[c]>>)]
             /\ UNCHANGED timers
          \/ /\ c \in informed /\ Len(queue) >= MaxPosted
             /\ timers' = [timers EXCEPT ![s] = @ \cup {socket[c]}]
             /\ posted' = [posted EXCEPT ![s] = queue]

(* A slip in Close: no timer when the queue is full. *)
CloseWithoutTimer(c, queue) ==
    /\ is_closed_' = [is_closed_ EXCEPT ![c] = TRUE]
    /\ posted' = [posted EXCEPT ![scheduler[c]] =
           IF ~is_closed_[c] /\ c \in informed /\ Len(queue) < MaxPosted
           THEN Append(queue, <<"remove", socket[c]>>) ELSE queue]
    /\ UNCHANGED timers

(* Close and, when it is set, disconnect_cb_: the removal is posted, or    *)
(* left to a timer when the queue is full.  queue is what is posted to the *)
(* scheduler of c before.                                                  *)
Close(c, queue) ==
    /\ is_closed_' = [is_closed_ EXCEPT ![c] = TRUE]
    /\ LET s == scheduler[c] IN
          \/ /\ is_closed_[c] \/ c \notin informed
             /\ posted' = [posted EXCEPT ![s] = queue] /\ UNCHANGED timers
          \/ /\ ~is_closed_[c] /\ c \in informed /\ Len(queue) < MaxPosted
             /\ posted' = [posted EXCEPT ![s] = Append(queue, <<"remove", socket[c]>>)]
             /\ UNCHANGED timers
          \/ /\ ~is_closed_[c] /\ c \in informed /\ Len(queue) >= MaxPosted
             /\ timers' = [timers EXCEPT ![s] = @ \cup {socket[c]}]
             /\ posted' = [posted EXCEPT ![s] = queue]

RemoveConnection(f) ==
    /\ MutexFree
    /\ connections_' = [connections_ EXCEPT ![f] = Nobody]

-----------------------------------------------------------------------------
Start ==
    /\ stopPc = "stopped"
    /\ listening' = TRUE /\ stopPc' = "started"
    /\ UNCHANGED <<connections_, connVars, index_, acceptPc, accepted, todo, loopVars>>

(* GetTaskScheduler: scheduler 0 when it is the only one, otherwise the    *)
(* others in turn.                                                         *)
GetTaskScheduler(s) ==
    IF MaxScheduler = 0 THEN s = 0 /\ UNCHANGED index_
    ELSE s = index_ /\ index_' = IF index_ + 1 > MaxScheduler THEN 1 ELSE index_ + 1

(* OnAccept and the constructor of TcpConnection, which registers the      *)
(* channel: from here on the connection can close.                         *)
OnConnect(c, f, s) ==
    /\ BetweenHandlers(0) /\ listening
    /\ scheduler[c] = -1 /\ Free(f)
    /\ GetTaskScheduler(s)
    /\ socket' = [socket EXCEPT ![c] = f]
    /\ scheduler' = [scheduler EXCEPT ![c] = s]
    /\ accepted' = c /\ acceptPc' = "add"
    /\ UNCHANGED <<connections_, is_closed_, informed, listening, stopVars, loopVars>>

AddConnection ==
    /\ acceptPc = "add" /\ MutexFree
    /\ connections_' = [connections_ EXCEPT ![socket[accepted]] =
           IF @ = Nobody THEN accepted ELSE @]
    /\ acceptPc' = "inform"
    /\ UNCHANGED <<connVars, index_, listening, accepted, stopVars, loopVars>>

SetDisconnectCallback ==
    /\ acceptPc = "inform"
    /\ informed' = informed \cup {accepted}
    /\ acceptPc' = "idle" /\ accepted' = Nobody
    /\ UNCHANGED <<connections_, socket, scheduler, is_closed_, index_, listening, stopVars, loopVars>>

(* HandleRead, HandleClose or HandleError: the peer left, the read failed, *)
(* or the read callback refused what it read.                              *)
HandleClose(c) ==
    /\ scheduler[c] # -1 /\ Referenced(c) /\ ~is_closed_[c]
    /\ BetweenHandlers(scheduler[c])
    /\ Close(c, posted[scheduler[c]])
    /\ UNCHANGED <<connections_, socket, scheduler, informed, acceptVars, stopVars, draining>>

-----------------------------------------------------------------------------
(* HandleTriggerEvent: one callback, and on to the next one. *)
RunPosted(s) ==
    /\ posted[s] # <<>> /\ (s = 0 => acceptPc = "idle")
    /\ LET queue == Tail(posted[s]) IN
       \/ \E c \in Conns :
             /\ Head(posted[s]) = <<"close", c>>
             /\ Close(c, queue)
             /\ UNCHANGED connections_
       \/ \E f \in Sockets :
             /\ Head(posted[s]) = <<"remove", f>>
             /\ RemoveConnection(f)
             /\ posted' = [posted EXCEPT ![s] = queue]
             /\ UNCHANGED <<is_closed_, timers>>
    /\ draining' = IF posted'[s] = <<>> THEN draining \ {s} ELSE draining \cup {s}
    /\ UNCHANGED <<socket, scheduler, informed, acceptVars, stopVars>>

(* HandleTimerEvent: the removal that could not be posted. *)
RunTimer(s, f) ==
    /\ BetweenHandlers(s) /\ f \in timers[s]
    /\ RemoveConnection(f)
    /\ timers' = [timers EXCEPT ![s] = @ \ {f}]
    /\ UNCHANGED <<connVars, acceptVars, stopVars, posted, draining>>

-----------------------------------------------------------------------------
(* Stop, on the user's thread. *)

LockAndList ==
    /\ stopPc = "started"
    /\ stopPc' = "disconnecting" /\ todo' = Listed
    /\ UNCHANGED <<connections_, connVars, acceptVars, loopVars>>

(* Disconnect posts the Close; the result of AddTriggerEvent is ignored. *)
Disconnect(c) ==
    /\ stopPc = "disconnecting" /\ c \in todo
    /\ todo' = todo \ {c}
    /\ posted' = [posted EXCEPT ![scheduler[c]] =
           IF Len(@) < MaxPosted THEN Append(@, <<"close", c>>) ELSE @]
    /\ UNCHANGED <<connections_, connVars, acceptVars, stopPc, draining, timers>>

Unlock ==
    /\ stopPc = "disconnecting" /\ todo = {}
    /\ stopPc' = "closing"
    /\ UNCHANGED <<connections_, connVars, acceptVars, todo, loopVars>>

(* Acceptor::Close waits for OnAccept to return. *)
CloseAcceptor ==
    /\ stopPc = "closing" /\ acceptPc = "idle"
    /\ listening' = FALSE /\ stopPc' = "waiting"
    /\ UNCHANGED <<connections_, connVars, index_, acceptPc, accepted, todo, loopVars>>

(* A slip in Stop: it does not wait for the connections to go. *)
NoWait ==
    /\ stopPc = "waiting"
    /\ stopPc' = "stopped"
    /\ UNCHANGED <<connections_, connVars, acceptVars, todo, loopVars>>

SeeEmpty ==
    /\ stopPc = "waiting" /\ Listed = {}
    /\ stopPc' = "stopped"
    /\ UNCHANGED <<connections_, connVars, acceptVars, todo, loopVars>>

-----------------------------------------------------------------------------
SchedulerStep(s) == RunPosted(s) \/ \E f \in Sockets : RunTimer(s, f)
AcceptStep == AddConnection \/ SetDisconnectCallback
StopStep == (\E c \in Conns : Disconnect(c)) \/ Unlock \/ CloseAcceptor \/ SeeEmpty

Next ==
    \/ \E c \in Conns, f \in Sockets, s \in Schedulers : OnConnect(c, f, s)
    \/ \E c \in Conns : HandleClose(c)
    \/ \E s \in Schedulers : SchedulerStep(s)
    \/ AcceptStep \/ Start \/ LockAndList \/ StopStep

(* The threads run.  Nothing makes a peer connect or leave, or the user    *)
(* call Start or Stop.                                                     *)
Spec ==
    /\ Init /\ [][Next]_vars
    /\ \A s \in Schedulers : WF_vars(SchedulerStep(s))
    /\ WF_vars(AcceptStep) /\ WF_vars(StopStep)

-----------------------------------------------------------------------------
Callbacks == ({"close"} \X Conns) \cup ({"remove"} \X Sockets)

(* The types of the variables. *)
TypeOK ==
    /\ connections_ \in [Sockets -> Conns \cup {Nobody}]
    /\ index_ = 1 \/ index_ \in Schedulers
    /\ socket \in [Conns -> Sockets]
    /\ scheduler \in [Conns -> Schedulers \cup {-1}]
    /\ is_closed_ \in [Conns -> BOOLEAN]
    /\ informed \subseteq Conns
    /\ listening \in BOOLEAN
    /\ acceptPc \in {"idle", "add", "inform"}
    /\ accepted \in Conns \cup {Nobody}
    /\ posted \in [Schedulers -> Seq(Callbacks)]
    /\ draining \subseteq Schedulers
    /\ timers \in [Schedulers -> SUBSET Sockets]
    /\ stopPc \in {"stopped", "started", "disconnecting", "closing", "waiting"}
    /\ todo \subseteq Conns

(* A connection that the acceptor is done with and that has not closed is  *)
(* the one connections_ has for its socket: a removal that was posted for  *)
(* an earlier connection on the same socket number never takes it out, and *)
(* Stop reaches it.                                                        *)
OpenIsListed ==
    \A c \in Conns :
        scheduler[c] # -1 /\ c # accepted /\ ~is_closed_[c] => connections_[socket[c]] = c

(* A connection that was open when its disconnect_cb_ was set is dropped    *)
(* once it has closed, also when its removal could not be posted.  (With   *)
(* several schedulers a connection can close before the callback is set,   *)
(* and is then never dropped.)                                             *)
InformedIsRemoved ==
    \A c \in Conns :
        [](c \in informed /\ ~is_closed_[c] => [](is_closed_[c] => <>(c \notin Listed)))

Posted(s, callback) == \E i \in 1 .. Len(posted[s]) : posted[s][i] = callback

(* c is open, informed and its Close is posted, or its removal is posted or *)
(* left to a timer.  This is not so of a connection accepted after Stop    *)
(* listed them, or whose Close found the queue full.                       *)
Leaving(c) ==
    \/ ~is_closed_[c] /\ c \in informed /\ Posted(scheduler[c], <<"close", c>>)
    \/ Posted(scheduler[c], <<"remove", socket[c]>>) \/ socket[c] \in timers[scheduler[c]]

(* Stop returns when every connection that is left is on its way out.      *)
StopReturns == stopPc = "waiting" /\ (\A c \in Listed : Leaving(c)) ~> stopPc = "stopped"

(* When Stop has returned, and before the next Start, no connection is     *)
(* open.                                                                   *)
StoppedMeansClosed ==
    stopPc = "stopped" => \A c \in Conns : scheduler[c] # -1 => is_closed_[c]
=============================================================================
