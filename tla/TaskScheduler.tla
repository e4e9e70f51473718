---------------------------- MODULE TaskScheduler ----------------------------
(***************************************************************************)
(* xop::TaskScheduler (src/rtsp/net): one loop thread that runs posted     *)
(* callbacks, timers and channel handlers, and the other threads that      *)
(* post to it, add timers and stop it.                                     *)
(*                                                                         *)
(* trigger_events_ is the queue RingBuffer is shown to implement: here its *)
(* Push and Pop are single steps.  A posted callback is <<c, n>>, the n-th *)
(* call of AddTriggerEvent made by caller c.  The loop itself is a caller  *)
(* while it runs a callback or a channel handler.                          *)
(***************************************************************************)
EXTENDS Integers, Sequences, Functions

CONSTANTS
    Callers,            \* threads that call AddTriggerEvent
    Loop,               \* the thread in TaskScheduler::Start
    NoThread,           \* the owner of a free mutex
    Timers,             \* timers that other threads may add
    kMaxTriggetEvents,  \* capacity of trigger_events_
    PipeSize,           \* bytes the wake-up pipe holds
    MaxCalls            \* bound: the calls of AddTriggerEvent of each caller

ASSUME TaskSchedulerAssumption ==
    /\ NoThread \notin Callers
    /\ kMaxTriggetEvents \in Nat \ {0}
    /\ PipeSize \in Nat \ {0}
    /\ MaxCalls \in [Callers -> Nat]

VARIABLES
    trigger_events_,  \* callbacks waiting to run
    mutex_,           \* owner of TaskScheduler::mutex_
    pipe,             \* bytes in wakeup_pipe_
    is_shutdown_,
    cpc,              \* where each caller is inside AddTriggerEvent
    calls,            \* calls made by each caller
    accepted,         \* callbacks whose call returned true
    lpc,              \* where the loop is
    timeout,          \* what GetTimeRemaining returned: "none" stands for -1
    ran,              \* callbacks run, in order
    spc,              \* progress of Stop
    armed,            \* timers in the timer queue
    due,              \* timers whose time has come
    fired,            \* timers whose callback has run
    blocks            \* epoll_wait(-1) blocks; select uses 10 ms for -1

callVars == <<mutex_, cpc, calls, accepted>>
timerVars == <<armed, due, fired, blocks>>
vars == <<trigger_events_, pipe, is_shutdown_, callVars, lpc, timeout, ran, spc, timerVars>>

Events == UNION {{c} \X (1 .. MaxCalls[c]) : c \in Callers}

Init ==
    /\ trigger_events_ = <<>>
    /\ mutex_ = NoThread
    /\ pipe = 0
    /\ is_shutdown_ = FALSE
    /\ cpc = [c \in Callers |-> "idle"]
    /\ calls = [c \in Callers |-> 0]
    /\ accepted = {}
    /\ lpc = "start"
    /\ timeout = "none"
    /\ ran = <<>>
    /\ spc = "running"
    /\ armed = {} /\ due = {} /\ fired = {}
    /\ blocks \in BOOLEAN

(* Pipe::Write of one byte: non-blocking, a full pipe keeps what it has. *)
WriteByte == pipe' = IF pipe < PipeSize THEN pipe + 1 ELSE pipe

(* User code runs on the loop thread: a posted callback or a handler. *)
InUserCode == lpc \in {"callback", "io"}

-----------------------------------------------------------------------------
(* AddTriggerEvent.  The size test precedes the lock. *)

(* A slip in AddTriggerEvent: <= for <. *)
SizeTestOffByOne(c) ==
    /\ cpc[c] = "idle" /\ calls[c] < MaxCalls[c]
    /\ c = Loop => InUserCode
    /\ calls' = [calls EXCEPT ![c] = @ + 1]
    /\ cpc' = IF Len(trigger_events_) <= kMaxTriggetEvents
              THEN [cpc EXCEPT ![c] = "push"]
              ELSE cpc
    /\ UNCHANGED <<trigger_events_, mutex_, pipe, is_shutdown_, accepted, lpc, timeout, ran, spc, timerVars>>

SizeTest(c) ==
    /\ cpc[c] = "idle" /\ calls[c] < MaxCalls[c]
    /\ c = Loop => InUserCode
    /\ calls' = [calls EXCEPT ![c] = @ + 1]
    /\ cpc' = IF Len(trigger_events_) < kMaxTriggetEvents
              THEN [cpc EXCEPT ![c] = "push"]
              ELSE cpc
    /\ UNCHANGED <<trigger_events_, mutex_, pipe, is_shutdown_, accepted, lpc, timeout, ran, spc, timerVars>>

(* A slip in AddTriggerEvent: the new callback overtakes the waiting ones. *)
LockAndPushFront(c) ==
    /\ cpc[c] = "push" /\ mutex_ = NoThread
    /\ mutex_' = c
    /\ trigger_events_' = <<<<c, calls[c]>>>> \o trigger_events_
    /\ cpc' = [cpc EXCEPT ![c] = "write"]
    /\ UNCHANGED <<pipe, is_shutdown_, calls, accepted, lpc, timeout, ran, spc, timerVars>>

(* The result of Push is ignored: a full buffer drops the callback. *)
LockAndPush(c) ==
    /\ cpc[c] = "push" /\ mutex_ = NoThread
    /\ mutex_' = c
    /\ trigger_events_' = IF Len(trigger_events_) < kMaxTriggetEvents
                          THEN Append(trigger_events_, <<c, calls[c]>>)
                          ELSE trigger_events_
    /\ cpc' = [cpc EXCEPT ![c] = "write"]
    /\ UNCHANGED <<pipe, is_shutdown_, calls, accepted, lpc, timeout, ran, spc, timerVars>>

(* A slip in AddTriggerEvent: no wake-up byte. *)
UnlockWithoutWrite(c) ==
    /\ cpc[c] = "write"
    /\ mutex_' = NoThread
    /\ accepted' = accepted \cup {<<c, calls[c]>>}
    /\ cpc' = [cpc EXCEPT ![c] = "idle"]
    /\ UNCHANGED <<trigger_events_, pipe, is_shutdown_, calls, lpc, timeout, ran, spc, timerVars>>

WriteAndUnlock(c) ==
    /\ cpc[c] = "write"
    /\ WriteByte
    /\ mutex_' = NoThread
    /\ accepted' = accepted \cup {<<c, calls[c]>>}
    /\ cpc' = [cpc EXCEPT ![c] = "idle"]
    /\ UNCHANGED <<trigger_events_, is_shutdown_, calls, lpc, timeout, ran, spc, timerVars>>

-----------------------------------------------------------------------------
(* AddTimer from another thread, and the passing of time. *)

AddTimer(t) ==
    /\ t \notin armed \cup fired
    /\ armed' = armed \cup {t}
    /\ UNCHANGED <<trigger_events_, pipe, is_shutdown_, callVars, lpc, timeout, ran, spc, due, fired, blocks>>

Expire(t) ==
    /\ t \in armed \ due
    /\ due' = due \cup {t}
    /\ UNCHANGED <<trigger_events_, pipe, is_shutdown_, callVars, lpc, timeout, ran, spc, armed, fired, blocks>>

-----------------------------------------------------------------------------
(* Stop: the flag, then a byte. *)

SetShutdown ==
    /\ spc = "running"
    /\ is_shutdown_' = TRUE
    /\ spc' = "flagged"
    /\ UNCHANGED <<trigger_events_, pipe, callVars, lpc, timeout, ran, timerVars>>

(* A slip in Stop: no byte. *)
StopWithoutWrite ==
    /\ spc = "flagged"
    /\ spc' = "stopped"
    /\ UNCHANGED <<trigger_events_, pipe, is_shutdown_, callVars, lpc, timeout, ran, timerVars>>

WakeForStop ==
    /\ spc = "flagged"
    /\ WriteByte
    /\ spc' = "stopped"
    /\ UNCHANGED <<trigger_events_, is_shutdown_, callVars, lpc, timeout, ran, timerVars>>

-----------------------------------------------------------------------------
(* Start and HandleTriggerEvent. *)

LoopMoves(from, to) == lpc = from /\ lpc' = to

Begin ==
    /\ LoopMoves("start", "test")
    /\ is_shutdown_' = FALSE
    /\ UNCHANGED <<trigger_events_, pipe, callVars, timeout, ran, spc, timerVars>>

Test ==
    /\ lpc = "test"
    /\ lpc' = IF is_shutdown_ THEN "done" ELSE "pop"
    /\ UNCHANGED <<trigger_events_, pipe, is_shutdown_, callVars, timeout, ran, spc, timerVars>>

Pop ==
    /\ lpc = "pop"
    /\ IF trigger_events_ = <<>>
       THEN lpc' = "size" /\ UNCHANGED <<trigger_events_, ran>>
       ELSE /\ ran' = Append(ran, Head(trigger_events_))
            /\ trigger_events_' = Tail(trigger_events_)
            /\ lpc' = "callback"
    /\ UNCHANGED <<pipe, is_shutdown_, callVars, timeout, spc, timerVars>>

CallbackReturns ==
    /\ LoopMoves("callback", "size")
    /\ Loop \in Callers => cpc[Loop] = "idle"
    /\ UNCHANGED <<trigger_events_, pipe, is_shutdown_, callVars, timeout, ran, spc, timerVars>>

(* A slip in HandleTriggerEvent: one callback per round, no loop on Size. *)
NoSizeTest ==
    /\ LoopMoves("size", "timers")
    /\ UNCHANGED <<trigger_events_, pipe, is_shutdown_, callVars, timeout, ran, spc, timerVars>>

MoreTriggerEvents ==
    /\ lpc = "size"
    /\ lpc' = IF Len(trigger_events_) > 0 THEN "pop" ELSE "timers"
    /\ UNCHANGED <<trigger_events_, pipe, is_shutdown_, callVars, timeout, ran, spc, timerVars>>

(* timer_queue_.HandleTimerEvent, for timers that are not periodic. *)
HandleTimerEvent ==
    /\ LoopMoves("timers", "remaining")
    /\ fired' = fired \cup due
    /\ armed' = armed \ due
    /\ due' = {}
    /\ UNCHANGED <<trigger_events_, pipe, is_shutdown_, callVars, timeout, ran, spc, blocks>>

GetTimeRemaining ==
    /\ LoopMoves("remaining", "wait")
    /\ timeout' = IF armed = {} THEN "none" ELSE "some"
    /\ UNCHANGED <<trigger_events_, pipe, is_shutdown_, callVars, ran, spc, timerVars>>

-----------------------------------------------------------------------------
(* HandleEvent: a wait that ends with a byte in the pipe, with a channel   *)
(* that is ready, or by timeout.  The wake-up handler and the handlers of  *)
(* the other channels of one batch run in any order.                       *)

WaitWoken ==
    /\ LoopMoves("wait", "wake")
    /\ pipe > 0
    /\ UNCHANGED <<trigger_events_, pipe, is_shutdown_, callVars, timeout, ran, spc, timerVars>>

WaitChannel ==
    /\ LoopMoves("wait", "io")
    /\ UNCHANGED <<trigger_events_, pipe, is_shutdown_, callVars, timeout, ran, spc, timerVars>>

(* A slip in SelectTaskScheduler: a negative timeout is passed on. *)
WaitTimeoutStrict ==
    /\ LoopMoves("wait", "test")
    /\ timeout = "some"
    /\ UNCHANGED <<trigger_events_, pipe, is_shutdown_, callVars, timeout, ran, spc, timerVars>>

WaitTimeout ==
    /\ LoopMoves("wait", "test")
    /\ timeout = "some" \/ ~blocks
    /\ UNCHANGED <<trigger_events_, pipe, is_shutdown_, callVars, timeout, ran, spc, timerVars>>

(* Wake reads until the pipe is empty. *)
Wake ==
    /\ lpc = "wake"
    /\ pipe' = 0
    /\ lpc' \in {"test", "io"}
    /\ UNCHANGED <<trigger_events_, is_shutdown_, callVars, timeout, ran, spc, timerVars>>

HandlersReturn ==
    /\ lpc = "io"
    /\ Loop \in Callers => cpc[Loop] = "idle"
    /\ lpc' = "test" \/ (pipe > 0 /\ lpc' = "wake")
    /\ UNCHANGED <<trigger_events_, pipe, is_shutdown_, callVars, timeout, ran, spc, timerVars>>

-----------------------------------------------------------------------------

CallStep(c) == LockAndPush(c) \/ WriteAndUnlock(c)

(* The steps the loop takes on its own; WaitChannel needs a peer. *)
LoopStep ==
    \/ Begin \/ Test \/ Pop \/ CallbackReturns \/ MoreTriggerEvents
    \/ HandleTimerEvent \/ GetTimeRemaining
    \/ WaitWoken \/ WaitTimeout \/ Wake \/ HandlersReturn

Next ==
    \/ LoopStep \/ WaitChannel
    \/ \E c \in Callers : SizeTest(c) \/ CallStep(c)
    \/ \E t \in Timers : AddTimer(t) \/ Expire(t)
    \/ SetShutdown \/ WakeForStop

(* Threads that have begun a call finish it, the loop keeps running, time  *)
(* passes.  Nobody has to call, to stop, or to make a channel ready.       *)
Fairness ==
    /\ WF_vars(LoopStep)
    /\ \A c \in Callers : WF_vars(CallStep(c))
    /\ \A t \in Timers : WF_vars(Expire(t))
    /\ WF_vars(WakeForStop)

Spec == Init /\ [][Next]_vars /\ Fairness

-----------------------------------------------------------------------------
LoopPoints == {"start", "test", "pop", "callback", "size", "timers",
               "remaining", "wait", "wake", "io", "done"}

(* The types of the variables; the queue never exceeds its capacity.       *)
TypeOK ==
    /\ trigger_events_ \in Seq(Events)
    /\ Len(trigger_events_) <= kMaxTriggetEvents
    /\ mutex_ \in Callers \cup {NoThread}
    /\ pipe \in 0 .. PipeSize
    /\ is_shutdown_ \in BOOLEAN
    /\ cpc \in [Callers -> {"idle", "push", "write"}]
    /\ calls \in [Callers -> Nat] /\ \A c \in Callers : calls[c] <= MaxCalls[c]
    /\ accepted \subseteq Events
    /\ lpc \in LoopPoints
    /\ timeout \in {"none", "some"}
    /\ ran \in Seq(Events)
    /\ spc \in {"running", "flagged", "stopped"}
    /\ armed \subseteq Timers /\ due \subseteq armed /\ fired \subseteq Timers
    /\ blocks \in BOOLEAN

(* From the moment HandleTriggerEvent has found the queue empty until the  *)
(* loop wakes up, a callback can only be waiting if a byte is in the pipe  *)
(* or its caller is about to write one: the loop cannot go to sleep on a   *)
(* callback (TaskScheduler::AddTriggerEvent, HandleTriggerEvent, Wake).    *)
NoLostWakeup ==
    lpc \in {"timers", "remaining", "wait"} /\ trigger_events_ # <<>>
        => pipe > 0 \/ \E c \in Callers : cpc[c] = "write"

(* Callbacks of one caller run in the order of its calls, each at most     *)
(* once, even when some calls are refused.                                 *)
RunInCallOrder ==
    \A i, j \in DOMAIN ran :
        i < j /\ ran[i][1] = ran[j][1] => ran[i][2] < ran[j][2]

(* A call that returned true has put its callback in the buffer ("puts the *)
(* callback in the vector and sends a message through the socket", comment *)
(* of AddTriggerEvent): it is waiting or it has run.                       *)
AcceptedIsKept == accepted \subseteq Range(trigger_events_) \cup Range(ran)

(* As long as a single thread has posted, a call that returned true keeps  *)
(* its callback, however full the buffer was (AddTriggerEvent tests the    *)
(* size before it takes the lock).                                         *)
OneCaller == \A c, d \in Callers : calls[c] > 0 /\ calls[d] > 0 => c = d
OneCallerLosesNothing == OneCaller => AcceptedIsKept

(* A waiting callback runs, unless the loop has been stopped.              *)
CallbackRuns ==
    \A e \in Events : e \in Range(trigger_events_) ~> e \in Range(ran) \/ lpc = "done"

(* Stop ends the loop, once Start has cleared the flag.                    *)
StopEndsLoop == is_shutdown_ /\ lpc # "start" ~> lpc = "done"

(* A timer fires when it was added while the loop runs user code, where    *)
(* GetTimeRemaining sees it before the next wait, and with select's bounded *)
(* wait (SelectTaskScheduler::HandleEvent) whichever thread added it and   *)
(* whenever.                                                               *)
TimerFires ==
    \A t \in Timers :
        t \in armed /\ (InUserCode \/ ~blocks) ~> t \in fired \/ lpc = "done"
=============================================================================
