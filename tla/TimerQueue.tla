----------------------------- MODULE TimerQueue -----------------------------
(***************************************************************************)
(* xop::TimerQueue (src/rtsp/net/Timer.cpp) and the loop that drives it    *)
(* (TaskScheduler::Start), with the wait of EpollTaskScheduler or that of  *)
(* SelectTaskScheduler.  A timer is kept twice: timers_ holds the ids that *)
(* can be removed, events_ the entries <<time, id>> in the order they are  *)
(* due.  Both refer to the same Timer object, here a row of timer.         *)
(* AddTimer and RemoveTimer may be called by any thread, but not while     *)
(* HandleTimerEvent runs callbacks, which it does under mutex_.            *)
(***************************************************************************)
EXTENDS Integers

CONSTANTS
    Delays,      \* the values of ms that AddTimer is called with
    SelectWait,  \* what select makes of a timeout of 0 or -1: 10 ms in the code
    MaxTimers,   \* bound: calls of AddTimer
    MaxNow       \* bound: last millisecond of the clock, at which it stays

ASSUME TimerQueueAssumption ==
    Delays \subseteq Nat /\ SelectWait \in Nat /\ MaxTimers \in Nat /\ MaxNow \in Nat

VARIABLES
    now,             \* GetTimeNow()
    last_timer_id_,
    timers_,         \* ids in the map of that name
    events_,         \* keys of the map of that name
    timer,           \* the Timer objects: delay asked for, interval_, next_timeout_
    hpc,             \* where the loop is
    timePoint,       \* the time HandleTimerEvent works with
    timeout,         \* what GetTimeRemaining returned
    asked, began,    \* when it looked at the clock, and when the wait began
    scheduler,       \* "epoll" or "select": never changes
    recent,          \* timers added since GetTimeRemaining
    last, runs       \* when each timer was added or last fired, and how often it fired

queueVars == <<last_timer_id_, timers_, events_, timer>>
waitVars == <<timeout, asked, began>>
historyVars == <<last, runs>>
timerVars == <<now, queueVars, hpc, timePoint, scheduler, waitVars, recent, historyVars>>

Ids == 1 .. MaxTimers

TimerInit ==
    /\ now = 0 /\ last_timer_id_ = 0
    /\ timers_ = {} /\ events_ = {}
    /\ timer = [id \in Ids |-> [ms |-> 0, interval |-> 0, next |-> 0]]
    /\ hpc = "idle" /\ timePoint = 0
    /\ timeout = 0 /\ asked = 0 /\ began = 0
    /\ scheduler \in {"epoll", "select"}
    /\ recent = {}
    /\ last = [id \in Ids |-> 0] /\ runs = [id \in Ids |-> 0]

(* The constructor of Timer. *)
Interval(ms) == IF ms = 0 THEN 1 ELSE ms

(* events_.begin(): the earliest entry, ties broken by id. *)
IsFirst(e) ==
    /\ e \in events_
    /\ \A f \in events_ : e[1] < f[1] \/ (e[1] = f[1] /\ e[2] <= f[2])

-----------------------------------------------------------------------------
Unlocked == hpc # "handling"

(* AddTimer: a delay of 0 becomes an interval of 1, but the entry is keyed *)
(* with the delay.                                                         *)
AddTimer(ms) ==
    /\ Unlocked /\ last_timer_id_ < MaxTimers
    /\ LET id == last_timer_id_ + 1 IN
        /\ last_timer_id_' = id
        /\ timer' = [timer EXCEPT ![id] =
               [ms |-> ms, interval |-> Interval(ms), next |-> now + Interval(ms)]]
        /\ timers_' = timers_ \cup {id}
        /\ events_' = events_ \cup {<<now + ms, id>>}
        /\ recent' = recent \cup {id}
        /\ last' = [last EXCEPT ![id] = now]
    /\ UNCHANGED <<now, hpc, timePoint, scheduler, waitVars, runs>>

(* A slip in RemoveTimer: the entry in events_ stays. *)
RemoveTimerKeepsEntry(id) ==
    /\ Unlocked /\ id <= last_timer_id_
    /\ timers_' = timers_ \ {id}
    /\ UNCHANGED <<now, last_timer_id_, timer, events_, hpc, timePoint, scheduler, waitVars, recent, historyVars>>

RemoveTimer(id) ==
    /\ Unlocked /\ id <= last_timer_id_
    /\ IF id \in timers_
       THEN /\ events_' = events_ \ {<<timer[id].next, id>>}
            /\ timers_' = timers_ \ {id}
       ELSE UNCHANGED <<events_, timers_>>
    /\ UNCHANGED <<now, last_timer_id_, timer, hpc, timePoint, scheduler, waitVars, recent, historyVars>>

-----------------------------------------------------------------------------
(* HandleTimerEvent: a look at timers_ without the lock, then the lock and *)
(* the callbacks that are due at timePoint.                                *)

LookForTimers ==
    /\ hpc = "idle"
    /\ hpc' = IF timers_ # {} THEN "lock" ELSE "handled"
    /\ UNCHANGED <<now, queueVars, timePoint, scheduler, waitVars, recent, historyVars>>

LockTimers ==
    /\ hpc = "lock"
    /\ hpc' = "handling" /\ timePoint' = now
    /\ UNCHANGED <<now, queueVars, scheduler, waitVars, recent, historyVars>>

(* A slip: the entry of a periodic timer is erased and not put back. *)
FireLosesEntry(e, flag) ==
    /\ hpc = "handling" /\ timers_ # {}
    /\ IsFirst(e) /\ e[1] <= timePoint
    /\ LET id == e[2]  next == timePoint + timer[id].interval IN
        /\ last' = [last EXCEPT ![id] = timePoint] /\ runs' = [runs EXCEPT ![id] = @ + 1]
        /\ events_' = events_ \ {e}
        /\ timers_' = IF flag THEN timers_ ELSE timers_ \ {id}
    /\ UNCHANGED <<now, last_timer_id_, timer, hpc, timePoint, scheduler, waitVars, recent>>

(* A slip: the time of a periodic timer is set without its interval. *)
FireAgainAtOnce(e, flag) ==
    /\ hpc = "handling" /\ timers_ # {}
    /\ IsFirst(e) /\ e[1] <= timePoint
    /\ LET id == e[2]  next == timePoint IN
        /\ last' = [last EXCEPT ![id] = timePoint] /\ runs' = [runs EXCEPT ![id] = @ + 1]
        /\ IF flag
           THEN /\ timer' = [timer EXCEPT ![id].next = next]
                /\ events_' = (events_ \ {e}) \cup {<<next, id>>}
                /\ UNCHANGED timers_
           ELSE /\ events_' = events_ \ {e}
                /\ timers_' = timers_ \ {id}
                /\ UNCHANGED timer
    /\ UNCHANGED <<now, last_timer_id_, hpc, timePoint, scheduler, waitVars, recent>>

(* The callback of the first entry runs; a timer whose callback returns    *)
(* true is due again one interval after timePoint, another is dropped.     *)
Fire(e, flag) ==
    /\ hpc = "handling" /\ timers_ # {}
    /\ IsFirst(e) /\ e[1] <= timePoint
    /\ LET id == e[2]  next == timePoint + timer[id].interval IN
        /\ last' = [last EXCEPT ![id] = timePoint] /\ runs' = [runs EXCEPT ![id] = @ + 1]
        /\ IF flag
           THEN /\ timer' = [timer EXCEPT ![id].next = next]
                /\ events_' = (events_ \ {e}) \cup {<<next, id>>}
                /\ UNCHANGED timers_
           ELSE /\ events_' = events_ \ {e}
                /\ timers_' = timers_ \ {id}
                /\ UNCHANGED timer
    /\ UNCHANGED <<now, last_timer_id_, hpc, timePoint, scheduler, waitVars, recent>>

NoMoreDue ==
    /\ hpc = "handling"
    /\ timers_ = {} \/ \E e \in events_ : IsFirst(e) /\ e[1] > timePoint
    /\ hpc' = "handled" /\ timePoint' = 0
    /\ UNCHANGED <<now, queueVars, scheduler, waitVars, recent, historyVars>>

Remaining(e) == IF e[1] < now THEN 0 ELSE e[1] - now

(* A slip in GetTimeRemaining: the wait is for any entry, not the first. *)
WaitForAny ==
    /\ hpc = "handled"
    /\ \/ timers_ = {} /\ timeout' = -1
       \/ timers_ # {} /\ \E e \in events_ : timeout' = Remaining(e)
    /\ asked' = now /\ recent' = {}
    /\ hpc' = "asked"
    /\ UNCHANGED <<now, queueVars, timePoint, began, scheduler, historyVars>>

GetTimeRemaining ==
    /\ hpc = "handled"
    /\ \/ timers_ = {} /\ timeout' = -1
       \/ timers_ # {} /\ \E e \in events_ : IsFirst(e) /\ timeout' = Remaining(e)
    /\ asked' = now /\ recent' = {}
    /\ hpc' = "asked"
    /\ UNCHANGED <<now, queueVars, timePoint, began, scheduler, historyVars>>

(* How long HandleEvent waits: epoll for the timeout it is given, with -1  *)
(* for ever, while select never takes less than its own 10 ms for 0 or -1. *)
WaitFor == IF scheduler = "select" /\ timeout <= 0 THEN SelectWait ELSE timeout

WakeAt == began + WaitFor

(* HandleEvent begins its wait, some time after GetTimeRemaining. *)
HandleEvent ==
    /\ hpc = "asked"
    /\ began' = now
    /\ hpc' = IF WaitFor < 0 THEN "blocked" ELSE "waiting"
    /\ UNCHANGED <<now, queueVars, timePoint, timeout, asked, scheduler, recent, historyVars>>

WaitEnds ==
    /\ hpc' = "idle"
    /\ timeout' = 0 /\ asked' = 0 /\ began' = 0
    /\ UNCHANGED <<now, queueVars, timePoint, scheduler, recent, historyVars>>

(* A wait that would end after MaxNow ends there. *)
WaitOver == hpc = "waiting" /\ (now >= WakeAt \/ now = MaxNow) /\ WaitEnds

(* A posted callback or a ready channel ends the wait early. *)
WaitInterrupted == hpc \in {"waiting", "blocked"} /\ WaitEnds

Tick ==
    /\ now < MaxNow
    /\ now' = now + 1
    /\ UNCHANGED <<queueVars, hpc, timePoint, scheduler, waitVars, recent, historyVars>>

-----------------------------------------------------------------------------
FireSome == \E e \in events_, flag \in BOOLEAN : Fire(e, flag)

LoopStep ==
    LookForTimers \/ LockTimers \/ FireSome \/ NoMoreDue \/ GetTimeRemaining \/ HandleEvent \/ WaitOver

TimerNext ==
    \/ \E ms \in Delays : AddTimer(ms)
    \/ \E id \in Ids : RemoveTimer(id)
    \/ LoopStep \/ WaitInterrupted \/ Tick

(* The loop keeps running and time passes. *)
TimerSpec == TimerInit /\ [][TimerNext]_timerVars /\ WF_timerVars(LoopStep) /\ WF_timerVars(Tick)

-----------------------------------------------------------------------------
(* The types of the variables. *)
TimerTypeOK ==
    /\ now \in 0 .. MaxNow
    /\ last_timer_id_ \in 0 .. MaxTimers
    /\ timers_ \subseteq 1 .. last_timer_id_
    /\ events_ \subseteq Nat \X (1 .. last_timer_id_)
    /\ timer \in [Ids -> [ms : Nat, interval : Nat, next : Nat]]
    /\ hpc \in {"idle", "lock", "handling", "handled", "asked", "waiting", "blocked"}
    /\ timePoint \in 0 .. MaxNow
    /\ timeout \in Nat \cup {-1}
    /\ asked \in 0 .. now /\ began \in 0 .. now
    /\ scheduler \in {"epoll", "select"}
    /\ recent \subseteq Ids
    /\ last \in [Ids -> 0 .. MaxNow] /\ runs \in [Ids -> Nat]

(* Every timer that can be removed has exactly one entry among the events: *)
(* events_.begin(), read whenever timers_ is not empty, is never end().    *)
OneEntryPerTimer ==
    \A id \in timers_ :
        \E e \in events_ : e[2] = id /\ \A f \in events_ : f[2] = id => f = e

(* RemoveTimer silences a timer: an entry outlives its timer only if the   *)
(* timer was added with a delay of 0, whose entry RemoveTimer looks for    *)
(* one millisecond too late.                                               *)
RemovedStaysSilent == \A e \in events_ : e[2] \in timers_ \/ timer[e[2]].ms = 0

(* The earliest a timer may fire: the delay AddTimer was given after it    *)
(* was added, and from then on a whole interval after its last run.        *)
Earliest(id) == last[id] + (IF runs[id] = 0 THEN timer[id].ms ELSE timer[id].interval)

(* No callback runs too early: not before its delay is over, and not again *)
(* before a whole interval after the time HandleTimerEvent took for its    *)
(* last run, nor twice for the same time.                                  *)
NeverEarly == [][\A id \in Ids : runs'[id] > runs[id] => timePoint >= Earliest(id)]_timerVars

(* What the wait does to the timers there when the loop asked how long it  *)
(* may take.  Without a timeout it leaves none of them waiting.  Otherwise *)
(* it goes past the time of none by more than passed between the question  *)
(* and the wait, but for one case: when a timer was due already, epoll     *)
(* does not wait at all and select waits for up to 10 ms.                  *)
NoOversleep ==
    /\ hpc = "blocked" => timers_ \subseteq recent
    /\ hpc = "waiting" =>
          \A e \in events_ : e[2] \in timers_ \ recent =>
              \/ WakeAt <= e[1] + (began - asked)
              \/ timeout = 0 /\ WakeAt <= began + (IF scheduler = "select" THEN SelectWait ELSE 0)

(* A timer that was there when the loop went to wait fires when its time   *)
(* comes, or has been removed.                                             *)
DueFires ==
    \A id \in Ids, k \in 0 .. MaxNow :
        id \in timers_ \ recent /\ timer[id].next = k
            ~> id \notin timers_ \/ timer[id].next > k
=============================================================================
