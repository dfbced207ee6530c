------------------------------ MODULE QtTimer ------------------------------
(***************************************************************************)
(* One Timer of the server, from its construction by the Manager to its    *)
(* deletion: the QtTimer behind it, the single shot QTimer inside that,    *)
(* and the wall clock, which somebody may set.  A QTimer counts elapsed    *)
(* time and takes an int; the deadline is a 64 bit time of the wall clock. *)
(* The timers of a reservation are deleted by a queued signal, the timer   *)
(* of a pending request at once.                                           *)
(***************************************************************************)
EXTENDS Integers

CONSTANTS
    MaxInt,        \* std::numeric_limits<int32_t>::max()
    Coarse,        \* how early a coarse QTimer may time out
    MaxTime,       \* bound: last wall clock time
    Deadlines,     \* bound: the absolute times asked for
    Intervals,     \* bound: the relative times asked for
    MaxSettings,   \* bound: how often the wall clock is set
    MaxSchedules,  \* bound: how often the timer is scheduled
    Off            \* a QTimer that is not running

ASSUME MaxIntAssumption == MaxInt \in Nat

ASSUME CoarseAssumption == Coarse \in Nat

ASSUME TimesAssumption ==
    /\ MaxTime \in Nat
    /\ Deadlines \subseteq Int
    /\ Intervals \subseteq Nat

ASSUME OffAssumption == Off \notin Int

VARIABLES
    now,        \* QDateTime::currentMSecsSinceEpoch
    left,       \* what the QTimer has still to wait, or Off
    task,       \* whether QtTimer::task is set
    future,     \* QtTimer::future
    object,     \* "none", "alive", or "doomed": its timerDeleted is queued
    kind,       \* whose timer it is
    settings,   \* how often the wall clock was set
    schedules,  \* how often the timer was scheduled
    runs        \* how often a task was run

vars == <<now, left, task, future, object, kind, settings, schedules, runs>>

Kinds == {"reservation", "pending"}

TypeOK ==
    /\ now \in Int
    /\ left \in Nat \cup {Off}
    /\ task \in BOOLEAN
    /\ future \in Int
    /\ object \in {"none", "alive", "doomed"}
    /\ kind \in Kinds
    /\ settings \in Nat
    /\ schedules \in Nat
    /\ runs \in Nat

Init ==
    /\ now \in 1..MaxTime
    /\ left = Off
    /\ task = FALSE
    /\ future = 0
    /\ object = "none"
    /\ kind \in Kinds
    /\ settings = 0
    /\ schedules = 0
    /\ runs = 0

----------------------------------------------------------------------------
\* The conversion of a 64 bit value to the int that QTimer::start takes.
AsInt(ms) == ((ms + MaxInt + 1) % (2 * MaxInt + 2)) - (MaxInt + 1)

\* QTimer::start refuses a negative interval and leaves the timer stopped.
Started(msec) == IF msec < 0 THEN Off ELSE msec

\* Variant: the interval is passed on as it is.
NotClamped(ms) == ms

ClampedTo31Bits(ms) == IF ms <= MaxInt THEN ms ELSE MaxInt

schedule(expireAt, ms) ==
    /\ future' = expireAt
    /\ task' = TRUE
    /\ left' = Started(AsInt(ClampedTo31Bits(ms)))
    /\ schedules' = schedules + 1

\* Timer::schedule, for an absolute and for a relative time.
ScheduleAt(time) == schedule(time, IF time - now < 0 THEN 0 ELSE time - now)

ScheduleIn(ms) == schedule(now + ms, ms)

\* The start timers of a reservation are absolute, its expire timer and the
\* timer of a pending request are relative.
ScheduleFor(k) ==
    \/ k = "reservation" /\ \E time \in Deadlines : ScheduleAt(time)
    \/ \E ms \in Intervals : now + ms <= MaxTime /\ ScheduleIn(ms)

\* Manager::addReservation and Manager::addPendingRequest
Construct ==
    /\ object = "none"
    /\ schedules < MaxSchedules
    /\ object' = "alive"
    /\ kind' \in Kinds
    /\ ScheduleFor(kind')
    /\ UNCHANGED <<now, settings, runs>>

\* Manager::adjustExpireTimer cancels the timer and schedules it again.
adjustExpireTimer ==
    /\ object = "alive"
    /\ kind = "reservation"
    /\ schedules < MaxSchedules
    /\ \E ms \in Intervals : now + ms <= MaxTime /\ ScheduleIn(ms)
    /\ UNCHANGED <<now, object, kind, settings, runs>>

cancel ==
    /\ left' = Off
    /\ task' = FALSE
    /\ future' = 0

\* What follows a cancel: emit timerDeleted, or delete.
AfterDeletion(k) == IF k = "pending" THEN "none" ELSE "doomed"

\* A handler that is not the timer's own task lets go of the timer.
Retire ==
    /\ object = "alive"
    /\ cancel
    /\ object' = AfterDeletion(kind)
    /\ UNCHANGED <<now, kind, settings, schedules, runs>>

onTimerDeleted ==
    /\ object = "doomed"
    /\ object' = "none"
    /\ UNCHANGED <<now, left, task, future, kind, settings, schedules, runs>>

----------------------------------------------------------------------------
\* QtTimer::onExpiration
TimesOut == left # Off /\ left <= Coarse

\* Variant: the early expiration is put down to the clock and ignored.
ExpireEarlyIgnored ==
    /\ TimesOut
    /\ now < future
    /\ left' = Off
    /\ UNCHANGED <<now, task, future, object, kind, settings, schedules, runs>>

\* Variant: it waits for the whole interval again.
ExpireEarlyInFull ==
    /\ TimesOut
    /\ now < future
    /\ left' = MaxInt
    /\ UNCHANGED <<now, task, future, object, kind, settings, schedules, runs>>

ExpireEarly ==
    /\ TimesOut
    /\ now < future
    /\ left' = Started(AsInt(future - now + 1))
    /\ UNCHANGED <<now, task, future, object, kind, settings, schedules, runs>>

Due == TimesOut /\ now >= future

\* The task runs and leaves the timer where it is: the start tasks, and a
\* pending request whose timeout threw.
ExpireAndKeep ==
    /\ Due
    /\ runs' = IF task THEN runs + 1 ELSE runs
    /\ left' = Off
    /\ future' = 0
    /\ UNCHANGED <<now, task, object, kind, settings, schedules>>

\* The task cancels and deletes its own timer.  The assignment to future that
\* follows it repeats what cancel did; when the object is gone already, as the
\* timer of a pending request is, nothing reads what it writes.
ExpireAndRetire ==
    /\ Due
    /\ runs' = IF task THEN runs + 1 ELSE runs
    /\ cancel
    /\ object' = AfterDeletion(kind)
    /\ UNCHANGED <<now, kind, settings, schedules>>

onExpiration == ExpireEarly \/ ExpireAndKeep \/ ExpireAndRetire

----------------------------------------------------------------------------
\* A millisecond passes, for the QTimer and on the wall clock.  Deadlines are
\* at most MaxTime, so nothing changes when the wall clock stays there.
Tick ==
    /\ now < MaxTime \/ left \notin {Off, 0}
    /\ now' = IF now < MaxTime THEN now + 1 ELSE now
    /\ left' = IF left \in {Off, 0} THEN left ELSE left - 1
    /\ UNCHANGED <<task, future, object, kind, settings, schedules, runs>>

\* Somebody sets the wall clock.
SetClock ==
    /\ settings < MaxSettings
    /\ settings' = settings + 1
    /\ now' \in 1..MaxTime
    /\ UNCHANGED <<left, task, future, object, kind, schedules, runs>>

Next ==
    \/ Construct
    \/ adjustExpireTimer
    \/ Retire
    \/ onTimerDeleted
    \/ onExpiration
    \/ Tick
    \/ SetClock

Spec == Init /\ [][Next]_vars

FairSpec == Spec /\ WF_vars(Tick) /\ WF_vars(onExpiration)

----------------------------------------------------------------------------
A == INSTANCE Alarm WITH
        Reach <- MaxInt,
        NoAlarm <- Off,
        deadline <- IF left = Off THEN Off ELSE future

\* A timer is an alarm: its task runs at most once for each schedule, not
\* before the deadline, not after cancel, and a deadline is dropped only when
\* it is MaxInt milliseconds ahead at an early expiration, however the wall
\* clock is set (QtTimer::onExpiration).
ImplementsAlarm == A!Spec

\* While the wall clock is not set, the QTimer of a scheduled timer is never
\* left waiting for longer than to the millisecond after the deadline, also
\* when the interval was clamped or truncated to an int (QtTimer::schedule).
Punctual ==
    (settings = 0 /\ left \notin {Off, 0}) => now + left <= future + 1

\* A deadline within reach is met: a timer that waits runs its task or is
\* cancelled, unless its deadline is, or by a setting of the clock becomes,
\* MaxInt ahead; it is not stuck after an expiration that came early.
WithinReachEnds == (left # Off) ~> (future = 0 \/ future - now >= MaxInt)
============================================================================
