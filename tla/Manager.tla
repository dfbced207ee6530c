------------------------------- MODULE Manager -------------------------------
(***************************************************************************)
(* The bookkeeping of TRM::Manager (src/qtapp/srv/Manager.cpp) and of the  *)
(* timer tasks it schedules (src/qtapp/srv/ReservationTimerTask.cpp): the  *)
(* reservations of every tuner, the three timers and the attributes kept   *)
(* per token in maps of their own, and the clock the timers run against.   *)
(*                                                                         *)
(* The module says what the Manager does for ANY caller: which tuner, which*)
(* locator and which moment are arbitrary here.  Module TRM chooses them   *)
(* the way the request handlers do, and is checked to implement this       *)
(* module.  The server is one Qt event loop, so each handler (a slot or a  *)
(* timer task) is one atomic action.                                       *)
(***************************************************************************)
EXTENDS Tuner

CONSTANTS
    Tuners,     \* the tuner numbers; their order is the order of the ids
    Clients,    \* the client ids that own reservations
    Windows,    \* the <<startTime, duration>> pairs a reservation may get
    EasLocators,\* the channels tuned with the "eas" detail
    MaxTime,    \* bound: the last instant the clock reaches
    NoTimers,   \* a token with no entry in the timer maps
    NoClient    \* a token with no entry in attrs

ASSUME TunersAssumption == Tuners \subseteq Nat
ASSUME WindowsAssumption == Windows \subseteq Nat \X Nat
ASSUME MaxTimeAssumption == MaxTime \in Nat
ASSUME NoClientAssumption == NoClient \notin Clients

\* Entries of preStartTimers, startTimers and expireTimers are inserted and
\* erased together; TRUE means armed, FALSE that the single shot is spent.
\* The pre-start timer is left out: its task only sends a message.
Timers == [start : BOOLEAN, expire : BOOLEAN]
ArmedTimers == [start |-> TRUE, expire |-> TRUE]

ASSUME NoTimersAssumption == NoTimers \notin Timers

VARIABLES
    reservations,   \* tuner -> the reservations it holds
    timers,         \* token -> its timers
    attrs,          \* token -> the client that owns it
    now             \* the current time

managerVars == <<reservations, timers, attrs, now>>

-----------------------------------------------------------------------------
(* Looking things up.  R is the map from tuners to reservations.           *)

parents(R, k) == {t \in Tuners : R[t][k] # NoReservation}
isHeld(R, k) == parents(R, k) # {}
getParent(R, k) == Min(parents(R, k))
getReservation(R, k) == R[getParent(R, k)][k]
tokensOfClient(c) == {k \in Tokens : attrs[k] = c}

\* releaseReservation throws before its last step unless all of these hold.
Releasable(k) ==
    isHeld(reservations, k) /\ timers[k] # NoTimers /\ attrs[k] # NoClient

\* Variant: the old reservation is not released before the new one is added.
WithoutRelease(R, S) == R

\* Without(R, S): R after releaseReservation of every token of S.
Without(R, S) ==
    [t \in Tuners |-> [k \in Tokens |->
        IF k \in S /\ isHeld(R, k) /\ t = getParent(R, k)
        THEN NoReservation ELSE R[t][k]]]

\* A timer or attribute map after releaseReservation of every token of S.
Erased(f, S, nothing) == [k \in Tokens |-> IF k \in S THEN nothing ELSE f[k]]

-----------------------------------------------------------------------------

Init ==
    /\ reservations = [t \in Tuners |-> [k \in Tokens |-> NoReservation]]
    /\ timers = [k \in Tokens |-> NoTimers]
    /\ attrs = [k \in Tokens |-> NoClient]
    /\ now = 0

\* addReservation then setReservationAttributes, on maps R, T and A.  When
\* the tuner throws after inserting, or the token still has timers, the
\* reservation stays on the tuner with neither new timers nor attributes.
addReservation(R, T, A, k, r, t, c) ==
    LET granted == ~addReservationThrows(R[t], k, r) /\ T[k] = NoTimers
    IN  /\ reservations' = [R EXCEPT ![t] = Inserted(R[t], k, r)]
        /\ timers' = IF granted THEN [T EXCEPT ![k] = ArmedTimers] ELSE T
        /\ attrs' = IF granted THEN [A EXCEPT ![k] = c] ELSE A
        /\ UNCHANGED now

\* A grant under a token that no tuner holds.
GrantNew(k, r, t, c) ==
    /\ ~isHeld(reservations, k)
    /\ addReservation(reservations, timers, attrs, k, r, t, c)

\* A grant that keeps the token: the old reservation is released first.  What
\* the token is reused for is up to the caller.
GrantAgain(k, r, t, c) ==
    /\ Releasable(k)
    /\ addReservation(Without(reservations, {k}), Erased(timers, {k}, NoTimers),
                      Erased(attrs, {k}, NoClient), k, r, t, c)

\* Variant: releaseReservation forgets attrs.erase.
ReleaseKeepsAttributes(S) ==
    /\ reservations' = Without(reservations, {k \in S : Releasable(k)})
    /\ timers' = Erased(timers, {k \in S : isHeld(reservations, k)}, NoTimers)
    /\ UNCHANGED <<attrs, now>>

\* releaseReservation of every token of S; a token whose attributes are
\* missing loses its timers and stays on its tuner.
Release(S) ==
    /\ reservations' = Without(reservations, {k \in S : Releasable(k)})
    /\ timers' = Erased(timers, {k \in S : isHeld(reservations, k)}, NoTimers)
    /\ attrs' = Erased(attrs, {k \in S : Releasable(k)}, NoClient)
    /\ UNCHANGED now

-----------------------------------------------------------------------------
(* The timer tasks.  A timer fires at its deadline or any time later.      *)

\* The tuner that holds k after k has become ACTIVE, before any retuning.
StartedOn(k) ==
    [reservations[getParent(reservations, k)] EXCEPT ![k].state = "ACTIVE"]

StartEnabled(k) ==
    /\ timers[k] # NoTimers /\ timers[k].start
    /\ isHeld(reservations, k)
    /\ getReservation(reservations, k).startTime <= now

Started(k) ==
    IF getReservation(reservations, k).state # "IDLE" THEN reservations
    ELSE [reservations EXCEPT ![getParent(reservations, k)] = syncHybrid(StartedOn(k))]

\* Variants: the timer is not single-shot; adjustExpireTimer cancels the
\* expire timer and does not schedule it again.
StartAgainAndAgain(k) ==
    /\ StartEnabled(k)
    /\ reservations' = Started(k)
    /\ UNCHANGED <<timers, attrs, now>>

StartWithoutExpiry(k) ==
    /\ StartEnabled(k)
    /\ timers' = [timers EXCEPT ![k] = [start |-> FALSE, expire |-> FALSE]]
    /\ reservations' = Started(k)
    /\ UNCHANGED <<attrs, now>>

\* ReservationStartTimerTask::run
Start(k) ==
    /\ StartEnabled(k)
    /\ timers' = [timers EXCEPT ![k].start = FALSE]
    /\ reservations' = Started(k)
    /\ UNCHANGED <<attrs, now>>

\* Variant: the reservation is marked EXPIRED, and not released.
ExpireWithoutRelease(k) ==
    /\ timers[k] # NoTimers /\ timers[k].expire
    /\ EndTime(getReservation(reservations, k)) <= now
    /\ reservations' =
          [reservations EXCEPT ![getParent(reservations, k)][k].state = "EXPIRED"]
    /\ UNCHANGED <<timers, attrs, now>>

\* ReservationExpirationTimerTask::run: EXPIRED, then releaseReservation.
Expire(k) ==
    /\ timers[k] # NoTimers /\ timers[k].expire
    /\ isHeld(reservations, k)
    /\ EndTime(getReservation(reservations, k)) <= now
    /\ timers' = [timers EXCEPT ![k] = NoTimers]
    /\ attrs' = [attrs EXCEPT ![k] = NoClient]
    /\ reservations' =
          IF Releasable(k) THEN Without(reservations, {k})
          ELSE [reservations EXCEPT ![getParent(reservations, k)][k].state = "EXPIRED"]
    /\ UNCHANGED now

Tick ==
    /\ now < MaxTime
    /\ now' = now + 1
    /\ UNCHANGED <<reservations, timers, attrs>>

-----------------------------------------------------------------------------

\* Variant: the start is put just before the requested one, as for "now".
NewReservationEarlier(d, l, start, duration, activity) ==
    [device |-> d, serviceLocator |-> l, startTime |-> start - 1,
     duration |-> duration, activity |-> activity, state |-> "IDLE",
     eas |-> activity = "Live" /\ l \in EasLocators]

NewReservation(d, l, start, duration, activity) ==
    [device |-> d, serviceLocator |-> l, startTime |-> start,
     duration |-> duration, activity |-> activity, state |-> "IDLE",
     eas |-> activity = "Live" /\ l \in EasLocators]

\* Everything a tuner could be asked to hold.  The channel of a Live may be
\* replaced by the one the tuner runs; it keeps the eas mark of the request.
Requests ==
    {[NewReservation(d, l, w[1], w[2], a) EXCEPT !.serviceLocator = m] :
        d \in Devices, l \in Locators, m \in Locators, w \in Windows, a \in Activities}

Grant ==
    \E k \in Tokens, t \in Tuners, c \in Clients, r \in Requests :
        GrantNew(k, r, t, c) \/ GrantAgain(k, r, t, c)

ReleaseOne == \E k \in Tokens : isHeld(reservations, k) /\ Release({k})

\* A client that goes away takes all its reservations with it.
ReleaseClient == \E c \in Clients : Release(tokensOfClient(c))

Next ==
    \/ Grant
    \/ ReleaseOne
    \/ ReleaseClient
    \/ \E k \in Tokens : Start(k) \/ Expire(k)
    \/ Tick

Spec == Init /\ [][Next]_managerVars

\* Time passes, and a timer that stays due is served by the event loop.
FairSpec ==
    Spec /\ WF_managerVars(Tick) /\ \A k \in Tokens : WF_managerVars(Expire(k))

-----------------------------------------------------------------------------
(* What the Manager promises.                                              *)

TypeOK ==
    /\ reservations \in [Tuners -> ReservationMap]
    /\ timers \in [Tokens -> Timers \cup {NoTimers}]
    /\ attrs \in [Tokens -> Clients \cup {NoClient}]
    /\ now \in Nat

\* A token is on at most one tuner: getReservation and getParent stop at the
\* first tuner that has the token, so a second copy could never be released.
TokenOnOneTuner ==
    \A k \in Tokens, t, u \in Tuners :
        reservations[t][k] # NoReservation /\ reservations[u][k] # NoReservation
            => t = u

\* Timers and attributes live and die together, and only for a token that a
\* tuner holds.  So the timer tasks, which look the token up outside their
\* try block, and Server::onDisconnected, which releases every token of the
\* client with no try at all, never meet a token that is gone.
NoDanglingToken ==
    \A k \in Tokens :
        /\ timers[k] # NoTimers <=> attrs[k] # NoClient
        /\ timers[k] # NoTimers => isHeld(reservations, k)

\* A start timer is armed exactly while its reservation is IDLE, so the
\* assertion of ReservationStartTimerTask::run never fails, and the expire
\* timer stays armed for as long as the reservation exists.
TimersFollowState ==
    \A k \in Tokens :
        timers[k] # NoTimers =>
            /\ timers[k].start <=> getReservation(reservations, k).state = "IDLE"
            /\ timers[k].expire

\* EXPIRED is only a state inside a handler (the comment of Tuner::addReservation
\* calls it a "transicent token state"), and what has no timers never started.
OnlyTimedRun ==
    \A k \in Tokens, t \in Tuners :
        reservations[t][k] # NoReservation =>
            /\ reservations[t][k].state # "EXPIRED"
            /\ timers[k] = NoTimers => reservations[t][k].state = "IDLE"

\* The life of a token, as its timers and the tuners tell it.
LifeOf(k) ==
    IF timers[k] # NoTimers THEN (IF timers[k].start THEN "granted" ELSE "running")
    ELSE IF isHeld(reservations, k) THEN "orphan" ELSE "free"

Life == INSTANCE Token WITH life <- [k \in Tokens |-> LifeOf(k)], owner <- attrs

\* Tuners, timers and attributes together make nothing but the life of a token
\* of module Token: only an owned token starts or ends, it ends for its owner
\* in the same step, and a client that leaves frees what it owns and no more
\* (addReservation, releaseReservation, the timer tasks).
ImplementsToken == Life!Spec

\* When programmes end, as far as the clock goes.
Ends == {w[1] + w[2] : w \in Windows} \cap 0 .. MaxTime

\* The reservation of k has timers and ends at e or before.
DueBy(k, e) ==
    timers[k] # NoTimers /\ EndTime(getReservation(reservations, k)) <= e

\* "If it is not renewed, the token will be released by TRM" (TunerReservation.h):
\* a token whose reservation ends by e does not stay so for ever.  Its timers
\* release it, unless its owner puts the end off beyond e: to renew it within
\* e, however often and whether it has started or not, does not keep it.  An
\* owner who puts the end off for ever keeps the token for ever, so no more is
\* promised.
TimedTokenEnds ==
    \A k \in Tokens, e \in Ends : DueBy(k, e) ~> ~DueBy(k, e)
=============================================================================
