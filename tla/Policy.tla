------------------------------- MODULE Policy --------------------------------
(***************************************************************************)
(* How the request handlers choose a tuner: reserveLive, reserveRecord and *)
(* the two conflict searches of src/qtapp/srv/Executors.cpp, with the      *)
(* filters of src/qtapp/srv/Filter.cpp they are written with.  Everything  *)
(* here is a function of R, the reservations of every tuner, and of the    *)
(* tuner set aside for the host (localTuner).  A search that walks a list  *)
(* and stops at the first hit takes the smallest tuner or token.           *)
(***************************************************************************)
EXTENDS Manager

CONSTANTS
    HostDevice, \* GetDeviceId(): the device the server runs on
    NoTuner,    \* the empty tuner id
    NoToken     \* the empty token

ASSUME LastTunerAssumption == \E t \in Tuners : \A u \in Tuners : u <= t
ASSUME NoTunerAssumption == NoTuner \notin Tuners
ASSUME NoTokenAssumption == NoToken \notin Tokens

FirstOf(S, nothing) == IF S = {} THEN nothing ELSE Min(S)
OrElse(t, u) == IF t # NoTuner THEN t ELSE u

\* Filter<ByTunerState>
InState(R, state) == {t \in Tuners : getState(R[t]) = state}

\* Filter<ByTunerEndBefore>: no Record of the tuner ends after the given time.
EndBefore(R, S, time) ==
    {t \in S : \A k \in getReservationTokens(R[t]) :
        R[t][k].activity = "Record" => EndTime(R[t][k]) <= time}

\* Filter<ByTunerLocator>: a tuner without any locator is kept.
OnLocator(R, S, l) == {t \in S : getServiceLocator(R[t]) \in {l, NoLocator}}

\* Filter<ByActivity> over the tokens of tuner t.
OfActivity(R, t, activity) ==
    {k \in getReservationTokens(R[t]) : R[t][k].activity = activity}

\* The locator of the first Record of the tuner that has not started.
FutureRecord(rs) ==
    LET idle == TokensOf(rs, "Record", "IDLE")
    IN  IF idle = {} THEN NoLocator ELSE rs[Min(idle)].serviceLocator

-----------------------------------------------------------------------------
(* reserveLive                                                             *)

\* The Live tokens of device d, ACTIVE or not.
LiveTokens(R, d) ==
    {k \in Tokens : \E t \in Tuners : k \in OfActivity(R, t, "Live") /\ R[t][k].device = d}

\* Variant: a reservation that has not started is not looked at.
ExistingActiveLive(R, d) ==
    FirstOf({k \in LiveTokens(R, d) : getReservation(R, k).state = "ACTIVE"}, NoToken)

\* Variant: the search is not restricted to the device that asks.
ExistingLiveOfAnyone(R, d) ==
    FirstOf({k \in Tokens : \E t \in Tuners : k \in OfActivity(R, t, "Live")}, NoToken)

\* tokenToRelease
ExistingLive(R, d) == FirstOf(LiveTokens(R, d), NoToken)

\* The tuner the device is on, when the new locator is the one it has.
SameLocatorTuner(R, old, l) ==
    IF old # NoToken /\ getReservation(R, old).serviceLocator = l
    THEN getParent(R, old) ELSE NoTuner

\* A tuner that only records, and records this very channel.
SharedRecordTuner(R, l) ==
    FirstOf({t \in InState(R, "Record") :
                R[t][Min(TokensOf(R[t], "Record", "ACTIVE"))].serviceLocator = l},
            NoTuner)

\* The tuner the device is on, if nothing is recording there.
OwnLiveTuner(R, old) ==
    IF old # NoToken /\ getState(R[getParent(R, old)]) = "Live"
    THEN getParent(R, old) ELSE NoTuner

\* fallbackTuner: the device's own tuner, when no better reason picked one.
FallbackTuner(R, old, l) ==
    LET own == OwnLiveTuner(R, old)
    IN  IF /\ OrElse(SameLocatorTuner(R, old, l), SharedRecordTuner(R, l)) = NoTuner
           /\ own # NoTuner
           /\ FutureRecord(R[own]) # l
        THEN own ELSE NoTuner

FreeWithFutureRecord(R, l) ==
    FirstOf({t \in InState(R, "Free") : FutureRecord(R[t]) = l}, NoTuner)

FreeAndEmpty(R) ==
    FirstOf({t \in InState(R, "Free") : getReservationTokens(R[t]) = {}}, NoTuner)

\* tunerToAddTo after the first five searches.
PreferredLiveTuner(R, old, l) ==
    LET own == OwnLiveTuner(R, old)
        reused == IF own # NoTuner /\ FutureRecord(R[own]) = l THEN own ELSE NoTuner
    IN  OrElse(SameLocatorTuner(R, old, l),
        OrElse(SharedRecordTuner(R, l),
        OrElse(reused,
        OrElse(FreeWithFutureRecord(R, l), FreeAndEmpty(R)))))

\* A remote device may take the last Free tuner from the host only when it
\* has no tuner to fall back on and the host's claim can move to a tuner
\* that is recording.
GuardLastFree(R, local, d, t, fallback) ==
    LET recording == InState(R, "Record")
        taken == /\ t # NoTuner /\ d # HostDevice /\ t = local
                 /\ Cardinality(InState(R, "Free")) = 1
    IN  CASE ~taken -> [tuner |-> t, local |-> local]
          [] taken /\ fallback = NoTuner /\ recording # {} ->
                [tuner |-> t, local |-> Min(recording)]
          [] OTHER -> [tuner |-> NoTuner, local |-> local]

\* "look for F tuner that has ANY future tokens"
FreeWithAnyFutureRecord(R) ==
    FirstOf({t \in InState(R, "Free") : FutureRecord(R[t]) # NoLocator}, NoTuner)

\* Variants: nobody checks that the tuner is the host's; nobody checks that
\* there is another tuner to give the host.
MoveLocalTunerNever(R, local, d, t, fallback) ==
    [tuner |-> t, local |-> IF t # NoTuner /\ d = HostDevice THEN t ELSE local]

MoveLocalTunerUnchecked(R, local, d, t, fallback) ==
    IF t = local /\ d # HostDevice
    THEN [tuner |-> t, local |-> FirstOf(InState(R, "Free") \ {t}, NoTuner)]
    ELSE [tuner |-> t, local |-> local]

\* The host's claim follows the host; a remote device that lands on the
\* host's tuner pushes the claim to another Free tuner, else to another
\* recording one, else it is turned away.
MoveLocalTuner(R, local, d, t, fallback) ==
    LET others == OrElse(FirstOf(InState(R, "Free") \ {t}, NoTuner),
                         FirstOf(InState(R, "Record") \ {t}, NoTuner))
    IN  CASE t \in {NoTuner, fallback} -> [tuner |-> t, local |-> local]
          [] t \notin {NoTuner, fallback} /\ d = HostDevice -> [tuner |-> t, local |-> t]
          [] t \notin {NoTuner, fallback} /\ d # HostDevice /\ t # local ->
                [tuner |-> t, local |-> local]
          [] OTHER -> IF others # NoTuner THEN [tuner |-> t, local |-> others]
                      ELSE [tuner |-> NoTuner, local |-> local]

\* What reserveLive decides: the tuner (or none) and the new localTuner.
LivePlan(R, local, d, l) ==
    LET old == ExistingLive(R, d)
        fallback == FallbackTuner(R, old, l)
        guarded == GuardLastFree(R, local, d, PreferredLiveTuner(R, old, l), fallback)
        found == OrElse(OrElse(guarded.tuner, fallback), FreeWithAnyFutureRecord(R))
    IN  MoveLocalTuner(R, guarded.local, d, found, fallback)

-----------------------------------------------------------------------------
(* reserveRecord                                                           *)

\* The scan over tuners with a future recording of this channel has no break:
\* the last tuner whose getEndTime is early enough wins.
BackToBackTuner(R, l, start) ==
    LET S == {t \in Tuners :
                 /\ \E k \in TokensOf(R[t], "Record", "IDLE") : R[t][k].serviceLocator = l
                 /\ getEndTime(R[t], "Record") <= start}
    IN  IF S = {} THEN NoTuner ELSE Max(S)

HybridTuners(R, l, start) ==
    OnLocator(R, EndBefore(R, InState(R, "Hybrid"), start), l)

LiveTunerOnChannel(R, l) ==
    FirstOf({t \in InState(R, "Live") :
                /\ Cardinality(getReservationTokens(R[t])) = 1
                /\ ActiveLocator(R[t]) = l}, NoTuner)

RecordTunerThatEnds(R, l, start) ==
    LET ends == EndBefore(R, InState(R, "Record"), start)
    IN  OrElse(FirstOf(OnLocator(R, ends, l), NoTuner), FirstOf(ends, NoTuner))

\* A Free tuner with no token, or with just a Live of this channel whose
\* start timer is due but has not run.
FreeForRecord(R, l, time) ==
    FirstOf({t \in InState(R, "Free") :
                LET held == getReservationTokens(R[t])
                IN  \/ held = {}
                    \/ /\ Cardinality(held) = 1
                       /\ \E k \in TokensOf(R[t], "Live", "IDLE") :
                             /\ R[t][k].serviceLocator = l
                             /\ R[t][k].startTime <= time}, NoTuner)

\* Assert(tunerIds.size() == 1) on the Hybrid tuners that qualify.
RecordSearchThrows(R, l, start) ==
    BackToBackTuner(R, l, start) = NoTuner /\ Cardinality(HybridTuners(R, l, start)) > 1

RecordTuner(R, l, start, time) ==
    OrElse(BackToBackTuner(R, l, start),
    OrElse(FirstOf(HybridTuners(R, l, start), NoTuner),
    OrElse(LiveTunerOnChannel(R, l),
    OrElse(RecordTunerThatEnds(R, l, start), FreeForRecord(R, l, time)))))

\* A recording that takes the host's Free tuner leaves it another Free one.
LocalAfterRecord(R, local, t) ==
    LET others == InState(R, "Free") \ {t}
    IN  IF t = local /\ getState(R[t]) = "Free" /\ others # {} THEN Min(others) ELSE local

-----------------------------------------------------------------------------
(* FindConflictsForRequestedRecord: the Live that has to yield.            *)

\* The Live tokens on L tuners with no Record; the filter ByInConflict(false)
\* removes nothing, because isPendingConflict knows only temporary tokens.
YieldingLives(R) ==
    {k \in Tokens : \E t \in InState(R, "Live") :
        k \in OfActivity(R, t, "Live") /\ OfActivity(R, t, "Record") = {}}

\* The token of S met first when tuners and then tokens are walked in order.
FirstInTuners(R, S) ==
    LET t == Min({getParent(R, k) : k \in S})
    IN  Min({k \in S : getParent(R, k) = t})

\* The H tuner of the first Record that ends in time; its single Live yields.
HybridYielding(R, start) ==
    LET ending == {k \in Tokens : \E t \in InState(R, "Hybrid") :
                      k \in OfActivity(R, t, "Record") /\ EndTime(R[t][k]) <= start}
    IN  IF ending = {} THEN {}
        ELSE OfActivity(R, getParent(R, FirstInTuners(R, ending)), "Live")

\* The conflicting Live, or NoToken where an assertion throws.
RecordConflict(R, d, start) ==
    LET all == YieldingLives(R)
        own == {k \in all : getReservation(R, k).device = d}
        hybrid == HybridYielding(R, start)
    IN  CASE own # {} -> FirstInTuners(R, own)
          [] own = {} /\ all # {} -> FirstInTuners(R, all)
          [] OTHER -> IF \E k \in hybrid : hybrid = {k} THEN Min(hybrid) ELSE NoToken
=============================================================================
