--------------------------------- MODULE TRM ---------------------------------
(***************************************************************************)
(* The server as a whole: the request executors (src/qtapp/srv/            *)
(* Executors.cpp) on top of the Manager's bookkeeping, the pending         *)
(* requests with their timeouts, the queued reservationUpdated signal and  *)
(* the clients that connect and disconnect (src/qtapp/srv/Server.cpp).     *)
(*                                                                         *)
(* A Record that finds only a tuner somebody watches is not answered: a    *)
(* conflict is put to the owner of the Live, and the request is decided by *)
(* the owner (CancelRecording of the temporary token), by the Live going   *)
(* away or tuning to the recorded channel (onReservationUpdated), or by a  *)
(* timeout, which first asks the recorder to cancel the Live.  The waits   *)
(* (53.5 s, 10 s, 15 s) are not measured on the clock: a pending request   *)
(* may time out at any moment, or be answered first.                       *)
(***************************************************************************)
EXTENDS Policy, Sequences

CONSTANTS
    Recorder,   \* kRecorderClientId, the client that owns the recordings
    Programmes, \* the <<startTime, duration>> pairs a request may name
    RecordIds,  \* bound: the request ids of ReserveTuner for Record
    CancelIds,  \* bound: the request ids of CancelRecording
    MaxUpdates  \* bound: reservationUpdated signals waiting in the queue

ASSUME ClientsAssumption == Devices \subseteq Clients /\ Recorder \in Clients \ Devices
ASSUME ProgrammesAssumption == Programmes \subseteq Windows

\* A window may start earlier, and may be cut or extended at its start.
ASSUME WindowsMove ==
    \A w \in Windows, s \in 0 .. MaxTime :
        /\ s < w[1] => <<s, w[2]>> \in Windows
        /\ <<s, IF s > w[1] + w[2] THEN 0 ELSE w[1] + w[2] - s>> \in Windows
ASSUME TokensFinite == IsFiniteSet(Tokens)
ASSUME IdsAssumption == RecordIds \cap CancelIds = {}
ASSUME MaxUpdatesAssumption == MaxUpdates \in Nat \ {0}

VARIABLES
    localTuner,     \* the tuner set aside for the host
    pending,        \* pendingRequests, oldest first
    updates,        \* how many reservationUpdated signals are queued
    sweep,          \* position of onReservationUpdated's loop; 0 outside it
    connected,      \* the clients with an entry in connectionClientMap
    asked,          \* history: the request ids used so far
    verdicts        \* history: request id -> the decisions on it, in order

history == <<asked, verdicts>>
serverVars == <<localTuner, pending, updates, sweep, connected, history>>
vars == <<managerVars, serverVars>>

\* An element of pendingRequests; token is the Live in conflict or the
\* Record to cancel, sent says whether the message that asks for a decision
\* found a connection, armed whether its timer is still to fire, marked that
\* the loop of onReservationUpdated has put it on timedoutPending.
Pending(type, id, req, parent, token, client, sent) ==
    [type |-> type, id |-> id, req |-> req, parent |-> parent, token |-> token,
     client |-> client, sent |-> sent, armed |-> TRUE, marked |-> FALSE]

TRMInit ==
    /\ Init
    /\ localTuner = Min(Tuners)
    /\ pending = <<>>
    /\ updates = 0
    /\ sweep = 0
    /\ connected = {}
    /\ asked = {}
    /\ verdicts = [q \in RecordIds \cup CancelIds |-> <<>>]

-----------------------------------------------------------------------------

\* UUIDs are fresh: a token nobody holds and no pending request remembers.
FreshTokens ==
    {k \in Tokens : /\ ~isHeld(reservations, k)
                    /\ \A i \in DOMAIN pending : pending[i].token # k}

\* The handlers run to completion: none starts inside another's loop.
Idle == sweep = 0

Emit(n) == updates' = Min({updates + n, MaxUpdates})
Decide(q, verdict) == verdicts' = [verdicts EXCEPT ![q] = Append(@, verdict)]
Ask(q) == q \notin asked /\ asked' = asked \cup {q}

\* pendingRequests without its i-th element.
removePendingRequest(i) ==
    SubSeq(pending, 1, i - 1) \o SubSeq(pending, i + 1, Len(pending))

\* The reservation of a Live request: a start in the future becomes now (1 ms
\* before it, which is the same instant on this clock), and
\* the channel becomes the one the tuner already runs, if it runs one.
LiveReservation(R, d, l, w, t) ==
    LET running == ActiveLocator(R[t])
        r == NewReservation(d, l, IF w[1] > now THEN now ELSE w[1], w[2], "Live")
    IN  IF running = NoLocator THEN r ELSE [r EXCEPT !.serviceLocator = running]

\* Variant: the old Live is released before a tuner has been found.
ReserveLiveReleasesFirst(d, l, w) ==
    LET old == ExistingLive(reservations, d)
        plan == LivePlan(reservations, localTuner, d, l)
    IN  /\ Idle
        /\ old # NoToken => getReservation(reservations, old).state # "IDLE"
        /\ localTuner' = plan.local
        /\ connected' = connected \cup {d}
        /\ CASE plan.tuner = NoTuner -> Release({old} \ {NoToken})
             [] plan.tuner # NoTuner /\ old # NoToken ->
                   GrantAgain(old,
                       LiveReservation(Without(reservations, {old}), d, l, w, plan.tuner),
                       plan.tuner, d)
             [] OTHER ->
                   \E k \in FreshTokens :
                       GrantNew(k, LiveReservation(reservations, d, l, w, plan.tuner),
                                plan.tuner, d)
        /\ UNCHANGED <<pending, updates, sweep, history>>

\* Execute(ReserveTuner) for Live.  A request while the device's reservation
\* is still IDLE is refused and changes nothing.
ReserveLive(d, l, w) ==
    LET old == ExistingLive(reservations, d)
        plan == LivePlan(reservations, localTuner, d, l)
    IN  /\ Idle
        /\ old # NoToken => getReservation(reservations, old).state # "IDLE"
        /\ localTuner' = plan.local
        /\ connected' = connected \cup {d}
        /\ CASE plan.tuner = NoTuner -> UNCHANGED managerVars
             [] plan.tuner # NoTuner /\ old # NoToken ->
                   GrantAgain(old,
                       LiveReservation(Without(reservations, {old}), d, l, w, plan.tuner),
                       plan.tuner, d)
             [] OTHER ->
                   \E k \in FreshTokens :
                       GrantNew(k, LiveReservation(reservations, d, l, w, plan.tuner),
                                plan.tuner, d)
        /\ UNCHANGED <<pending, updates, sweep, history>>

\* TRUE in a step that gave token k its timers.
Granted(k) == timers'[k] = ArmedTimers

\* Execute(ReserveTuner) for Record without a token.
ReserveRecord(q, d, l, w) ==
    LET r == NewReservation(d, l, w[1], w[2], "Record")
        t == RecordTuner(reservations, l, w[1], now)
        live == RecordConflict(reservations, d, w[1])
        throws == RecordSearchThrows(reservations, l, w[1])
    IN  /\ Idle
        /\ Ask(q)
        /\ connected' = connected \cup {Recorder}
        /\ \/ /\ throws \/ (t = NoTuner /\ live = NoToken)
              /\ Decide(q, "refused")
              /\ UNCHANGED <<managerVars, localTuner, pending>>
           \/ /\ ~throws /\ t # NoTuner
              /\ localTuner' = LocalAfterRecord(reservations, localTuner, t)
              /\ \E k \in FreshTokens :
                    /\ GrantNew(k, r, t, Recorder)
                    /\ Decide(q, IF Granted(k) THEN "granted" ELSE "refused")
              /\ UNCHANGED pending
           \/ /\ ~throws /\ t = NoTuner /\ live # NoToken
              /\ pending' = IF attrs[live] = NoClient THEN pending
                            ELSE Append(pending, Pending("conflict", q, r,
                                     getParent(reservations, live), live, Recorder,
                                     attrs[live] \in connected'))
              /\ UNCHANGED <<managerVars, localTuner, verdicts>>
        /\ UNCHANGED <<updates, sweep>>

\* The recordings of device d on channel l.
RecordsOf(d, l) ==
    {k \in Tokens : \E t \in Tuners :
        /\ k \in OfActivity(reservations, t, "Record")
        /\ reservations[t][k].device = d
        /\ reservations[t][k].serviceLocator = l}

\* Variant: the search for the recording does not look at the channel.
RenewRecordOfAnyChannel(k, d, l, w) ==
    LET same == UNION {RecordsOf(d, m) : m \in Locators}
    IN  /\ Idle
        /\ same # {} /\ FirstInTuners(reservations, same) = k
        /\ GrantAgain(k, NewReservation(d, l, w[1], w[2], "Record"),
                      getParent(reservations, k), Recorder)
        /\ connected' = connected \cup {Recorder}
        /\ UNCHANGED <<localTuner, pending, updates, sweep, history>>

\* renewRecord of token k for device d and channel l: the first recording of
\* this device and channel has to be the token of the request, otherwise an
\* assertion refuses it.
RenewRecord(k, d, l, w) ==
    /\ Idle
    /\ RecordsOf(d, l) # {} /\ FirstInTuners(reservations, RecordsOf(d, l)) = k
    /\ GrantAgain(k, NewReservation(d, l, w[1], w[2], "Record"),
                  getParent(reservations, k), Recorder)
    /\ connected' = connected \cup {Recorder}
    /\ UNCHANGED <<localTuner, pending, updates, sweep, history>>

\* Execute(ReleaseTunerReservation)
ReleaseTunerReservation(k) ==
    /\ Idle
    /\ Releasable(k)
    /\ Release({k})
    /\ Emit(1)
    /\ UNCHANGED <<localTuner, pending, sweep, connected, history>>

-----------------------------------------------------------------------------
(* The timers of reservations, with the signals they emit.                 *)

\* One signal per retuned Live whose owner is reachable, one for the start.
StartTimer(k) ==
    /\ Idle
    /\ Start(k)
    /\ Emit(1 + Cardinality({j \in Retuned(StartedOn(k)) : attrs[j] \in connected}))
    /\ UNCHANGED <<localTuner, pending, sweep, connected, history>>

ExpireTimer(k) ==
    /\ Idle
    /\ Expire(k)
    /\ Emit(1)
    /\ UNCHANGED <<localTuner, pending, sweep, connected, history>>

Clock == Idle /\ Tick /\ UNCHANGED serverVars

\* Server::onDisconnected, or the empty message a proxy sends for a client.
Disconnect(c) ==
    /\ Idle
    /\ c \in connected
    /\ connected' = connected \ {c}
    /\ Release(tokensOfClient(c))
    /\ Emit(Cardinality(tokensOfClient(c)))
    /\ UNCHANGED <<localTuner, pending, sweep, history>>

-----------------------------------------------------------------------------
(* Granting what was pending: Execute(ReserveTuner, parentTunerId).        *)

\* Variant: the recording that starts at once is marked so at once.
AdjustedAndStarted(r, t) ==
    LET start == IF getState(reservations[t]) \in {"Free", "Live"} \/ r.startTime < now
                 THEN now ELSE r.startTime
    IN  [r EXCEPT !.startTime = start, !.state = "ACTIVE",
                  !.duration = IF start > EndTime(r) THEN 0 ELSE EndTime(r) - start]

\* On a tuner that is Free or only Live the recording starts at once; one
\* whose start has passed starts now; its end stays where it was.
Adjusted(r, t) ==
    LET start == IF getState(reservations[t]) \in {"Free", "Live"} \/ r.startTime < now
                 THEN now ELSE r.startTime
    IN  [r EXCEPT !.startTime = start,
                  !.duration = IF start > EndTime(r) THEN 0 ELSE EndTime(r) - start]

\* The grant, and what the pending list becomes when it works or throws.
GrantPending(p, gone, kept) ==
    \E k \in FreshTokens :
        /\ GrantNew(k, Adjusted(p.req, p.parent), p.parent, Recorder)
        /\ IF Granted(k) THEN pending' = gone /\ Decide(p.id, "granted")
           ELSE pending' = kept /\ UNCHANGED verdicts

\* Variant: a recording that yields to an emergency is not answered.
ConflictOutcomeSilent(p) ==
    IF Cardinality(getReservationTokens(reservations[p.parent])) = 1
    THEN "drop" ELSE "grant"

\* What PendingReserveTunerConflictProcessor::timeout does next, by what the
\* tuner of the Live in conflict holds by then.
ConflictOutcome(p) ==
    LET rs == reservations[p.parent]
        held == getReservationTokens(rs)
        only == rs[Min(held)]
        emergency == only.eas /\ only.serviceLocator # p.req.serviceLocator
        reachable == Recorder \in connected
    IN  CASE held = {} -> "grant"
          [] Cardinality(held) = 2 -> IF getState(rs) = "Hybrid" THEN "grant" ELSE "throw"
          [] Cardinality(held) > 2 -> "throw"
          [] Cardinality(held) = 1 /\ emergency -> IF reachable THEN "refuse" ELSE "throw"
          [] OTHER -> CASE only.activity = "Record" -> "throw"
                        [] only.activity = "Live" /\ reachable -> "cancelLive"
                        [] OTHER -> "drop"

\* timeout() of the conflict p, with the pending list it leaves behind when
\* it returns (gone) and when it throws (kept).
SettleConflict(p, gone, kept) ==
    LET outcome == ConflictOutcome(p)
    IN  \/ outcome = "grant" /\ GrantPending(p, gone, kept)
        \/ /\ outcome = "refuse"
           /\ pending' = gone /\ Decide(p.id, "refused") /\ UNCHANGED managerVars
        \/ /\ outcome = "cancelLive"
           /\ pending' = Append(gone,
                 Pending("cancelLive", p.id, p.req, p.parent, NoToken, Recorder, TRUE))
           /\ UNCHANGED <<managerVars, verdicts>>
        \/ outcome = "drop" /\ pending' = gone /\ UNCHANGED <<managerVars, verdicts>>
        \/ outcome = "throw" /\ pending' = kept /\ UNCHANGED <<managerVars, verdicts>>

\* The timer of pending[i] goes off: on an exception the request stays, and
\* its single-shot timer is spent.
Spent(i) == [pending EXCEPT ![i].armed = FALSE]

ConflictTimeout(i) ==
    /\ Idle
    /\ pending[i].type = "conflict" /\ pending[i].armed
    /\ SettleConflict(pending[i], removePendingRequest(i), Spent(i))
    /\ UNCHANGED <<localTuner, updates, sweep, connected, asked>>

CancelLiveTimeout(i) ==
    /\ Idle
    /\ pending[i].type = "cancelLive" /\ pending[i].armed
    /\ GrantPending(pending[i], removePendingRequest(i), Spent(i))
    /\ UNCHANGED <<localTuner, updates, sweep, connected, asked>>

\* Variant: the request is not removed once it is granted.
CancelLiveResponseKept(i) ==
    /\ Idle
    /\ pending[i].type = "cancelLive" /\ Recorder \in connected
    /\ GrantPending(pending[i], pending, pending)
    /\ UNCHANGED <<localTuner, updates, sweep, connected, asked>>

\* Execute(CancelLiveResponse): when the grant throws, nothing is removed.
\* A response that comes after the timeout finds no request and does nothing.
CancelLiveResponse(i) ==
    /\ Idle
    /\ pending[i].type = "cancelLive" /\ Recorder \in connected
    /\ GrantPending(pending[i], removePendingRequest(i), pending)
    /\ UNCHANGED <<localTuner, updates, sweep, connected, asked>>

-----------------------------------------------------------------------------
(* Manager::onReservationUpdated, one iteration of its loop per step.      *)

\* The Live of the conflict is gone or is now on the recorded channel.
ConflictGone(p) ==
    \/ ~isHeld(reservations, p.token)
    \/ getReservation(reservations, p.token).serviceLocator = p.req.serviceLocator

UpdateBegin ==
    /\ Idle
    /\ updates > 0
    /\ updates' = updates - 1
    /\ sweep' = IF pending = <<>> THEN 0 ELSE 1
    /\ UNCHANGED <<managerVars, localTuner, pending, connected, history>>

UpdateStep ==
    /\ sweep \in DOMAIN pending
    /\ sweep' = sweep + 1
    /\ IF pending[sweep].type = "conflict" /\ ConflictGone(pending[sweep])
       THEN SettleConflict(pending[sweep], [pending EXCEPT ![sweep].marked = TRUE], pending)
       ELSE UNCHANGED <<managerVars, pending, verdicts>>
    /\ UNCHANGED <<localTuner, updates, connected, asked>>

\* What was put on timedoutPending is removed, one request at a time.
UpdateRemove ==
    /\ sweep > Len(pending)
    /\ \E i \in DOMAIN pending :
          /\ pending[i].marked
          /\ \A j \in 1 .. i - 1 : ~pending[j].marked
          /\ pending' = removePendingRequest(i)
    /\ sweep' = sweep - 1
    /\ UNCHANGED <<managerVars, localTuner, updates, connected, history>>

UpdateEnd ==
    /\ sweep > Len(pending)
    /\ \A i \in DOMAIN pending : ~pending[i].marked
    /\ sweep' = 0
    /\ UNCHANGED <<managerVars, localTuner, pending, updates, connected, history>>

-----------------------------------------------------------------------------
(* CancelRecording                                                         *)

\* The owner of the Live cancels the recording that is still in conflict.
\* Without a recorder only the owner is answered, and the request stays.
CancelPendingRecording(i) ==
    /\ Idle
    /\ pending[i].type = "conflict" /\ pending[i].sent /\ Recorder \in connected
    /\ pending' = removePendingRequest(i)
    /\ Decide(pending[i].id, "refused")
    /\ UNCHANGED <<managerVars, localTuner, updates, sweep, connected, asked>>

\* CancelRecording of a granted token: it is pending before it is forwarded,
\* so with no recorder the client is told at once and the request stays.
CancelRecording(q, c, k) ==
    /\ Idle
    /\ Ask(q)
    /\ isHeld(reservations, k) /\ getReservation(reservations, k).activity = "Record"
    /\ connected' = connected \cup {c}
    /\ pending' = Append(pending, Pending("cancelRecording", q, NoReservation, NoTuner,
                                         k, c, Recorder \in connected'))
    /\ IF Recorder \in connected' THEN UNCHANGED verdicts ELSE Decide(q, "refused")
    /\ UNCHANGED <<managerVars, localTuner, updates, sweep>>

\* Variant: the request is not removed once it is answered.
CancelRecordingResponseKept(i) ==
    /\ Idle
    /\ pending[i].type = "cancelRecording" /\ pending[i].sent /\ Recorder \in connected
    /\ isHeld(reservations, pending[i].token) /\ pending[i].client \in connected
    /\ Release({pending[i].token})
    /\ Emit(1)
    /\ Decide(pending[i].id, "granted")
    /\ UNCHANGED <<localTuner, pending, sweep, connected, asked>>

\* Execute(CancelRecordingResponse): the request is gone before the answer is
\* passed on, and the token is released only if passing it on worked.
CancelRecordingResponse(i) ==
    LET p == pending[i]
    IN  /\ Idle
        /\ p.type = "cancelRecording" /\ p.sent /\ Recorder \in connected
        /\ isHeld(reservations, p.token)
        /\ pending' = removePendingRequest(i)
        /\ IF p.client \in connected
           THEN /\ Release({p.token})
                /\ Emit(IF Releasable(p.token) THEN 1 ELSE 0)
                /\ Decide(p.id, "granted")
           ELSE UNCHANGED <<managerVars, updates, verdicts>>
        /\ UNCHANGED <<localTuner, sweep, connected, asked>>

\* PendingCancelRecordingProcessor::timeout throws without the client.
CancelRecordingTimeout(i) ==
    LET p == pending[i]
        reachable == p.client \in connected
    IN  /\ Idle
        /\ p.type = "cancelRecording" /\ p.armed
        /\ IF reachable THEN pending' = removePendingRequest(i) /\ Decide(p.id, "refused")
           ELSE pending' = Spent(i) /\ UNCHANGED verdicts
        /\ UNCHANGED <<managerVars, localTuner, updates, sweep, connected, asked>>

\* Any other message: it only puts its client into connectionClientMap.
Connect(c) ==
    /\ Idle
    /\ c \notin connected
    /\ connected' = connected \cup {c}
    /\ UNCHANGED <<managerVars, localTuner, pending, updates, sweep, history>>

-----------------------------------------------------------------------------

Request ==
    \/ \E d \in Devices, l \in Locators, w \in Programmes : ReserveLive(d, l, w)
    \/ \E q \in RecordIds, d \in Devices, l \in Locators, w \in Programmes :
           ReserveRecord(q, d, l, w)
    \/ \E k \in Tokens, d \in Devices, l \in Locators, w \in Programmes :
           RenewRecord(k, d, l, w)
    \/ \E k \in Tokens : ReleaseTunerReservation(k)
    \/ \E q \in CancelIds, c \in Clients, k \in Tokens : CancelRecording(q, c, k)

ReservationTimer ==
    \E k \in Tokens : StartTimer(k) \/ ExpireTimer(k)

PendingTimeout(i) ==
    ConflictTimeout(i) \/ CancelLiveTimeout(i) \/ CancelRecordingTimeout(i)

Answer ==
    \E i \in DOMAIN pending :
        CancelLiveResponse(i) \/ CancelPendingRecording(i) \/ CancelRecordingResponse(i)

Update == UpdateBegin \/ UpdateStep \/ UpdateRemove \/ UpdateEnd

TRMNext ==
    \/ Request
    \/ ReservationTimer
    \/ \E i \in DOMAIN pending : PendingTimeout(i)
    \/ Answer
    \/ Update
    \/ Clock
    \/ \E c \in Clients : Connect(c) \/ Disconnect(c)

TRMSpec == TRMInit /\ [][TRMNext]_vars

\* The event loop runs the armed timer of every pending request and every
\* queued signal in the end.  Nothing is assumed of the clients, nor of the
\* timers of reservations.
FairTRMSpec ==
    /\ TRMSpec
    /\ WF_vars(Update)
    /\ \A q \in RecordIds \cup CancelIds :
          SF_vars(\E i \in DOMAIN pending : pending[i].id = q /\ PendingTimeout(i))

-----------------------------------------------------------------------------

(* What the server promises.                                               *)

PendingRequests ==
    [type : {"conflict", "cancelLive", "cancelRecording"}, id : RecordIds \cup CancelIds,
     req : Reservation \cup {NoReservation}, parent : Tuners \cup {NoTuner},
     token : Tokens \cup {NoToken}, client : Clients,
     sent : BOOLEAN, armed : BOOLEAN, marked : BOOLEAN]

TRMTypeOK ==
    /\ TypeOK
    /\ localTuner \in Tuners
    /\ pending \in Seq(PendingRequests)
    /\ updates \in 0..MaxUpdates
    /\ sweep \in 0..(Len(pending) + 1)
    /\ connected \subseteq Clients
    /\ asked \subseteq RecordIds \cup CancelIds
    /\ verdicts \in [RecordIds \cup CancelIds -> Seq({"granted", "refused"})]

\* Every handler of the server, with the tuner, the channel and the moment it
\* chooses, is a step the Manager's bookkeeping allows any caller: what is
\* proved of that bookkeeping holds in the server.
ImplementsManager == Spec

\* "A device can only have 1 L token, either active or pending": the comment
\* above the assertion with which reserveLive picks the token to renew.
OneLivePerDevice ==
    \A d \in Devices : \A j, k \in LiveTokens(reservations, d) : j = k

\* The pending entries that stand for request q.
PendingFor(q) == {i \in DOMAIN pending : pending[i].id = q /\ ~pending[i].marked}

\* A Record request is decided at most once, and never while it is pending:
\* whichever of the user, the recorder, the timers and the loop of
\* onReservationUpdated gets there first, the others find nothing to do.
OneVerdict ==
    \A q \in RecordIds :
        /\ Len(verdicts[q]) <= 1
        /\ PendingFor(q) # {} => verdicts[q] = <<>>
        /\ \A i, j \in PendingFor(q) : i = j

\* A Record request that waits leaves pendingRequests only with an answer, or
\* because there is no recorder to send one to: none of the timeouts, answers
\* and passes of onReservationUpdated drops the request of another silently.
NoneForgotten ==
    [][\A q \in RecordIds :
          PendingFor(q) # {} /\ PendingFor(q)' = {} =>
              verdicts'[q] # verdicts[q] \/ Recorder \notin connected]_vars

\* Once a client is told that its recording is cancelled it is never told that
\* it is not: neither the timeout of CancelRecording nor a missing recorder
\* contradicts the answer of the recorder, before or after it.
CancelIsFinal ==
    \A q \in CancelIds :
        (\E n \in DOMAIN verdicts[q] : verdicts[q][n] = "granted") =>
            Len(verdicts[q]) = 1 /\ PendingFor(q) = {}

\* "A same reservationToken can be reused if and only if values of {device,
\* activity} are the same" (TunerReservation.h).  The Manager does not look at
\* either; it is the handlers that never pass on a token: reserveLive reuses
\* the one its filters find, renewRecord the one of the request if it is the
\* one its filters find, and a Live that is retuned keeps both.
TokenKeepsOwner ==
    [][\A k \in Tokens, t, u \in Tuners :
          reservations[t][k] # NoReservation /\ reservations'[u][k] # NoReservation
          => /\ reservations'[u][k].device = reservations[t][k].device
             /\ reservations'[u][k].activity = reservations[t][k].activity]_vars

\* k is a Live of another device than the host, on tuner t.
RemoteLiveOn(R, t, k) ==
    /\ R[t][k] # NoReservation
    /\ R[t][k].activity = "Live" /\ R[t][k].device # HostDevice

\* The host has a Live on tuner t.
HostLiveOn(R, t) == \E k \in LiveTokens(R, HostDevice) : R[t][k] # NoReservation

\* A remote Live is never granted the tuner set aside for the host: when the
\* two come together on a tuner, it is the host's claim that comes, and it
\* comes to a Live that has not started (the tuner still counts as Free or
\* as recording), or to a tuner that the host has a Live on itself.  Once they
\* share the tuner, the remote device may be granted it again, for another
\* channel too.
RemoteAvoidsLocalTuner ==
    [][\A t \in Tuners, k \in Tokens :
          /\ RemoteLiveOn(reservations', t, k) /\ localTuner' = t
          /\ ~(RemoteLiveOn(reservations, t, k) /\ localTuner = t)
          => /\ reservations[t][k] # NoReservation
             /\ reservations[t][k].state = "ACTIVE" => HostLiveOn(reservations, t)]_vars

\* The Lives of other devices on a tuner that is running something.
Rivals(R, d) ==
    {k \in Tokens : \E t \in Tuners :
        /\ getState(R[t]) # "Free"
        /\ k \in OfActivity(R, t, "Live") /\ R[t][k].device # d}

\* reserveLive releases the device's old Live without a signal before it adds
\* the new one, and the addition may throw: the device has lost its Live and
\* nobody is told.  That is the only way to lose one silently, and it takes
\* the Live of another device on a tuner that runs something: a viewer alone
\* keeps its Live through every request that is refused or fails.
SilentLossHasARival ==
    [][\A d \in Devices :
          /\ LiveTokens(reservations, d) # {} /\ LiveTokens(reservations', d) = {}
          /\ updates' = 0
          => Rivals(reservations', d) # {}]_vars

\* What makes addReservation refuse to put recording k back on tuner t: next
\* to it the tuner runs something and has a recording of another channel, or
\* it runs more than it should.
RenewalRival(t, k) ==
    LET running == ActiveTokens(reservations[t]) \ {k}
    IN  \/ /\ running # {}
           /\ \E j \in OfActivity(reservations, t, "Record") \ {k} :
                 reservations[t][j].serviceLocator # reservations[t][k].serviceLocator
        \/ Cardinality(running) > 2

\* renewRecord releases the recording without a signal before it adds it again
\* on the same tuner, and the addition may throw: the recording has lost its
\* timers and its owner, and no pending request is looked at again.  That is
\* the only way to lose one silently, and it takes another recording, of
\* another channel, on a tuner that runs something (or a tuner that runs three
\* things): a recorder that renews in time keeps a recording that is alone.
RenewalLossHasARival ==
    [][\A t \in Tuners : \A k \in OfActivity(reservations, t, "Record") :
          timers[k] # NoTimers /\ timers'[k] = NoTimers /\ updates' = 0
          => RenewalRival(t, k)]_vars

\* The handler that was to settle request q has thrown, and the single-shot
\* timer that would have tried again is spent.
Stranded(q) == \E i \in DOMAIN pending : pending[i].id = q /\ ~pending[i].armed

\* Every Record request that is made to wait is answered, unless the recorder
\* disconnects before that or an assertion strands it (see LastChanceTaken):
\* conflicts, their timeouts and the cancellation of the Live in between come
\* to an end, and no request of a recorder that stays disappears unanswered.
Answered ==
    \A q \in RecordIds :
        PendingFor(q) # {} ~> \/ verdicts[q] # <<>>
                              \/ Stranded(q)
                              \/ Recorder \notin connected

-----------------------------------------------------------------------------
(* What the repository's comments and documents say, and the code does not. *)

\* "if two reservations overlap, they should have same source id": no two
\* recordings of different channels overlap on one tuner.
NoDoubleBooking ==
    \A t \in Tuners : \A j, k \in OfActivity(reservations, t, "Record") :
        isOverlap(reservations[t][j], reservations[t][k]) =>
            reservations[t][j].serviceLocator = reservations[t][k].serviceLocator

\* "If tuner state is hybrid, make sure the sourceIds of LIVE and RECORD are
\* same": once no start on the tuner is outstanding, every ACTIVE Live of a
\* Hybrid tuner is on a channel the tuner is recording.
HybridInSync ==
    \A t \in Tuners :
        LET rs == reservations[t]
            due == {k \in getReservationTokens(rs) :
                       rs[k].state = "IDLE" /\ rs[k].startTime <= now}
        IN  getState(rs) = "Hybrid" /\ due = {} =>
                \A k \in TokensOf(rs, "Live", "ACTIVE") :
                    \E j \in TokensOf(rs, "Record", "ACTIVE") :
                        rs[k].serviceLocator = rs[j].serviceLocator

\* "regardless cancellation success or failure, it is last change to grant
\* record token": once the wait for the Live to be cancelled is over, the
\* Record request is no longer pending.
LastChanceTaken ==
    \A i \in DOMAIN pending : pending[i].type = "cancelLive" => pending[i].armed

=============================================================================
