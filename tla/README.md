# A TLA+ model of the Tuner Resource Manager

TRM is a server that shares the tuners of a set-top box between viewers (the
box itself, the *host*, and remote devices) and a recorder. A client asks for a
tuner for a programme; the server grants a reservation, identified by a token,
on some tuner, starts and expires it with timers, and negotiates when a
recording needs a tuner that somebody is watching. Remote clients reach it
through a WebSocket proxy, and a diagnostic process asks it for its state. This
directory holds specifications of these programs, TLC models that check them,
and machine-checked proofs of what holds for every size.

## The system

| Part | State | Operations | What is hard about it |
|---|---|---|---|
| Tuner (`common/src/Tuner.cpp`) | map token -> reservation | `addReservation`, `releaseReservation`, derived `getState`, `getServiceLocator`, `getEndTime` | the state is derived from the ACTIVE reservations only; two assertions, one of them after the insertion |
| Manager (`qtapp/srv/Manager.cpp`, `ReservationTimerTask.cpp`) | tuners, three timer maps, attributes, pending requests, `localTuner` | add, release, set attributes, start / expire tasks, pending requests | four maps filled and erased one after the other, with throws in between; timers race requests |
| Executors (`qtapp/srv/Executors.cpp`, `Filter.cpp`) | none of their own | one `Execute` per message; `reserveLive`, `reserveRecord`, `renewRecord`, conflict searches | chains of searches with fallbacks; exceptions decide what is answered |
| Server (`qtapp/srv/Server.cpp`) | `connections`, `connectionClientMap` | new connection, message, disconnection | disconnections arrive through a queue, possibly after the client is back |
| Connection (`qtapp/common/Connection.cpp`, `Header.cpp`) | framing state, buffer | `onReadyRead`, `onDisconnected` | chunks of any size, empty payloads, re-entrant `readyRead` |
| Messages (`common/src/JanssonParser.cpp`, `JsonDecoder.cpp`) | none | an encoder and a decoder per class | hand-written twice, key by key |
| Timers (`qtapp/srv/Timer.cpp`, `QtTimer.h`) | deadline, task, a `QTimer` | `schedule`, `cancel`, `onExpiration` | a 64-bit deadline and an int interval; early expirations; a clock that is set; tasks that delete their own timer |
| WebSocket proxy (`wsproxy/main.cpp`, `qt_websocketproxy.cpp`) | web sockets, map to client ids, ping-pong tasks, one link to the server | callbacks of the sockets; the listener's lookup, write, reset and reconnection | two threads and no lock; addresses used again; ids across a restart of the server |
| Diagnostic client (`diag/TRMMgr.cpp`, `Helper.cpp`) | socket, flag, last text, list of devices | calls that post and poll; a reader thread | three threads and no lock; answers are not matched to requests |
| FastCGI proxy, GUI, utilities | | | not modelled, see below |

The server is one Qt event loop. A slot or a timer task runs to completion
before the next, so it is one atomic action; the interleaving is between
handlers, whose order nothing fixes, and through the two *queued* signals
(`reservationUpdated`, `disconnected`), which are handled in a later iteration
against a state that has changed. `Assert` throws, and which `catch` it lands
in decides what is left behind; the models keep every such path.

The proxy and the diagnostic client do have threads. Their `AutoLock()`,
`HelperLock()` and `TRMMgrLock()` expand to `AutoLock_ a()` and the like, which
declares a function and constructs no object, so no mutex is ever taken; the
models interleave the threads accordingly.

## The modules

    Tuner --> Manager --> Policy --> TRM --------+        Server      Codec    QtTimer        Proxy       Diag
                            |         |          |         |  |         |       |  |          |  |        |
                     ManagerProofs    |        MCTRM       | MCServer MCCodec   | MCQtTimer   | MCProxy MCDiag
                            |         |               ServerProofs  CodecProofs QtTimerProofs ProxyProofs DiagProofs
                            +--- TRMHandlers
                                      |
                                  TRMProofs              (lines: is extended by; MCManager extends Manager)

    TRM implements Manager; Manager implements Token; QtTimer implements Alarm

**Tuner** - one tuner as a function from tokens to reservations. Tokens are
naturals; their order is the order in which the `std::map` is walked, so "the
first hit" is `Min`. `Clashes` and `Overfull` are the two assertions
of `addReservation`, `Inserted` what is in the map afterwards, thrown or not;
`syncHybrid` is the retuning of Lives on a tuner that also records.

**Manager** - the bookkeeping for *any* caller: `reservations`, `timers`,
`attrs`, `now`. `GrantNew` and `GrantAgain` are `addReservation` followed by
`setReservationAttributes`, the latter after a release of the same token (a
renewal, a channel change) for whatever device and activity the caller says; `Release`, `Start` and `Expire` are the other
handlers. Timers are two booleans per token: armed, or spent.

**Token** - what the Manager promises, with no tuners, timers or maps: a token is
free, granted, running, or an *orphan*, which a tuner kept when the grant threw
and which nothing can remove; it has one owner, and a client that leaves frees
all it owns. `Manager` maps its four maps to `life` and `owner`
(`ImplementsToken`).

**QtTimer** - one timer from its construction by the Manager to its deletion.
`schedule` clamps the interval to 31 bits, `ExpireEarly` schedules again without
the clamp, `AsInt` is the conversion to the int that `QTimer::start` takes.
`Tick` lets a millisecond pass for the `QTimer` and on the wall clock, `SetClock`
sets the wall clock only. `AfterDeletion` tells the two ways in which the Manager
deletes a timer: the one of a reservation through a queued signal, the one of a
pending request at once.

**Alarm** - what the Manager takes a timer to be: a deadline that is served at most
once, never early, never after it was cleared. `Manager` and `TRM` model timers
that way, with any delay; `ImplementsAlarm` justifies it.

**Policy** - how a tuner is chosen. `LivePlan` is `reserveLive` (with the moves
of `localTuner`), `RecordTuner` is `reserveRecord`, `RecordConflict` the search
for the Live that has to yield. One operator per search of the code, in order.

**TRM** - the server: handlers of requests and answers, pending requests
(`pending`, oldest first) with their timeouts, the loop of
`onReservationUpdated`, one iteration per step (`UpdateBegin`, `UpdateStep`,
`UpdateRemove` for each request that was settled, `UpdateEnd`; no other handler
runs in between), connections and disconnections.
The histories `asked` and `verdicts` record which requests were made and what
was decided on each. `ImplementsManager` says that TRM implements Manager.

**Server** - bytes and connections. A frame is a header and a payload; `Arrive`
moves any number of bytes to the socket; `NotEnoughData`, `ReadHeader` and
`ReadPayload` are one call each of `onReadyRead`, which calls itself through
`emit readyRead`; `reading` keeps everything else out until it returns.
`onMessageReceived` and `onDisconnected` maintain `connectionClientMap`; `holds`
is what the Manager holds, reduced to the clients that own something.

**Codec** - each class of message is a *format*: its members and their types,
which keys are left out when empty, without which the reader throws, which are
never written or read. `JsonEncode` and `JsonDecode` interpret the formats; the
parts with code of their own (`Activity`, `TunerReservation`,
`DetailedTunerState`, filters, events) have an encoder and a decoder each. A
sender constructs a message, sets its members (`Compose`) and writes it; `Fits` says
what the members of a type can be.

**Proxy** - the main thread (`onNewConnection`, messages, disconnections, ping-pong
timeouts, posted events), the listener thread (`TRM_response_listener`, one step
per entry of the map it walks) and the server at the other end of the link. The
map `connections` goes from the address of a web socket to a client id; addresses
are used again after a deletion. `Stale` is an iterator whose entry was erased: it
may go on or crash the process.

**Diag** - main, the thread that serves IARM calls, and the reader. A call clears the
flag, posts, polls and returns (`Try`, `Write`, `Poll`, `WaitEnds`, `Return`); the
reader (`Top` to `Rebuild`) takes whatever comes for the answer. `undisturbed`
and `together` are histories: which calls had the library to themselves, and
whether two threads were ever connecting at a time.

`PROJECT.json` maps every definition to its lines in `src/`. Definitions marked
*Variant* are plausible mistakes: with the variant in the place of the original,
the run must fail, which shows that the property can fail at all.

## What is checked

| Run | Instance | Shows |
|---|---|---|
| `manager` | 2 tuners, 4 tokens, 1 programme | the four maps agree (`TypeOK`, `TokenOnOneTuner`, `NoDanglingToken`, `TimersFollowState`, `OnlyTimedRun`), a token that is to end by some moment does not stay for ever, however often it is renewed within that (`TimedTokenEnds`; an owner who keeps putting off the end keeps the token), and every token lives the life of module Token (`ImplementsToken`) |
| `conflict` | 1 tuner, 2 Record requests, 4 tokens | a Record request is decided at most once and never while still pending (`OneVerdict`); a request that waits leaves the list only with an answer, or for want of a recorder (`NoneForgotten`); a recording loses its timers without a signal only in a renewal, and with another channel's recording next to it on a tuner that runs something (`RenewalLossHasARival`) |
| `host` | 2 tuners, host, remote, recorder, 3 channels, 3 tokens | a remote Live is never granted the host's tuner: where the two meet, the claim has come to a Live that has not started or to a tuner the host is on (`RemoteAvoidsLocalTuner`); a token never passes to another device or activity (`TokenKeepsOwner`); a device has one Live at most (`OneLivePerDevice`) and loses it without a signal only when another device's Live stands in the way (`SilentLossHasARival`); `TRMTypeOK` |
| `cancel` | 1 tuner, 1 Record, 1 CancelRecording, an emergency channel | "cancelled" is never taken back or contradicted (`CancelIsFinal`); TRM implements Manager (`ImplementsManager`); a Record request that waits is answered in the end, unless the recorder leaves or an assertion strands it (`Answered`) |
| `server` | 2 connections, 2 clients, 3 frames | framing: `DeliveredAsSent`, `NothingLeftUnread`; map: `NoDanglingConnection`, `OwnersAreKnown`, `OnlyTheGoneAreForgotten`; `GoneReleased`; `ServerTypeOK` |
| `codec` | 28 classes, each member empty and not | `NothingElseLost`, `OpenEndedLiveFits` |
| `timer` | an int up to 3, a clock up to 9, 3 schedules, 2 settings of the clock | a timer is an alarm (`ImplementsAlarm`), on time while the clock is not set (`Punctual`), not stuck after an early expiration (`WithinReachEnds`) |
| `proxy` | 2 addresses, 2 clients, 2 links to the server, 1 reply under way | the map names listed sockets (`EntriesAreSockets`); the server forgets clients that go (`ServerForgetsTheGone`); no id survives a restart of the server (`NoCarryOver`); a reply reaches the wrong client only after the right one is gone (`NoReplyStolen`); a client the reset has dropped is closed, with two exceptions (`MuteIsClosed`); a silent client is disconnected (`SilentEvicted`) |
| `diag` | 2 calls of two kinds, 1 notification, 1 loss of the server | an undisturbed call gets its own answer, with two exceptions named in the property (`RightAnswer`); as long as no two threads connect at a time, flag, socket and reader agree (`SyncWhenAlone`) and the reader always comes back (`KeepsListening`); every call returns (`CallsReturn`) |

Three runs look for a counterexample to something the repository says, and find
it; the findings in `PROJECT.json` quote the lines.

| Run | What happens |
|---|---|
| `double_booking` | a renewal that releases the only ACTIVE reservation makes its tuner Free, so the overlap check is skipped and two recordings of different channels overlap on one tuner |
| `hybrid_sync` | with back-to-back recordings the Live of a Hybrid tuner stays on the channel that is no longer recorded |
| `last_chance` | the grant at the end of the wait for a Live to be cancelled throws, and the Record request stays pending with no timer |

Observed while modelling, with no run of their own. The behaviours of Proxy and
Diag named here are all reachable in their runs, and are the exceptions that the
properties make:

- `reserveRecord` moves the host's claim (`localTuner`) to a tuner that is Free only
  because its remote Live has not started yet (`Executors.cpp` 1139; `TunerState.h`
  100-102 says that no other device has a Live there). The remote device may then be
  granted that tuner again, for another channel too (`Executors.cpp` 462).
  `RemoteAvoidsLocalTuner` says how the two can meet;
- `reserveLive` releases the old Live silently and the addition of the new one may
  throw (`Executors.cpp` 756): the Live is gone and nobody is told.
  `SilentLossHasARival` says when. `renewRecord` does the same to a recording
  (`Executors.cpp` 847); `RenewalLossHasARival` says when;
- the expiration of a pending request's timer writes to the object that its task has
  deleted (`QtTimer.h` 95, `Manager.cpp` 530-542);
- a client that the proxy accepts between the closing of the others and
  `connections.clear()` (`wsproxy/main.cpp` 165) stays connected and mute;
- a reply may be written to a new client whose socket got the address of one that
  is gone: the check at `qt_websocketproxy.cpp` 809 knows addresses only;
- an iterator of the listener may be at an entry that the main thread erases;
- the diagnostic client takes a notification, or the late answer to an earlier
  call, for the answer to the call that waits; `GET_TRM_VERSION` that failed is
  reported with `TRMMgr_ERR_NONE` and no text (`TRMMgr.cpp` 274). An answer with
  an error status sets the flag and leaves the list of devices as it was
  (`Helper.cpp` 505-538), so a refused request returns the list of an earlier one
  with `TRMMgr_ERR_NONE`;
- when a call and the reader, or a call and `init`, are in `connect_to_trm` at a
  time, the second fails on the socket of the first and closes it while
  the reader is blocked in `read`: `is_connected` stays 1, `trm_diag_fd` is -1, and
  every call times out until the server goes away;
- a payload of `MAX_PAYLOAD_LEN` or more is not taken from the socket, and the
  following headers are read from the middle of it;

and, in `JanssonParser.cpp` unless named:

- the activity filter of `GetAllReservations` is written as a string (1225) and
  read only as `{"name": ...}` (1266-1272), so it is lost; the event decoder of
  `GetTRMConnectionEvents` assigns nothing (2225-2242); `CancelLiveResponse`
  does not write its channel; `UpdateTunerActivityStatusResponse` has an encoder
  and no dispatch; a tuner whose list of reservations is empty is missing from what
  is read of `GetAllReservationsResponse` (1363-1373). In `GetAllTunerStatesResponse`
  the detailed states are read last and overwrite `allStates` where they differ (1161-1178). `NothingElseLost`
  states that these, and the ids of two notifications, are the only losses;
- a `ReserveTuner` without `device` is not refused: the decoder returns early and
  a default-constructed message is processed (489-492);
- a Record that waited is granted to the recorder although it has disconnected
  (`Executors.cpp` 1719-1730), hence the exception for the recorder in
  `OwnersAreKnown` and `GoneReleased`;
- a client that is back before the queued disconnection of its old connection is
  handled is answered on the old connection, and what it was granted is released
  with it (`Server.cpp` 85-119, 142-146). The map stays sound, which is what
  `OwnersAreKnown` and `NoDanglingConnection` show.

### Bounds

Tokens, tuners, devices, clients, channels and request ids are small sets.
`MaxTime` ends the clock; windows end within it or just after, and since a timer
may fire at any time after its deadline, one or two instants order all events.
`MaxUpdates` caps the queue of `reservationUpdated`: the handler reads the
current state and not the signal, so a second queued signal adds nothing but one
more later pass. One tuner is enough for conflicts (the negotiation concerns the
tuner of one Live); two are needed for `localTuner` and for a token to be in two
places. Four tokens allow two Lives of history besides two recordings.

`Answered` needs a word. With one Record request, as in run `cancel`, nothing can
strand it. With two, the handler that settles the second may throw because the
first has taken the tuner; run `last_chance` shows it, and without the disjunct
`Stranded` the property is false. In the form stated it also holds with two
requests: with the constants of `conflict`, `MaxTime` 0 and no symmetry TLC finds no
error in 104,336 states (it takes too long to be among the runs). `NoneForgotten` is its safety part and is checked with two
requests in `conflict`. In `host` the clock stands still (`MaxTime` 0): a
programme starts at once and does not end, so that a Live goes by a request, a
conflict or a disconnection; the other runs let them expire. What `host`,
`conflict` and `cancel` check of TRM beyond `Answered` is also proved, so
their bounds only decide how soon a mistake in the model shows. In
`server`, `MaxConns = 2` and `MaxFrames = 3` are what a client needs to come back
while its old connection is still known; a header of 2 bytes and payloads of 0
or 2 can be cut inside and between all parts. Channels and Record requests are
interchangeable, which the safety runs use as symmetry; not where one channel is
the emergency channel, and not with liveness.

In `timer` the int reaches up to 3, so intervals below, at and beyond its width, and
beyond twice its width, all occur within a clock of 9; two settings of the clock
allow one back and one forth within a single wait. In `proxy` two addresses make an
iterator that has an entry before and after it and a second client at a
used address; two links are one restart of the server. `PingLimit` is 5 in the
code and 2 here: one timeout that is not the last. In `diag`, `Tries` is 5 in the code
and 2 here, `Polls` 500 and 1, which are again "not the last" and "the last" of a loop
that does the same in each round.

### Fairness

Manager: the clock advances and an expire timer that stays due is served (weak).
TRM: the timeouts of pending requests are strongly fair, because the loop of
`onReservationUpdated` is split into steps that disable them for its duration;
in the code that loop is one slot, and a Qt timer that is due fires once
the slot returns. Queued signals are weakly fair. Server: a running read goes on,
a closed socket is noticed, a queued disconnection is handled (weak). Nothing is
assumed of clients, nor of the clock and the reservation timers in TRM. QtTimer: time
passes and a `QTimer` that has run out is served (weak). Proxy: a closed socket
reports it or the ping-pong timer of its client runs out (weak, for each address);
nothing is assumed of the listener, of clients or of the server. Diag: each thread keeps
running (weak), which its sleeps and the operating system guarantee, and a server
that went away is started again. A spent
timer never fires again, which is how `last_chance`
comes about. Deadlock is checked except where the system may stop: in `codec` the
life of a message ends when it has been read, in `timer` the timer may stay unused,
in `proxy` the process may crash, and in `diag` it may be killed, or all its threads
may be waiting for calls that nobody makes.

## What is proved

`ManagerProofs` proves with TLAPS, for all sets of tokens and tuners that are
naturals and any devices, clients, channels and windows of naturals, that
the specification of Manager implies

- `TypeCorrect`, `OneTunerPerToken`, `NothingDangles`, `TimersAgree`,
  `NothingRunsUntimed`: the five invariants of run `manager`;
- `ManagerKeepsLives`: the Manager implements Token.

`TRMProofs` proves of the server, for any number of tuners, devices, channels,
programmes, tokens, requests and clients,

- `ServerImplementsManager`: every handler, with the tuner, channel and moment it
  chooses, is a step of the Manager or leaves it alone, so that the theorems above
  hold in the server (`BooksKept`);
- `DecidedOnce`, `NoRequestForgotten`, `CancelFinal`: what becomes of requests that
  wait, the properties `OneVerdict`, `NoneForgotten` and `CancelIsFinal`;
- `OneLive`, `HostTunerKept`, `NoSilentLossAlone`: what becomes of Lives, the
  properties `OneLivePerDevice`, `RemoteAvoidsLocalTuner` and `SilentLossHasARival`;
- `NoRenewalLostAlone`: what becomes of recordings, `RenewalLossHasARival`;
- `TokensKeepTheirOwner`: `TokenKeepsOwner`. It is a theorem about the server because
  it is false of the Manager alone, which puts a token back for any caller;
- `ServerTyped`: the types.

That is every safety property of the runs `host`, `conflict` and `cancel`.

`QtTimerProofs` proves for every width of the int, every
accuracy of the `QTimer` and all deadlines that timers are punctual
(`TimersArePunctual`) and that a timer implements Alarm (`TimerIsAnAlarm`).

`ServerProofs` proves, for any clients and connections and every header length,
payload length and cutting into chunks, all the safety properties of run `server`:
`FramesDelivered`, `AllRead`, `MapNamesConnections`, `OwnersHaveAnEntry` and
`ForgottenWereGone`, with the types (`TransportTyped`). `ProxyProofs` proves, for
any addresses and any number of clients, links and replies, those of run `proxy`:
`MapNamesSockets`, `ServerForgets`, `IdsEndWithTheLink`, `RepliesNotStolen` and
`ResetLeavesNobody`. `DiagProofs` proves, for any number of calls, sockets, losses,
notifications, tries and polls, those of run `diag`: `ConnectionInStep` and
`AnswersAreRight`. `CodecProofs` proves, for any strings, any values of the members and
any clock, both of run `codec`: `MessagesSurvive` and `OpenEndedLivesFit`.

The assumptions are the named `ASSUME`s of Tuner, Manager, Policy, TRM, QtTimer,
Server, Proxy, Diag and Codec, which TLC also evaluates in the runs. Those of Policy and TRM that
are not about the kind of a constant: there is a last tuner (the search with no
break takes it) and with it a first; the tokens are finitely many (a disconnection
emits as many signals as the client has tokens); request ids of the two kinds
differ; and the windows contain what a request becomes when its start is moved to
the present (`WindowsMove`). Those of Codec: what senders put into a member fits its
type, in particular strings are not the pointer NULL and a tuner has owners only with a
channel; and the clock leaves room below the largest integer.

In `ManagerProofs` the inductive invariant `Inv` is the conjunction of the five. None is inductive
alone: a release finds its tuner as the first that holds the token, so it erases
the right entry only if there is no second (`TokenOnOneTuner`); the timer tasks
find their token only if nothing dangles; the start task keeps `TimersFollowState`
only if what is armed is IDLE; and a reservation that lost its timers when an
assertion threw half way must never have run, or retuning could touch it. A
renewal passes through maps that no state has, those between its release and its
addition. `Inv` is therefore restated as `Consistent(R, T, A)` over arbitrary maps;
`ReleaseConsistent` and `AddConsistent` show that a release and an addition, a
throwing one included, keep it, and each action is a composition of the two.
`MinInSet` (walks find a first element), `ParentHolds`, `InsertedMap`,
`HybridRecords` and `SyncMap` are the facts about one tuner.

`ManagerKeepsLives` needs `Inv` because a token's life is read off two maps: only
while those agree does a change in one of them change the life in the way Token
allows. Each action is shown to be one step of Token (`GrantIsGiveOrRefuse`,
`ReleaseOneIsEnd`, `ReleaseClientIsLeave`, `StartIsRun`, `ExpireIsEnd`), all but the
release of a client through `OneTokenBecomes`, a change at one token.

The invariant of the server (`TRMInv`) has four parts: `Inv`; the types of the
server's own variables (`ServerOK`); `OneLivePerDevice`; and `Waits`, about the list
of pending requests. The last is where the work is. `OneVerdict` alone is not
inductive: a verdict on a request that waits twice, or on one already answered,
would break it. `Waiting(s, v, a, w)` says of a list `s`, verdicts `v`, ids asked for
`a` and a position of the loop `w`: whoever waits was asked for and is undecided;
no two entries that are not marked stand for one request; and only entries the loop
has passed are marked. It takes the four as parameters because a handler changes
them one after the other, and each change has a lemma (`RemoveWaiting`,
`MarkWaiting`, `SpendWaiting`, `AppendWaiting`, `DecideWaiting`); the
first half of `TRMHandlers` composes them into one lemma per handler. The list is taken apart with `SubSeq` and
`\o` and not with a filter, whose recursive definition the prover cannot use.

Its second half shows that every handler except `reserveLive` is a step of the Manager
that adds no Live, takes one away only with a signal in the queue, leaves every token
its device and activity, and moves the host's claim only to a tuner that runs no Live
(`Quiet`): with `Inv`, the properties of Lives and tokens follow. A renewed recording
has what `RecordsOf` looks for, so its token keeps its owner; when it is lost,
`ThrowsForARival` turns the assertion of `addReservation` into the rival that
`RenewalLossHasARival` speaks of. For `reserveLive` the
properties rest on `PlanOfLive` of `ManagerProofs`: a device falls back on no tuner
but its own, and then the host's claim stays; a remote device that is given any other
tuner leaves the host with a different one; and a claim moves to a tuner that is Free
or recording, or to the host's own. When the renewal of a Live is lost, `GrantAgainMoves` says that the
tuner clashes with it, and what it clashes with is the rival.

The invariant of `QtTimerProofs` adds to `Punctual` and the types that a `QTimer`
runs only while there is a task, which makes its expiration a run of that task. The
arithmetic is in `AsIntFits` and `AsIntShortens`: the conversion to an int leaves what was
clamped alone and makes nothing longer. `TimerIsAnAlarm` then goes through the
actions; the early expiration is a stutter, or `Forget` when the conversion made
the interval negative, which takes a deadline `MaxInt` ahead.

In `ServerProofs` that frames are delivered as sent is not inductive, as it says
nothing of what is still to be read. `Framed` does: what a connection holds, what is
available in its socket and what is on the wire are together the frames sent and not
yet delivered, one behind the other, and a connection that waits for a payload
expects the length of the first of them. "One behind the other" (`LaidOut`) is
stated without recursion, by the places where the frames start, and
the first part of the module shows that a frame sent, a header read and a payload read keep it.
`Unread` generalises `NothingLeftUnread` to the time when another connection is
being read. `Lives` says that connections which wait exist and that a queued
disconnection is of a connection whose peer has closed it; the properties of the
map follow with it.

In `ProxyProofs` the two threads share the map, and the walk of one must stay
meaningful after steps of the other. The first part states what each
step does to sockets, events and the walk. Besides the five properties it has: ids
are given once, in ascending order, and no event or walk has one not yet given
(`IdsAreGiven`); a queued deletion is of a socket already doomed
(`DeletesAreDoomed`), so an address is not freed under an entry of the map; while
the link is up, no entry is from an earlier one (`LinkIsFresh`); the id a write is
for belongs to no listed socket but the one at its address (`RepliesAreAddressed`);
and a reset has had a close posted for whatever lies behind it (`PassedAreClosed`),
which is where the exceptions of `MuteIsClosed` come from. That a walk begins at
the first entry rests on the well-foundedness of the naturals (`MinIsFirst`).

In `DiagProofs` neither property is inductive. For `SyncWhenAlone` the invariant
`Aligned` adds why nothing is closed under the reader: it reads only while
`is_connected`, a thread sleeps in `connect_to_trm` only while not, and at most one
does; so the socket in `trm_diag_fd` is the only one that is not free, and a payload is
never read from another (`ReadCrossed` cannot happen). For `RightAnswer` the
invariant `Alone` follows the one request of an undisturbed call: nothing is about
until it is written, with the flag cleared before that; then there is the request, or
its answer in one stream, or the reader with it, never two of them (`Its`); and when the
flag is set, all of that is gone and the text is the answer; the list of devices is the
answer too, or complete from an earlier call when the server refused. Types are an invariant of their
own (`DiagTypeOK`), which says besides that the reader of a running process reads
from a socket.

In `CodecProofs` most of the work is on the data. Each part is read as it was written
(`ActivityRead`, `ReservationRead`, `StateRead`, `FiltersRead`), hence each member
whatever its type (`ReadAsWritten`, where `Kept` says what is left of a filter and of an
event). `EveryFormat` goes through the formats of all classes and shows `WellFormed`:
the keys the reader insists on are always written, and a key is left out only when its
value is the one the reader puts in its place. `ReadBack` joins the two for a whole
message. The properties are not inductive, as they speak of messages that have been
read; `CodecInv` says what came before: members fit their types, the object is what
`JsonEncode` made of the message, perhaps without optional keys, and what was received
is what `JsonDecode` made of the object.

Only model-checked: liveness (`TimedTokenEnds`, `Answered`, `GoneReleased`,
`WithinReachEnds`, `SilentEvicted`, `CallsReturn`, `KeepsListening`), since the prover
has no reasoning about fairness and ENABLED. Every other property of the passing runs
is also a theorem.

## Abstractions and assumptions

- Reservations carry no text; activity details are reduced to the mark `eas`.
- Time is discrete; "now minus 1 ms" is "now". The waits of 53.5 s, 10 s and 15 s
  are not measured: a pending request may time out at any moment.
- Record requests and renewals come from the recorder, and the device in the
  request is that of its reservation (the code uses `request.getDevice()` in some
  searches and that of the reservation in others). Resurrected tokens are fresh ones.
- `enableConflictsForHotRecording` and `allowOverlapRecordings` have the values
  set in the code (true). The pre-start task only sends a message and is left out.
- In TRM a client has one connection; Server models the map itself.
- In Server frames are well formed, peers act between two iterations of the event
  loop, and a client uses one open connection at a time.
- In Codec strings are opaque, and the specification version is above 2.1, as
  the build sets it (`common/src/Makefile`).
- In QtTimer the wall clock stops at `MaxTime`, by which all deadlines have come; a
  coarse `QTimer` times out at most `Coarse` early.
- In Proxy an operation on the map is atomic, and threads are interleaved between
  two steps of an iterator; the main thread's lookup and write take no time next
  to the 10 s for which the listener sleeps between reset and reconnection. Frames
  are written and read whole. What a TLS client does is not visible.
- In Diag everything that follows the sleep of `connect_to_trm` is one step, and so are
  the clearing of flag and text and the copies of a text; a `write` to a socket
  never returns 0; frames arrive whole; the server may refuse
  `GetAllReservations`, but not `GetVersion`. A `SIGPIPE` kills the process, since nothing in `diag/` handles it.

## Not modelled, and why

- *TLS clients of the proxy* (`tcpOpensslProxyServer.cpp`): a thread per client around
  OpenSSL calls. Its ids are file descriptors, which may equal the ids of web
  socket clients; that and the reading of short payloads (`wsproxy/main.cpp` 431)
  depend on values that Proxy abstracts away.
- *Queries* (`GetAllTunerIds`, `GetAllTunerStates`, `GetAllReservations`, `GetVersion`,
  `ValidateTunerReservation`), `UpdateTunerActivityStatus` and the pre-start task change
  no state. In Diag the same goes for the queries of counters and connection events.
- *Resurrected tokens that are in use*, and *two pending requests with one UUID*: both
  need a client that breaks the protocol; the model has clients that keep it.
- *Notifications of an expiry*: no property is about their delivery.
- *Malformed frames and messages*: framing and codec are about what the encoders of
  this repository write.
- *FastCGI proxy*: one blocking exchange per HTTP call. *GUI*: displays what the server
  reports. *`Util`*: UUIDs and logging. They have no state worth a model.
- *Proxy and Server together*: each has the other as its environment (in Server a
  peer multiplexes clients, in Proxy the server knows ids); their product is out of
  TLC's reach at sizes where either is interesting.
