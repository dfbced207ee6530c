----------------------------- MODULE TRMProofs ------------------------------
(***************************************************************************)
(* The server as a whole implements the Manager and keeps its promises, for*)
(* any number of tuners, devices, channels, programmes, tokens, requests   *)
(* and clients.  The invariant (TRMInv) is the one of the Manager, the     *)
(* types of the server's own variables, the list of pending requests and   *)
(* that no device has two Lives; reserveLive needs the first three.        *)
(***************************************************************************)
EXTENDS TRMHandlers

-----------------------------------------------------------------------------
(* What the handlers do to the Lives.                                      *)

LEMMA LiveTokensAre ==
    ASSUME NEW R, NEW d, NEW k
    PROVE  k \in LiveTokens(R, d) <=>
              /\ k \in Tokens
              /\ \E t \in Tuners : /\ R[t][k] # NoReservation
                                   /\ R[t][k].activity = "Live" /\ R[t][k].device = d
    BY ZenonT(60) DEF LiveTokens, OfActivity, getReservationTokens

\* What RemoteAvoidsLocalTuner and SilentLossHasARival say of one step.
RemoteKept ==
    \A t \in Tuners, k \in Tokens :
        /\ RemoteLiveOn(reservations', t, k) /\ localTuner' = t
        /\ ~(RemoteLiveOn(reservations, t, k) /\ localTuner = t)
        => /\ reservations[t][k] # NoReservation
           /\ reservations[t][k].state = "ACTIVE" => HostLiveOn(reservations, t)

SilentKept ==
    \A d \in Devices :
        /\ LiveTokens(reservations, d) # {} /\ LiveTokens(reservations', d) = {}
        /\ updates' = 0
        => Rivals(reservations', d) # {}

LivesOK ==
    /\ OneLivePerDevice'
    /\ RemoteKept /\ SilentKept
    /\ KeepsOwner /\ RenewalKept

\* Where reserveLive leaves the host's claim.
ClaimMoves == ClaimKept \/ HostLiveOn(reservations, localTuner')

\* A tuner that counts as Free or as recording runs no Live.
LEMMA SpareRunsNoLive ==
    ASSUME NEW rs, NEW k \in Tokens, getState(rs) \in {"Free", "Record"},
           rs[k] # NoReservation, rs[k].activity = "Live"
    PROVE  rs[k].state # "ACTIVE"
<1>. SUFFICES ASSUME rs[k].state = "ACTIVE"
              PROVE  FALSE
    BY ZenonT(60)
<1>. DEFINE running == {rs[j].activity : j \in ActiveTokens(rs)}
<1>1. "Live" \in running
    BY ZenonT(60) DEF ActiveTokens, getReservationTokens
<1>2. running # {} /\ running # {"Record"}
    BY <1>1, SMTT(60)
<1>3. getState(rs) = CASE running = {}         -> "Free"
                       [] running = {"Live"}   -> "Live"
                       [] running = {"Record"} -> "Record"
                       [] OTHER                -> "Hybrid"
    BY ZenonT(60) DEF getState
<1>. HIDE DEF running
<1>. QED  BY <1>2, <1>3, SMTT(60)

\* A remote Live that was on its tuner before the claim came has not started
\* or has the host for company.
LEMMA ClaimMeetsIdle ==
    ASSUME ClaimMoves, NEW t \in Tuners, NEW k \in Tokens, RemoteLiveOn(reservations, t, k),
           localTuner' = t, localTuner # t
    PROVE  /\ reservations[t][k] # NoReservation
           /\ reservations[t][k].state = "ACTIVE" => HostLiveOn(reservations, t)
<1>1. /\ reservations[t][k] # NoReservation /\ reservations[t][k].activity = "Live"
      /\ getState(reservations[t]) \in {"Free", "Record"} \/ HostLiveOn(reservations, t)
    BY ZenonT(60) DEF ClaimMoves, ClaimKept, RemoteLiveOn
<1>. QED  BY <1>1, SpareRunsNoLive, ZenonT(60)

\* A step that changes one token only has to look at that one.
LEMMA OthersShareAsBefore ==
    ASSUME ClaimMoves, NEW k \in Tokens,
           \A j \in Tokens \ {k}, u \in Tuners : reservations'[u][j] = reservations[u][j],
           \A u \in Tuners : RemoteLiveOn(reservations', u, k) /\ localTuner' = u
               => RemoteLiveOn(reservations, u, k) /\ localTuner = u
    PROVE  RemoteKept
<1>. SUFFICES ASSUME NEW u \in Tuners, NEW j \in Tokens,
                     RemoteLiveOn(reservations', u, j), localTuner' = u,
                     ~(RemoteLiveOn(reservations, u, j) /\ localTuner = u)
              PROVE  /\ reservations[u][j] # NoReservation
                     /\ reservations[u][j].state = "ACTIVE" => HostLiveOn(reservations, u)
    BY ZenonT(60) DEF RemoteKept
<1>1. reservations'[u][j] = reservations[u][j]
    BY ZenonT(60)
<1>2. RemoteLiveOn(reservations, u, j)
    BY <1>1, ZenonT(60) DEF RemoteLiveOn
<1>. QED  BY <1>2, ClaimMeetsIdle, ZenonT(60)

\* A step that gives no device a Live it did not have keeps them single.
LEMMA FewerLives ==
    ASSUME OneLivePerDevice,
           \A d \in Devices : LiveTokens(reservations', d) \subseteq LiveTokens(reservations, d)
    PROVE  OneLivePerDevice'
    BY ZenonT(60) DEF OneLivePerDevice

LEMMA QuietKeeps ==
    ASSUME Inv, OneLivePerDevice, Quiet
    PROVE  LivesOK
<1>1. /\ KeepsOwner /\ NoNewLive /\ (LivesKept \/ updates' # 0)
      /\ ClaimKept /\ RenewalKept
    BY ZenonT(60) DEF Quiet
<1>2. /\ reservations \in [Tuners -> ReservationMap]
      /\ \A t \in Tuners, k \in Tokens :
            reservations[t][k] # NoReservation => reservations[t][k] \in Reservation
    BY ZenonT(60) DEF Inv, TypeOK, ReservationMap
<1>3. ASSUME NEW d \in Devices, NEW k \in LiveTokens(reservations', d)
      PROVE  k \in LiveTokens(reservations, d)
    <2>1. PICK t \in Tuners : /\ reservations'[t][k] # NoReservation
                              /\ reservations'[t][k].activity = "Live"
                              /\ reservations'[t][k].device = d
        BY LiveTokensAre, SMTT(60)
    <2>2. k \in Tokens
        BY LiveTokensAre, ZenonT(60)
    <2>3. reservations[t][k] # NoReservation
        BY <1>1, <2>1, <2>2, ZenonT(60) DEF NoNewLive
    <2>4. reservations[t][k].activity = "Live" /\ reservations[t][k].device = d
        BY <1>1, <2>1, <2>2, <2>3, ZenonT(60) DEF KeepsOwner
    <2>. QED  BY <2>2, <2>3, <2>4, LiveTokensAre, ZenonT(60)
<1>4. OneLivePerDevice'
    BY <1>3, FewerLives, ZenonT(60)
<1>5. RemoteKept
    <2>. SUFFICES ASSUME NEW t \in Tuners, NEW k \in Tokens,
                         RemoteLiveOn(reservations', t, k), localTuner' = t,
                         ~(RemoteLiveOn(reservations, t, k) /\ localTuner = t)
                  PROVE  /\ reservations[t][k] # NoReservation
                         /\ reservations[t][k].state = "ACTIVE" => HostLiveOn(reservations, t)
        BY ZenonT(60) DEF RemoteKept
    <2>1. /\ reservations'[t][k] # NoReservation /\ reservations'[t][k].activity = "Live"
          /\ reservations'[t][k].device # HostDevice /\ "Live" # "Record"
        BY ZenonT(60) DEF RemoteLiveOn
    <2>2. reservations[t][k] # NoReservation
        BY <1>1, <2>1, ZenonT(60) DEF NoNewLive
    <2>3. RemoteLiveOn(reservations, t, k)
        BY <1>1, <2>1, <2>2, ZenonT(60) DEF KeepsOwner, RemoteLiveOn
    <2>. QED  BY <1>1, <2>3, ClaimMeetsIdle, ZenonT(60) DEF ClaimMoves
<1>6. ASSUME NEW d \in Devices, NEW k \in LiveTokens(reservations, d), updates' = 0
      PROVE  k \in LiveTokens(reservations', d)
    <2>1. PICK t \in Tuners : /\ reservations[t][k] # NoReservation
                              /\ reservations[t][k].activity = "Live"
                              /\ reservations[t][k].device = d
        BY LiveTokensAre, SMTT(60)
    <2>2. k \in Tokens
        BY LiveTokensAre, ZenonT(60)
    <2>3. reservations'[t][k] # NoReservation
        BY <1>1, <1>6, <2>1, <2>2, ZenonT(60) DEF LivesKept
    <2>4. reservations'[t][k].activity = "Live" /\ reservations'[t][k].device = d
        BY <1>1, <2>1, <2>2, <2>3, ZenonT(60) DEF KeepsOwner
    <2>. QED  BY <2>2, <2>3, <2>4, LiveTokensAre, ZenonT(60)
<1>7. SilentKept
    BY <1>6, ZenonT(60) DEF SilentKept
<1>. QED  BY <1>1, <1>4, <1>5, <1>7, ZenonT(60) DEF LivesOK

\* A new Live of a device that had none.
LEMMA NewLiveKeeps ==
    ASSUME Inv, OneLivePerDevice, NEW d \in Devices, LiveTokens(reservations, d) = {},
           NEW k \in Tokens, NEW t \in Tuners, NEW r,
           r.device = d, r.activity = "Live",
           d # HostDevice => localTuner' # t, ClaimMoves,
           \A j \in Tokens \ {k}, u \in Tuners : reservations'[u][j] = reservations[u][j],
           \A u \in Tuners : reservations[u][k] = NoReservation,
           \A u \in Tuners \ {t} : reservations'[u][k] = NoReservation,
           reservations'[t][k] \in {r, NoReservation}, KeepsOwner, RenewalKept
    PROVE  LivesOK
<1>1. ASSUME NEW e \in Devices, NEW j \in LiveTokens(reservations', e)
      PROVE  j \in LiveTokens(reservations, e) \/ (j = k /\ e = d)
    <2>1. j \in Tokens
        BY LiveTokensAre, ZenonT(60)
    <2>2. PICK u \in Tuners : /\ reservations'[u][j] # NoReservation
                              /\ reservations'[u][j].activity = "Live"
                              /\ reservations'[u][j].device = e
        BY LiveTokensAre, SMTT(60)
    <2>3. CASE j = k
        BY <2>2, <2>3, ZenonT(60)
    <2>4. CASE j # k
        <3>1. reservations'[u][j] = reservations[u][j]
            BY <2>1, <2>4, ZenonT(60)
        <3>. QED  BY <2>1, <2>2, <3>1, LiveTokensAre, SMTT(60)
    <2>. QED  BY <2>3, <2>4, ZenonT(60)
<1>2. OneLivePerDevice'
    <2>. SUFFICES ASSUME NEW e \in Devices, NEW i \in LiveTokens(reservations', e),
                         NEW j \in LiveTokens(reservations', e)
                  PROVE  i = j
        BY ZenonT(60) DEF OneLivePerDevice
    <2>1. CASE e = d
        <3>1. LiveTokens(reservations, e) = {}
            BY <2>1, ZenonT(60)
        <3>. QED  BY <1>1, <3>1, SMTT(60)
    <2>2. CASE e # d
        <3>1. i \in LiveTokens(reservations, e) /\ j \in LiveTokens(reservations, e)
            BY <1>1, <2>2, ZenonT(60)
        <3>. QED  BY <3>1, ZenonT(60) DEF OneLivePerDevice
    <2>. QED  BY <2>1, <2>2, ZenonT(60)
<1>3. RemoteKept
    <2>1. ASSUME NEW u \in Tuners, RemoteLiveOn(reservations', u, k), localTuner' = u
          PROVE  FALSE
        <3>1. u = t /\ reservations'[u][k] = r
            BY <2>1, ZenonT(60) DEF RemoteLiveOn
        <3>. QED  BY <2>1, <3>1, ZenonT(60) DEF RemoteLiveOn
    <2>. QED  BY <2>1, OthersShareAsBefore, ZenonT(60)
<1>4. ASSUME NEW e \in Devices, NEW j \in LiveTokens(reservations, e)
      PROVE  j \in LiveTokens(reservations', e)
    <2>1. j \in Tokens
        BY LiveTokensAre, ZenonT(60)
    <2>2. PICK u \in Tuners : /\ reservations[u][j] # NoReservation
                              /\ reservations[u][j].activity = "Live"
                              /\ reservations[u][j].device = e
        BY LiveTokensAre, SMTT(60)
    <2>3. j # k
        BY <2>2, ZenonT(60)
    <2>4. reservations'[u][j] = reservations[u][j]
        BY <2>1, <2>3, ZenonT(60)
    <2>. QED  BY <2>1, <2>2, <2>4, LiveTokensAre, SMTT(60)
<1>5. SilentKept
    BY <1>4, ZenonT(60) DEF SilentKept
<1>. QED  BY <1>2, <1>3, <1>5, ZenonT(60) DEF LivesOK

\* A Live that keeps its token moves to another tuner, stays, or is lost
\* because the tuner clashes with it.
LEMMA OldLiveKeeps ==
    ASSUME Inv, OneLivePerDevice, NEW d \in Devices, NEW k \in LiveTokens(reservations, d),
           NEW t \in Tuners, NEW r, r # NoReservation, r.device = d, r.activity = "Live",
           d # HostDevice /\ localTuner' = t =>
               localTuner = t /\ reservations[t][k] # NoReservation,
           ClaimMoves, \A j \in Tokens \ {k} : timers'[j] = timers[j],
           \A j \in Tokens \ {k}, u \in Tuners : reservations'[u][j] = reservations[u][j],
           \A u \in Tuners \ {t} : reservations'[u][k] = NoReservation,
           reservations'[t][k] \in {r, NoReservation},
           reservations'[t][k] = NoReservation => Clashes(reservations'[t], r)
    PROVE  LivesOK
<1>1. k \in Tokens
    BY LiveTokensAre, ZenonT(60)
<1>2. ASSUME NEW e \in Devices, NEW j \in LiveTokens(reservations', e)
      PROVE  j \in LiveTokens(reservations, e)
    <2>1. j \in Tokens
        BY LiveTokensAre, ZenonT(60)
    <2>2. PICK u \in Tuners : /\ reservations'[u][j] # NoReservation
                              /\ reservations'[u][j].activity = "Live"
                              /\ reservations'[u][j].device = e
        BY LiveTokensAre, SMTT(60)
    <2>3. CASE j = k
        <3>1. e = d
            BY <2>2, <2>3, ZenonT(60)
        <3>. QED  BY <2>3, <3>1, ZenonT(60)
    <2>4. CASE j # k
        <3>1. reservations'[u][j] = reservations[u][j]
            BY <2>1, <2>4, ZenonT(60)
        <3>. QED  BY <2>1, <2>2, <3>1, LiveTokensAre, SMTT(60)
    <2>. QED  BY <2>3, <2>4, ZenonT(60)
<1>3. OneLivePerDevice'
    BY <1>2, FewerLives, ZenonT(60)
<1>4. RemoteKept /\ KeepsOwner /\ RenewalKept
    <2>1. \A u \in Tuners : reservations[u][k] # NoReservation =>
             reservations[u][k].activity = "Live" /\ reservations[u][k].device = d
        <3>1. PICK v \in Tuners : /\ reservations[v][k] # NoReservation
                                  /\ reservations[v][k].activity = "Live"
                                  /\ reservations[v][k].device = d
            BY LiveTokensAre, SMTT(60)
        <3>2. \A u \in Tuners : reservations[u][k] # NoReservation => u = v
            BY <1>1, <3>1, ZenonT(60) DEF Inv, TokenOnOneTuner
        <3>. QED  BY <3>1, <3>2, ZenonT(60)
    <2>2. \A u \in Tuners : reservations'[u][k] # NoReservation =>
             u = t /\ reservations'[u][k].activity = "Live" /\ reservations'[u][k].device = d
        BY ZenonT(60)
    <2>3. ASSUME NEW u \in Tuners, RemoteLiveOn(reservations', u, k), localTuner' = u
          PROVE  RemoteLiveOn(reservations, u, k) /\ localTuner = u
        <3>1. u = t /\ d # HostDevice
            BY <2>2, <2>3, ZenonT(60) DEF RemoteLiveOn
        <3>2. localTuner = t /\ reservations[t][k] # NoReservation
            BY <2>3, <3>1, ZenonT(60)
        <3>. QED  BY <2>1, <3>1, <3>2, ZenonT(60) DEF RemoteLiveOn
    <2>4. RemoteKept
        BY <1>1, <2>3, OthersShareAsBefore, ZenonT(60)
    <2>5. KeepsOwner
        <3>1. \A j \in Tokens, u, v \in Tuners :
                 reservations[u][j] # NoReservation /\ reservations[v][j] # NoReservation => u = v
            BY ZenonT(60) DEF Inv, TokenOnOneTuner
        <3>. QED  BY <2>1, <2>2, <3>1, SMTT(60) DEF KeepsOwner
    <2>6. RenewalKept
        <3>1. ASSUME NEW u \in Tuners, NEW j \in OfActivity(reservations, u, "Record")
              PROVE  j \in Tokens \ {k}
            BY <2>1, ZenonT(60) DEF OfActivity, getReservationTokens
        <3>. QED  BY <3>1, ZenonT(60) DEF RenewalKept
    <2>. QED  BY <2>4, <2>5, <2>6, ZenonT(60)
<1>5. ASSUME NEW e \in Devices, e # d, NEW j \in LiveTokens(reservations, e)
      PROVE  j \in LiveTokens(reservations', e)
    <2>1. j \in Tokens
        BY LiveTokensAre, ZenonT(60)
    <2>2. PICK u \in Tuners : /\ reservations[u][j] # NoReservation
                              /\ reservations[u][j].activity = "Live"
                              /\ reservations[u][j].device = e
        BY LiveTokensAre, SMTT(60)
    <2>3. PICK v \in Tuners : reservations[v][k] # NoReservation /\ reservations[v][k].device = d
        BY LiveTokensAre, SMTT(60)
    <2>4. ASSUME j = k
          PROVE  FALSE
        <3>1. u = v
            BY <1>1, <2>2, <2>3, <2>4, ZenonT(60) DEF Inv, TokenOnOneTuner
        <3>. QED  BY <1>5, <2>2, <2>3, <2>4, <3>1, ZenonT(60)
    <2>5. reservations'[u][j] = reservations[u][j]
        BY <2>1, <2>4, ZenonT(60)
    <2>. QED  BY <2>1, <2>2, <2>5, LiveTokensAre, SMTT(60)
<1>6. ASSUME LiveTokens(reservations', d) = {}
      PROVE  Rivals(reservations', d) # {}
    <2>1. ASSUME reservations'[t][k] = r
          PROVE  FALSE
        <3>1. /\ reservations'[t][k] # NoReservation
              /\ reservations'[t][k].activity = "Live" /\ reservations'[t][k].device = d
            BY <2>1, ZenonT(60)
        <3>2. k \in LiveTokens(reservations', d)
            BY <1>1, <3>1, LiveTokensAre, ZenonT(60)
        <3>. QED  BY <1>6, <3>2, ZenonT(60)
    <2>2. Clashes(reservations'[t], r)
        BY <2>1, ZenonT(60)
    <2>3. PICK j \in getReservationTokens(reservations'[t]) :
             reservations'[t][j].activity = "Live"
        BY <2>2, ZenonT(60) DEF Clashes
    <2>4. j \in Tokens /\ reservations'[t][j] # NoReservation
        BY <2>3, ZenonT(60) DEF getReservationTokens
    <2>5. reservations'[t][j].device # d
        BY <1>6, <2>3, <2>4, LiveTokensAre, ZenonT(60)
    <2>6. getState(reservations'[t]) # "Free"
        BY <2>2, ZenonT(60) DEF Clashes
    <2>7. j \in Rivals(reservations', d)
        BY <2>3, <2>4, <2>5, <2>6, ZenonT(60) DEF Rivals, OfActivity
    <2>. QED  BY <2>7, ZenonT(60)
<1>7. SilentKept
    BY <1>5, <1>6, ZenonT(60) DEF SilentKept
<1>. QED  BY <1>3, <1>4, <1>7, ZenonT(60) DEF LivesOK

\* reserveLive is a step of the Manager, and treats the Lives as it should.
LEMMA ReserveLiveStep ==
    ASSUME Inv, ServerOK, OneLivePerDevice,
           NEW d \in Devices, NEW l \in Locators, NEW w \in Programmes, ReserveLive(d, l, w)
    PROVE  [Next]_managerVars /\ ServerOK' /\ LivesOK
<1>. DEFINE old == ExistingLive(reservations, d)
            plan == LivePlan(reservations, localTuner, d, l)
            fallback == FallbackTuner(reservations, old, l)
            t == plan.tuner
            W == Without(reservations, {old})
            rOld == LiveReservation(W, d, l, w, t)
            rNew == LiveReservation(reservations, d, l, w, t)
<1>1. /\ localTuner' = plan.local /\ connected' = connected \cup {d} /\ updates' = updates
      /\ \/ t = NoTuner /\ UNCHANGED managerVars
         \/ t # NoTuner /\ old # NoToken /\ GrantAgain(old, rOld, t, d)
         \/ t # NoTuner /\ old = NoToken /\ \E k \in FreshTokens : GrantNew(k, rNew, t, d)
    BY ZenonT(60) DEF ReserveLive
<1>2. /\ t \in Tuners \cup {NoTuner} /\ plan.local \in Tuners
      /\ fallback # NoTuner => old # NoToken /\ fallback = getParent(reservations, old)
      /\ t \notin {NoTuner, fallback} /\ d # HostDevice => plan.local # t
      /\ t = fallback /\ fallback # NoTuner => plan.local = localTuner
      /\ \/ plan.local = localTuner
         \/ getState(reservations[plan.local]) \in {"Free", "Record"}
         \/ d = HostDevice /\ plan.local = t /\ old # NoToken /\ t = getParent(reservations, old)
    <2>1. localTuner \in Tuners
        BY ZenonT(60) DEF ServerOK
    <2>. QED  BY <2>1, PlanOfLive, SMTT(60)
<1>3. /\ old # NoToken => old \in LiveTokens(reservations, d)
      /\ old = NoToken => LiveTokens(reservations, d) = {}
    BY ExistingIsLive, ZenonT(60)
<1>4. /\ reservations \in [Tuners -> ReservationMap]
      /\ W \in [Tuners -> ReservationMap]
      /\ now \in 0 .. MaxTime /\ d \in Clients
    <2>1. Consistent(reservations, timers, attrs)
        BY InvIsConsistent, ZenonT(60)
    <2>2. W \in [Tuners -> ReservationMap] /\ reservations \in [Tuners -> ReservationMap]
        BY <2>1, WithoutMap, SMTT(60) DEF Consistent
    <2>3. now \in Nat /\ now <= MaxTime /\ MaxTime \in Nat
        BY MaxTimeAssumption, ZenonT(60) DEF Inv, TypeOK, ServerOK
    <2>4. d \in Clients
        BY ClientsAssumption, ZenonT(60)
    <2>. QED  BY <2>2, <2>3, <2>4, SMTT(60)
<1>. HIDE DEF W
<1>5. ASSUME t \in Tuners
      PROVE  /\ rOld \in Requests /\ rOld.device = d /\ rOld.activity = "Live"
             /\ rNew \in Requests /\ rNew.device = d /\ rNew.activity = "Live"
    BY <1>4, <1>5, LiveIsRequest, SMTT(60)
<1>. HIDE DEF rOld, rNew, plan, old, fallback
<1>6. now' = now => ServerOK'
    <2>1. connected' \subseteq Clients
        BY <1>1, <1>4, ZenonT(60) DEF ServerOK
    <2>. QED  BY <1>1, <1>2, <2>1, ZenonT(60) DEF ServerOK
<1>7. ClaimMoves /\ (t = NoTuner => ClaimKept)
    <2>1. CASE \/ plan.local = localTuner
               \/ getState(reservations[plan.local]) \in {"Free", "Record"}
        BY <1>1, <2>1, ZenonT(60) DEF ClaimMoves, ClaimKept
    <2>2. CASE d = HostDevice /\ plan.local = t /\ old # NoToken /\ t = getParent(reservations, old)
        <3>1. old \in LiveTokens(reservations, HostDevice) /\ isHeld(reservations, old)
            BY <1>3, <2>2, LiveIsHeld, ZenonT(60)
        <3>2. reservations[t][old] # NoReservation
            BY <2>2, <3>1, ParentHolds, ZenonT(60)
        <3>3. t # NoTuner
            BY <1>2, <2>2, NoTunerAssumption, ZenonT(60)
        <3>. QED  BY <1>1, <2>2, <3>1, <3>2, <3>3, ZenonT(60) DEF ClaimMoves, HostLiveOn
    <2>. QED  BY <1>2, <2>1, <2>2, ZenonT(60)
<1>8. CASE t = NoTuner /\ UNCHANGED managerVars
    <2>1. reservations' = reservations /\ timers' = timers /\ now' = now /\ ClaimKept
        BY <1>8, <1>7, ZenonT(60) DEF managerVars
    <2>2. Quiet
        BY <1>8, <2>1, StutterQuiet, ZenonT(60)
    <2>. QED  BY <1>6, <1>8, <2>1, <2>2, QuietKeeps, ZenonT(60)
<1>9. CASE t # NoTuner /\ old # NoToken /\ GrantAgain(old, rOld, t, d)
    <2>1. t \in Tuners /\ old \in LiveTokens(reservations, d) /\ GrantAgain(old, rOld, t, d)
        BY <1>2, <1>3, <1>9, ZenonT(60)
    <2>2. old \in Tokens /\ isHeld(reservations, old)
        BY <2>1, LiveIsHeld, ZenonT(60)
    <2>3. rOld \in Requests /\ rOld.device = d /\ rOld.activity = "Live"
        BY <1>5, <2>1, ZenonT(60)
    <2>4. /\ Next /\ now' = now
          /\ \A j \in Tokens \ {old}, u \in Tuners : reservations'[u][j] = reservations[u][j]
          /\ \A u \in Tuners \ {t} : reservations'[u][old] = NoReservation
          /\ reservations'[t][old] \in {rOld, NoReservation}
          /\ reservations'[t][old] = NoReservation => Clashes(reservations'[t], rOld)
          /\ \A j \in Tokens \ {old} : timers'[j] = timers[j]
        BY <1>4, <2>1, <2>2, <2>3, GrantAgainMoves, ZenonT(60)
    <2>5. ASSUME d # HostDevice, localTuner' = t
          PROVE  localTuner = t /\ reservations[t][old] # NoReservation
        <3>1. t = fallback /\ fallback # NoTuner
            BY <1>1, <1>2, <1>9, <2>5, ZenonT(60)
        <3>2. localTuner = t /\ t = getParent(reservations, old)
            BY <1>1, <1>2, <2>5, <3>1, ZenonT(60)
        <3>. QED  BY <2>2, <3>2, ParentHolds, ZenonT(60)
    <2>6. rOld # NoReservation
        BY <2>3, RequestsAreIdle, NoReservationAssumption, ZenonT(60)
    <2>7. LivesOK
        BY <1>7, <2>1, <2>3, <2>4, <2>5, <2>6, OldLiveKeeps, SMTT(60)
    <2>. QED  BY <1>6, <2>4, <2>7, ZenonT(60)
<1>10. CASE t # NoTuner /\ old = NoToken /\ \E k \in FreshTokens : GrantNew(k, rNew, t, d)
    <2>1. PICK k \in FreshTokens : GrantNew(k, rNew, t, d)
        BY <1>10, ZenonT(60)
    <2>2. k \in Tokens /\ t \in Tuners /\ LiveTokens(reservations, d) = {}
        BY <1>2, <1>3, <1>10, <2>1, FreshAreTokens, ZenonT(60)
    <2>3. rNew \in Requests /\ rNew.device = d /\ rNew.activity = "Live"
        BY <1>5, <2>2, ZenonT(60)
    <2>4. /\ Next /\ now' = now
          /\ \A j \in Tokens \ {k}, u \in Tuners : reservations'[u][j] = reservations[u][j]
          /\ \A u \in Tuners : reservations[u][k] = NoReservation
          /\ \A u \in Tuners \ {t} : reservations'[u][k] = NoReservation
          /\ reservations'[t][k] \in {rNew, NoReservation}
          /\ KeepsOwner /\ TimersKept
        BY <1>4, <2>1, <2>2, <2>3, GrantNewAdds, ZenonT(60)
    <2>5. d # HostDevice => localTuner' # t
        <3>1. t # fallback
            BY <1>2, <1>10, ZenonT(60)
        <3>. QED  BY <1>1, <1>2, <1>10, <3>1, ZenonT(60)
    <2>6. LivesOK
        BY <1>7, <2>2, <2>3, <2>4, <2>5, TimersStay, NewLiveKeeps, SMTT(60)
    <2>. QED  BY <1>6, <2>4, <2>6, ZenonT(60)
<1>. QED  BY <1>1, <1>8, <1>9, <1>10, ZenonT(60)

-----------------------------------------------------------------------------
(* The server as a whole.                                                  *)

TRMInv ==
    /\ Inv
    /\ ServerOK
    /\ Waits
    /\ OneLivePerDevice

\* What every step of the server does.
StepOK ==
    /\ [Next]_managerVars
    /\ TRMInv'
    /\ NoneLost /\ RemoteKept /\ SilentKept
    /\ KeepsOwner /\ RenewalKept

LEMMA TRMInitInv == TRMInit => Init /\ TRMInv
<1>. SUFFICES ASSUME TRMInit
              PROVE  Init /\ TRMInv
    BY ZenonT(60)
<1>1. Init
    BY ZenonT(60) DEF TRMInit
<1>2. Inv
    BY <1>1, InitInv, ZenonT(60)
<1>3. ServerOK
    <2>1. Min(Tuners) \in Tuners
        <3>1. Tuners # {} /\ Tuners \subseteq Nat
            BY LastTunerAssumption, TunersAssumption, ZenonT(60)
        <3>. QED  BY <3>1, MinInSet, ZenonT(60)
    <2>2. now = 0 /\ updates = 0 /\ connected = {} /\ localTuner = Min(Tuners)
        BY <1>1, ZenonT(60) DEF TRMInit, Init
    <2>. QED  BY <2>1, <2>2, MaxTimeAssumption, MaxUpdatesAssumption, SMTT(60) DEF ServerOK
<1>4. Waits
    <2>1. /\ pending = <<>> /\ sweep = 0 /\ asked = {}
          /\ verdicts = [q \in RecordIds \cup CancelIds |-> <<>>]
        BY ZenonT(60) DEF TRMInit
    <2>2. /\ pending \in Seq(PendingRequests) /\ DOMAIN pending = {}
          /\ sweep \in 0 .. Len(pending) + 1
        BY <2>1, SMTT(60)
    <2>3. /\ verdicts \in [RecordIds \cup CancelIds -> Seq({"granted", "refused"})]
          /\ \A q \in RecordIds \cup CancelIds : verdicts[q] = <<>>
        BY <2>1, SMTT(60)
    <2>4. Len(<<>>) <= 1 /\ ~HasGrant(<<>>)
        BY SMTT(60) DEF HasGrant
    <2>. QED  BY <2>1, <2>2, <2>3, <2>4, ZenonT(60) DEF Waits, Waiting
<1>5. OneLivePerDevice
    <2>1. \A t \in Tuners, k \in Tokens : reservations[t][k] = NoReservation
        BY <1>1, ZenonT(60) DEF Init
    <2>2. ASSUME NEW d \in Devices, NEW k \in LiveTokens(reservations, d)
          PROVE  FALSE
        BY <2>1, LiveTokensAre, SMTT(60)
    <2>. QED  BY <2>2, ZenonT(60) DEF OneLivePerDevice
<1>. QED  BY <1>1, <1>2, <1>3, <1>4, <1>5, ZenonT(60) DEF TRMInv

\* What the lemmas on the handlers say of a step, together.
LEMMA StepKeeps ==
    ASSUME Inv, [Next]_managerVars, ServerOK', LivesOK, WaitsNext
    PROVE  StepOK
<1>1. Inv'
    BY NextInv, ZenonT(60)
<1>2. Waits'
    BY ZenonT(60) DEF Waits, WaitsNext
<1>. QED  BY <1>1, <1>2, ZenonT(60) DEF StepOK, TRMInv, WaitsNext, LivesOK

LEMMA QuietStepKeeps ==
    ASSUME Inv, OneLivePerDevice, Quiet, ServerOK', WaitsNext
    PROVE  StepOK
<1>1. [Next]_managerVars
    BY ZenonT(60) DEF Quiet
<1>. QED  BY <1>1, QuietKeeps, StepKeeps, ZenonT(60)

\* Every request of a client.
LEMMA RequestStep ==
    ASSUME TRMInv, Request
    PROVE  StepOK
<1>1. Inv /\ ServerOK /\ Waits /\ OneLivePerDevice /\ connected \subseteq Clients
    BY ZenonT(60) DEF TRMInv, ServerOK
<1>2. ASSUME NEW d \in Devices, NEW l \in Locators, NEW w \in Programmes, ReserveLive(d, l, w)
      PROVE  StepOK
    <2>1. [Next]_managerVars /\ ServerOK' /\ LivesOK
        BY <1>1, <1>2, ReserveLiveStep, ZenonT(60)
    <2>2. UNCHANGED <<pending, sweep, asked, verdicts>>
        BY <1>2, ZenonT(60) DEF ReserveLive, history
    <2>. QED  BY <1>1, <2>1, <2>2, OthersWait, StepKeeps, ZenonT(60)
<1>3. ASSUME NEW q \in RecordIds, NEW d \in Devices, NEW l \in Locators,
             NEW w \in Programmes, ReserveRecord(q, d, l, w)
      PROVE  StepOK
    <2>1. Quiet /\ ServerOK'
        BY <1>1, <1>3, ReserveRecordQuiet, ZenonT(60)
    <2>2. WaitsNext
        BY <1>1, <1>3, ReserveRecordWaits, ZenonT(60)
    <2>. QED  BY <1>1, <2>1, <2>2, QuietStepKeeps, ZenonT(60)
<1>4. ASSUME NEW k \in Tokens, NEW d \in Devices, NEW l \in Locators,
             NEW w \in Programmes, RenewRecord(k, d, l, w)
      PROVE  StepOK
    <2>1. Quiet /\ ServerOK'
        BY <1>1, <1>4, RenewRecordQuiet, ZenonT(60)
    <2>2. UNCHANGED <<pending, sweep, asked, verdicts>>
        BY <1>4, ZenonT(60) DEF RenewRecord, history
    <2>. QED  BY <1>1, <2>1, <2>2, OthersWait, QuietStepKeeps, ZenonT(60)
<1>5. ASSUME NEW k \in Tokens, ReleaseTunerReservation(k)
      PROVE  StepOK
    <2>1. Quiet /\ ServerOK'
        BY <1>1, <1>5, ReleaseTunerQuiet, ZenonT(60)
    <2>2. UNCHANGED <<pending, sweep, asked, verdicts>>
        BY <1>5, ZenonT(60) DEF ReleaseTunerReservation, history
    <2>. QED  BY <1>1, <2>1, <2>2, OthersWait, QuietStepKeeps, ZenonT(60)
<1>6. ASSUME NEW q \in CancelIds, NEW c \in Clients, NEW k \in Tokens, CancelRecording(q, c, k)
      PROVE  StepOK
    <2>1. /\ UNCHANGED <<managerVars, localTuner, updates>>
          /\ connected' = connected \cup {c}
        BY <1>6, ZenonT(60) DEF CancelRecording
    <2>2. connected' \subseteq Clients
        BY <1>1, <2>1, ZenonT(60)
    <2>3. Quiet /\ ServerOK'
        BY <1>1, <2>1, <2>2, OthersQuiet, ZenonT(60)
    <2>4. WaitsNext
        BY <1>1, <1>6, CancelRecordingWaits, ZenonT(60)
    <2>. QED  BY <1>1, <2>3, <2>4, QuietStepKeeps, ZenonT(60)
<1>. QED  BY <1>2, <1>3, <1>4, <1>5, <1>6, ZenonT(60) DEF Request

\* The timeouts and answers of pending requests.
LEMMA PendingStep ==
    ASSUME TRMInv, (\E i \in DOMAIN pending : PendingTimeout(i)) \/ Answer
    PROVE  StepOK
<1>1. Inv /\ ServerOK /\ Waits /\ OneLivePerDevice /\ connected \subseteq Clients
    BY ZenonT(60) DEF TRMInv, ServerOK
<1>2. ASSUME NEW i \in DOMAIN pending,
             ConflictTimeout(i) \/ CancelLiveTimeout(i) \/ CancelLiveResponse(i)
      PROVE  StepOK
    <2>1. Quiet /\ ServerOK'
        BY <1>1, <1>2, PendingQuiet, ZenonT(60)
    <2>2. WaitsNext
        BY <1>1, <1>2, ConflictAnswerWaits, ZenonT(60)
    <2>. QED  BY <1>1, <2>1, <2>2, QuietStepKeeps, ZenonT(60)
<1>3. ASSUME NEW i \in DOMAIN pending, CancelPendingRecording(i) \/ CancelRecordingTimeout(i)
      PROVE  StepOK
    <2>1. UNCHANGED <<managerVars, localTuner, updates>> /\ connected' = connected
        BY <1>3, ZenonT(60) DEF CancelPendingRecording, CancelRecordingTimeout
    <2>2. Quiet /\ ServerOK'
        BY <1>1, <2>1, OthersQuiet, ZenonT(60)
    <2>3. WaitsNext
        BY <1>1, <1>3, ConflictAnswerWaits, CancelAnswerWaits, ZenonT(60)
    <2>. QED  BY <1>1, <2>2, <2>3, QuietStepKeeps, ZenonT(60)
<1>4. ASSUME NEW i \in DOMAIN pending, CancelRecordingResponse(i)
      PROVE  StepOK
    <2>1. Quiet /\ ServerOK'
        BY <1>1, <1>4, CancelResponseQuiet, ZenonT(60)
    <2>2. WaitsNext
        BY <1>1, <1>4, CancelAnswerWaits, ZenonT(60)
    <2>. QED  BY <1>1, <2>1, <2>2, QuietStepKeeps, ZenonT(60)
<1>. QED  BY <1>2, <1>3, <1>4, ZenonT(60) DEF PendingTimeout, Answer

\* Every step of the server.
LEMMA TRMStep ==
    ASSUME TRMInv, [TRMNext]_vars
    PROVE  StepOK
<1>1. Inv /\ ServerOK /\ Waits /\ OneLivePerDevice /\ connected \subseteq Clients
    BY ZenonT(60) DEF TRMInv, ServerOK
<1>2. ASSUME NEW k \in Tokens, StartTimer(k) \/ ExpireTimer(k)
      PROVE  StepOK
    <2>1. Quiet /\ ServerOK'
        BY <1>1, <1>2, TimersQuiet, ZenonT(60)
    <2>2. UNCHANGED <<pending, sweep, asked, verdicts>>
        BY <1>2, ZenonT(60) DEF StartTimer, ExpireTimer, history
    <2>. QED  BY <1>1, <2>1, <2>2, OthersWait, QuietStepKeeps, ZenonT(60)
<1>3. ASSUME Update
      PROVE  StepOK
    BY <1>1, <1>3, UpdateQuiet, UpdateWaits, QuietStepKeeps, ZenonT(60)
<1>4. ASSUME Clock
      PROVE  StepOK
    <2>1. UNCHANGED <<pending, sweep, asked, verdicts>>
        BY <1>4, ZenonT(60) DEF Clock, serverVars, history
    <2>. QED  BY <1>1, <1>4, <2>1, ClockQuiet, OthersWait, QuietStepKeeps, ZenonT(60)
<1>5. ASSUME NEW c \in Clients, Disconnect(c)
      PROVE  StepOK
    <2>1. Quiet /\ ServerOK'
        BY <1>1, <1>5, DisconnectQuiet, ZenonT(60)
    <2>2. UNCHANGED <<pending, sweep, asked, verdicts>>
        BY <1>5, ZenonT(60) DEF Disconnect, history
    <2>. QED  BY <1>1, <2>1, <2>2, OthersWait, QuietStepKeeps, ZenonT(60)
<1>6. ASSUME UNCHANGED <<managerVars, localTuner, updates>>, connected' \subseteq Clients,
             UNCHANGED <<pending, sweep, asked, verdicts>>
      PROVE  StepOK
    BY <1>1, <1>6, OthersQuiet, OthersWait, QuietStepKeeps, ZenonT(60)
<1>7. ASSUME NEW c \in Clients, Connect(c)
      PROVE  StepOK
    <2>1. /\ UNCHANGED <<managerVars, localTuner, updates>> /\ connected' = connected \cup {c}
          /\ UNCHANGED <<pending, sweep, asked, verdicts>>
        BY <1>7, ZenonT(60) DEF Connect, history
    <2>2. connected' \subseteq Clients
        BY <1>1, <2>1, ZenonT(60)
    <2>. QED  BY <1>6, <2>1, <2>2, ZenonT(60)
<1>8. ASSUME UNCHANGED vars
      PROVE  StepOK
    <2>1. /\ UNCHANGED <<managerVars, localTuner, updates>> /\ connected' = connected
          /\ UNCHANGED <<pending, sweep, asked, verdicts>>
        BY <1>8, ZenonT(60) DEF vars, serverVars, history
    <2>. QED  BY <1>1, <1>6, <2>1, ZenonT(60)
<1>. QED  BY <1>2, <1>3, <1>4, <1>5, <1>7, <1>8, RequestStep, PendingStep, ZenonT(60)
          DEF TRMNext, ReservationTimer

-----------------------------------------------------------------------------

\* The invariant holds in every state of the server, whatever the number of
\* tuners, devices, tokens and requests.
THEOREM TRMInvariance == TRMSpec => []TRMInv
<1>1. TRMInit => TRMInv
    BY TRMInitInv, ZenonT(60)
<1>2. TRMInv /\ [TRMNext]_vars => TRMInv'
    BY TRMStep, ZenonT(60) DEF StepOK
<1>. QED  BY <1>1, <1>2, PTL DEF TRMSpec

\* Every step of the server keeps what StepOK says.
LEMMA TRMEveryStep == TRMSpec => [][StepOK]_vars
<1>1. TRMInv /\ [TRMNext]_vars => [StepOK]_vars
    BY TRMStep, ZenonT(60)
<1>. QED  BY <1>1, TRMInvariance, PTL DEF TRMSpec

\* Tuners, lists, counters and answers have the right types: in particular
\* the position of onReservationUpdated's loop stays inside the list it walks.
THEOREM ServerTyped == TRMSpec => []TRMTypeOK
<1>1. TRMInv => TRMTypeOK
    BY ZenonT(60) DEF TRMInv, Inv, ServerOK, Waits, Waiting, TRMTypeOK
<1>. QED  BY <1>1, TRMInvariance, PTL

\* Every handler of the server, with the tuner, the channel and the moment it
\* chooses, is a step of the Manager's bookkeeping or leaves it alone, so what
\* is proved of module Manager holds in the server.
THEOREM ServerImplementsManager == TRMSpec => ImplementsManager
<1>1. TRMInit => Init
    BY TRMInitInv, ZenonT(60)
<1>2. TRMInv /\ [TRMNext]_vars => [Next]_managerVars
    BY TRMStep, ZenonT(60) DEF StepOK
<1>. QED  BY <1>1, <1>2, TRMInvariance, PTL DEF TRMSpec, ImplementsManager, Spec

\* No device ever has two Lives: the token reserveLive renews is the only one.
THEOREM OneLive == TRMSpec => []OneLivePerDevice
<1>1. TRMInv => OneLivePerDevice
    BY ZenonT(60) DEF TRMInv
<1>. QED  BY <1>1, TRMInvariance, PTL

\* A Record request is decided at most once and never while it is pending,
\* whichever of the user, the recorder, the timers and the loop is first.
THEOREM DecidedOnce == TRMSpec => []OneVerdict
<1>1. TRMInv => OneVerdict
    <2>. SUFFICES ASSUME TRMInv, NEW q \in RecordIds
                  PROVE  /\ Len(verdicts[q]) <= 1
                         /\ PendingFor(q) # {} => verdicts[q] = <<>>
                         /\ \A i, j \in PendingFor(q) : i = j
        BY ZenonT(60) DEF OneVerdict
    <2>1. Waits
        BY ZenonT(60) DEF TRMInv
    <2>2. ASSUME NEW i \in PendingFor(q)
          PROVE  verdicts[q] = <<>>
        <3>1. i \in DOMAIN pending /\ ~pending[i].marked /\ pending[i].id = q
            BY ZenonT(60) DEF PendingFor
        <3>2. pending[i].type # "cancelRecording"
            BY <2>1, <3>1, WaitingCancel, ZenonT(60)
        <3>. QED  BY <2>1, <3>1, <3>2, WaitingRecord, ZenonT(60)
    <2>3. \A i, j \in PendingFor(q) : i = j
        BY <2>1, ZenonT(60) DEF Waits, Waiting, PendingFor
    <2>4. Len(verdicts[q]) <= 1
        BY <2>1, ZenonT(60) DEF Waits, Waiting
    <2>. QED  BY <2>2, <2>3, <2>4, ZenonT(60)
<1>. QED  BY <1>1, TRMInvariance, PTL

\* Once a client is told that its recording is cancelled, neither a timeout
\* nor a missing recorder tells it the contrary.
THEOREM CancelFinal == TRMSpec => []CancelIsFinal
<1>1. TRMInv => CancelIsFinal
    <2>. SUFFICES ASSUME TRMInv, NEW q \in CancelIds, HasGrant(verdicts[q])
                  PROVE  Len(verdicts[q]) = 1 /\ PendingFor(q) = {}
        BY ZenonT(60) DEF CancelIsFinal, HasGrant
    <2>1. Waits
        BY ZenonT(60) DEF TRMInv
    <2>2. ASSUME NEW i \in PendingFor(q)
          PROVE  FALSE
        <3>1. i \in DOMAIN pending /\ ~pending[i].marked /\ pending[i].id = q
            BY ZenonT(60) DEF PendingFor
        <3>2. pending[i].type = "cancelRecording"
            BY <2>1, <3>1, WaitingRecord, IdsAssumption, ZenonT(60)
        <3>. QED  BY <2>1, <3>1, <3>2, WaitingCancel, ZenonT(60)
    <2>3. Len(verdicts[q]) = 1
        BY <2>1, ZenonT(60) DEF Waits, Waiting
    <2>. QED  BY <2>2, <2>3, ZenonT(60)
<1>. QED  BY <1>1, TRMInvariance, PTL

\* A Record request that waits leaves the list only with an answer, or when
\* there is no recorder to send one to.
THEOREM NoRequestForgotten == TRMSpec => NoneForgotten
<1>. DEFINE A == \A q \in RecordIds :
                    PendingFor(q) # {} /\ PendingFor(q)' = {} =>
                        verdicts'[q] # verdicts[q] \/ Recorder \notin connected
<1>1. StepOK => A
    <2>1. \A q : PendingFor(q) # {} <=> q \in Open(pending)
        BY ZenonT(60) DEF PendingFor, Open
    <2>2. \A q : PendingFor(q)' = {} <=> q \notin Open(pending')
        BY ZenonT(60) DEF PendingFor, Open
    <2>. QED  BY <2>1, <2>2, ZenonT(60) DEF StepOK, NoneLost
<1>. QED  BY <1>1, TRMEveryStep, PTL DEF NoneForgotten

\* The server never passes a token on: what is reused keeps its device and
\* its activity, although the Manager looks at neither.
THEOREM TokensKeepTheirOwner == TRMSpec => TokenKeepsOwner
<1>1. StepOK => KeepsOwner
    BY ZenonT(60) DEF StepOK
<1>. QED  BY <1>1, TRMEveryStep, PTL DEF TokenKeepsOwner, KeepsOwner

\* A remote device is never granted the tuner set aside for the host: when a
\* remote Live and the host's claim come together, the claim comes to a Live
\* that has not started, or to a tuner the host is on.
THEOREM HostTunerKept == TRMSpec => RemoteAvoidsLocalTuner
<1>1. StepOK => RemoteKept
    BY ZenonT(60) DEF StepOK
<1>. QED  BY <1>1, TRMEveryStep, PTL DEF RemoteAvoidsLocalTuner, RemoteKept

\* A recording that is lost without a signal has a rival on its tuner: what
\* renewRecord releases it can put back otherwise.
THEOREM NoRenewalLostAlone == TRMSpec => RenewalLossHasARival
<1>1. StepOK => RenewalKept
    BY ZenonT(60) DEF StepOK
<1>. QED  BY <1>1, TRMEveryStep, PTL DEF RenewalLossHasARival, RenewalKept

\* A device that loses its Live without a signal has a rival: a Live of another
\* device on a tuner that runs something.
THEOREM NoSilentLossAlone == TRMSpec => SilentLossHasARival
<1>1. StepOK => SilentKept
    BY ZenonT(60) DEF StepOK
<1>. QED  BY <1>1, TRMEveryStep, PTL DEF SilentLossHasARival, SilentKept

\* What is proved of the Manager holds in the server: no token on two tuners,
\* no timer or owner without a token, and the life of module Token.
THEOREM BooksKept == TRMSpec => []Inv /\ ImplementsToken
    BY ServerImplementsManager, Invariance, ManagerKeepsLives, PTL
    DEF ImplementsManager
=============================================================================
