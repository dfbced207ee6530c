--------------------------- MODULE ManagerProofs ----------------------------
(***************************************************************************)
(* Proofs about the Manager's bookkeeping, for every set of tokens, tuners,*)
(* clients, devices, channels and programmes.  The five invariants of      *)
(* module Manager are inductive together.  They are restated over maps R,  *)
(* T and A (Consistent), because a renewal goes through maps that are      *)
(* never the value of a variable: those between the release of the old     *)
(* reservation and the addition of the new one.                            *)
(*                                                                         *)
(* The Manager implements module Token: every step of it is a step in the  *)
(* life of a token, or of the tokens of one client, or no step.  The last  *)
(* part is about module Policy: a search returns what it looks for.        *)
(***************************************************************************)
EXTENDS Policy, WellFoundedInduction, TLAPS

-----------------------------------------------------------------------------
(* The first element of a set of naturals, as a walk in order finds it.    *)

\* A nonempty set of tokens or tuners has a first element: the loops that
\* stop at the first hit do return one.
LEMMA MinInSet ==
    ASSUME NEW S, S \subseteq Nat, S # {}
    PROVE  Min(S) \in S /\ \A x \in S : Min(S) <= x
<1>. DEFINE lt == OpToRel(<, Nat)
<1>1. \A x, y \in Nat : <<y, x>> \in lt <=> y < x
    BY Zenon DEF OpToRel
<1>2. IsWellFoundedOn(lt, Nat)
    BY NatLessThanWellFounded, Zenon
<1>. HIDE DEF lt
<1>3. PICK m \in S : \A x \in S : ~(<<x, m>> \in lt)
    BY <1>2, WFMin, Zenon
<1>4. ASSUME NEW x \in S
      PROVE  m <= x
    <2>1. x \in Nat /\ m \in Nat
        BY Zenon
    <2>2. ~(x < m)
        BY <1>1, <1>3, <2>1, Zenon
    <2>. QED  BY <2>1, <2>2
<1>. QED  BY <1>4, Zenon DEF Min

\* getParent returns a tuner that has the token, if any has.
LEMMA ParentHolds ==
    ASSUME NEW R, NEW k, isHeld(R, k)
    PROVE  getParent(R, k) \in Tuners /\ R[getParent(R, k)][k] # NoReservation
<1>1. parents(R, k) \subseteq Nat /\ parents(R, k) # {}
    BY TunersAssumption, Zenon DEF isHeld, parents
<1>2. getParent(R, k) \in parents(R, k)
    BY <1>1, MinInSet, Zenon DEF getParent
<1>. QED  BY <1>2, Zenon DEF parents

-----------------------------------------------------------------------------
(* One tuner.                                                              *)

\* What Tuner::addReservation leaves behind: the map it had, with the new
\* reservation unless the overlap assertion threw first.
LEMMA InsertedMap ==
    ASSUME NEW rs \in ReservationMap, NEW k \in Tokens, NEW r \in Reservation
    PROVE  /\ Inserted(rs, k, r) \in ReservationMap
           /\ \A j \in Tokens \ {k} : Inserted(rs, k, r)[j] = rs[j]
           /\ Inserted(rs, k, r)[k] \in {r, rs[k]}
           /\ ~Clashes(rs, r) => Inserted(rs, k, r)[k] = r
    BY Zenon DEF Inserted, ReservationMap

\* A Hybrid tuner has an ACTIVE Record, so the assertion of syncHybrid that
\* it found a channel to synchronise with cannot fail.
LEMMA HybridRecords ==
    ASSUME NEW rs \in ReservationMap, getState(rs) = "Hybrid"
    PROVE  TokensOf(rs, "Record", "ACTIVE") # {}
<1>. DEFINE running == {rs[k].activity : k \in ActiveTokens(rs)}
<1>1. running # {} /\ running # {"Live"}
    BY Zenon DEF getState
<1>2. running \subseteq {"Live", "Record"}
    BY NoReservationAssumption, Zenon
    DEF ActiveTokens, getReservationTokens, ReservationMap, Reservation, Activities
<1>3. "Record" \in running
    BY <1>1, <1>2, Zenon
<1>. QED  BY <1>3, Zenon DEF ActiveTokens, TokensOf

\* syncHybrid moves Lives to another channel and changes nothing else.
LEMMA SyncMap ==
    ASSUME NEW rs \in ReservationMap
    PROVE  /\ syncHybrid(rs) \in ReservationMap
           /\ \A k \in Tokens : rs[k] = NoReservation <=> syncHybrid(rs)[k] = NoReservation
           /\ \A k \in Tokens : rs[k] # NoReservation =>
                 /\ syncHybrid(rs)[k].device = rs[k].device
                 /\ syncHybrid(rs)[k].activity = rs[k].activity
                 /\ syncHybrid(rs)[k].state = rs[k].state
<1>1. CASE getState(rs) # "Hybrid"
    BY <1>1, Zenon DEF syncHybrid
<1>2. CASE getState(rs) = "Hybrid"
    <2>. DEFINE first == Min(TokensOf(rs, "Record", "ACTIVE"))
                retuned == TokensOf(rs, "Live", "ACTIVE")
    <2>1. TokensOf(rs, "Record", "ACTIVE") \subseteq Nat
        BY TokensAssumption, Zenon DEF TokensOf, getReservationTokens
    <2>2. first \in TokensOf(rs, "Record", "ACTIVE")
        BY <1>2, <2>1, HybridRecords, MinInSet, Zenon
    <2>3. rs[first].serviceLocator \in Locators
        BY <2>2, Zenon DEF TokensOf, getReservationTokens, ReservationMap, Reservation
    <2>4. ASSUME NEW k \in retuned
          PROVE  /\ k \in Tokens /\ rs[k] \in Reservation
                 /\ [rs[k] EXCEPT !.serviceLocator = rs[first].serviceLocator] \in Reservation
                 /\ [rs[k] EXCEPT !.serviceLocator = rs[first].serviceLocator].device = rs[k].device
                 /\ [rs[k] EXCEPT !.serviceLocator = rs[first].serviceLocator].activity = rs[k].activity
                 /\ [rs[k] EXCEPT !.serviceLocator = rs[first].serviceLocator].state = rs[k].state
        BY <2>3, Zenon DEF TokensOf, getReservationTokens, ReservationMap, Reservation
    <2>5. syncHybrid(rs) = [k \in Tokens |->
              IF k \in retuned
              THEN [rs[k] EXCEPT !.serviceLocator = rs[first].serviceLocator]
              ELSE rs[k]]
        BY <1>2, Zenon DEF syncHybrid
    <2>. HIDE DEF first, retuned
    <2>. QED  BY <2>4, <2>5, NoReservationAssumption DEF ReservationMap
<1>. QED  BY <1>1, <1>2, Zenon

-----------------------------------------------------------------------------
(* The invariants, over maps R, T and A.                                   *)

Consistent(R, T, A) ==
    /\ R \in [Tuners -> ReservationMap]
    /\ T \in [Tokens -> Timers \cup {NoTimers}]
    /\ A \in [Tokens -> Clients \cup {NoClient}]
    /\ \A k \in Tokens, t, u \in Tuners :
          R[t][k] # NoReservation /\ R[u][k] # NoReservation => t = u
    /\ \A k \in Tokens :
          /\ T[k] # NoTimers <=> A[k] # NoClient
          /\ T[k] # NoTimers => isHeld(R, k)
    /\ \A k \in Tokens, t \in Tuners : R[t][k] # NoReservation =>
          /\ R[t][k].state # "EXPIRED"
          /\ T[k] = NoTimers => R[t][k].state = "IDLE"
          /\ T[k] # NoTimers =>
                (T[k].start <=> R[t][k].state = "IDLE") /\ T[k].expire

Inv ==
    /\ TypeOK
    /\ TokenOnOneTuner
    /\ NoDanglingToken
    /\ TimersFollowState
    /\ OnlyTimedRun

\* The reservation that getReservation finds is the only one of its token, so
\* what holds of it holds of every reservation of the token, and conversely.
LEMMA InvIsConsistent ==
    Inv <=> Consistent(reservations, timers, attrs) /\ now \in Nat
<1>1. ASSUME NEW k \in Tokens, NEW t \in Tuners, TokenOnOneTuner,
             reservations[t][k] # NoReservation
      PROVE  isHeld(reservations, k) /\ getParent(reservations, k) = t
    BY <1>1, ParentHolds DEF isHeld, parents, TokenOnOneTuner
<1>2. ASSUME Inv
      PROVE  Consistent(reservations, timers, attrs) /\ now \in Nat
    <2>1. ASSUME NEW k \in Tokens, NEW t \in Tuners,
                 reservations[t][k] # NoReservation, timers[k] # NoTimers
          PROVE  /\ timers[k].start <=> reservations[t][k].state = "IDLE"
                 /\ timers[k].expire
        BY <1>1, <1>2, <2>1, Zenon DEF Inv, TimersFollowState, getReservation
    <2>. QED  BY <1>2, <2>1, Zenon DEF Inv, TypeOK, TokenOnOneTuner, NoDanglingToken,
                                OnlyTimedRun, Consistent
<1>3. ASSUME Consistent(reservations, timers, attrs), now \in Nat
      PROVE  Inv
    <2>1. TimersFollowState
        BY <1>3, ParentHolds, Zenon DEF Consistent, TimersFollowState, getReservation
    <2>. QED  BY <1>3, <2>1, Zenon DEF Inv, TypeOK, TokenOnOneTuner, NoDanglingToken,
                                OnlyTimedRun, Consistent
<1>. QED  BY <1>2, <1>3, Zenon

\* releaseReservation, of any number of tokens: what is released is on no
\* tuner afterwards, and what is not is where it was.
LEMMA WithoutMap ==
    ASSUME NEW R, NEW T, NEW A, Consistent(R, T, A), NEW S
    PROVE  /\ Without(R, S) \in [Tuners -> ReservationMap]
           /\ \A k \in Tokens, t \in Tuners :
                 Without(R, S)[t][k] = IF k \in S THEN NoReservation ELSE R[t][k]
<1>1. ASSUME NEW k \in Tokens, NEW t \in Tuners, R[t][k] # NoReservation
      PROVE  isHeld(R, k) /\ t = getParent(R, k)
    BY <1>1, ParentHolds DEF Consistent, isHeld, parents
<1>2. Without(R, S) \in [Tuners -> ReservationMap]
    BY Zenon DEF Consistent, Without, ReservationMap
<1>. QED  BY <1>1, <1>2, Zenon DEF Without

\* Releasing tokens from all three maps at once keeps them consistent.
LEMMA ReleaseConsistent ==
    ASSUME NEW R, NEW T, NEW A, Consistent(R, T, A), NEW S
    PROVE  Consistent(Without(R, S), Erased(T, S, NoTimers), Erased(A, S, NoClient))
<1>. DEFINE W == Without(R, S)
            E == Erased(T, S, NoTimers)
            B == Erased(A, S, NoClient)
<1>1. /\ W \in [Tuners -> ReservationMap]
      /\ \A k \in Tokens, t \in Tuners :
            W[t][k] = IF k \in S THEN NoReservation ELSE R[t][k]
    BY WithoutMap
<1>2. /\ E \in [Tokens -> Timers \cup {NoTimers}]
      /\ B \in [Tokens -> Clients \cup {NoClient}]
      /\ \A k \in Tokens : /\ E[k] = IF k \in S THEN NoTimers ELSE T[k]
                           /\ B[k] = IF k \in S THEN NoClient ELSE A[k]
    BY Zenon DEF Consistent, Erased
<1>. HIDE DEF W, E, B
<1>3. ASSUME NEW k \in Tokens, E[k] # NoTimers
      PROVE  isHeld(W, k)
    <2>1. k \notin S /\ isHeld(R, k)
        BY <1>2, <1>3, Zenon DEF Consistent
    <2>. QED  BY <1>1, <2>1, Zenon DEF isHeld, parents
<1>4. ASSUME NEW k \in Tokens, NEW t \in Tuners, W[t][k] # NoReservation
      PROVE  W[t][k] = R[t][k] /\ E[k] = T[k]
    BY <1>1, <1>2, <1>4, Zenon
<1>5. Consistent(W, E, B)
    <2>1. \A k \in Tokens : E[k] # NoTimers <=> B[k] # NoClient
        BY <1>2, Zenon DEF Consistent
    <2>2. \A k \in Tokens, t, u \in Tuners :
             W[t][k] # NoReservation /\ W[u][k] # NoReservation => t = u
        BY <1>4 DEF Consistent
    <2>3. \A k \in Tokens, t \in Tuners : W[t][k] # NoReservation =>
             /\ W[t][k].state # "EXPIRED"
             /\ E[k] = NoTimers => W[t][k].state = "IDLE"
             /\ E[k] # NoTimers =>
                   (E[k].start <=> W[t][k].state = "IDLE") /\ E[k].expire
        BY <1>4 DEF Consistent
    <2>. QED  BY <1>1, <1>2, <1>3, <2>1, <2>2, <2>3, Zenon DEF Consistent
<1>. QED  BY <1>5, Zenon DEF W, E, B

\* Adding a reservation under a token that nothing is held under keeps the
\* maps consistent, also when the tuner throws after inserting it.
LEMMA AddConsistent ==
    ASSUME NEW R, NEW T, NEW A, Consistent(R, T, A),
           NEW k \in Tokens, NEW r \in Reservation, NEW t \in Tuners, NEW c \in Clients,
           r.state = "IDLE", \A u \in Tuners : R[u][k] = NoReservation,
           addReservation(R, T, A, k, r, t, c)
    PROVE  /\ Consistent(reservations', timers', attrs')
           /\ \A j \in Tokens \ {k}, u \in Tuners : reservations'[u][j] = R[u][j]
           /\ \A u \in Tuners : reservations'[u][k] \in {r, NoReservation}
           /\ \A j \in Tokens \ {k} : timers'[j] = T[j]
           /\ timers'[k] = NoTimers => addReservationThrows(R[t], k, r)
<1>. DEFINE granted == ~addReservationThrows(R[t], k, r) /\ T[k] = NoTimers
<1>1. /\ reservations' = [R EXCEPT ![t] = Inserted(R[t], k, r)]
      /\ timers' = IF granted THEN [T EXCEPT ![k] = ArmedTimers] ELSE T
      /\ attrs' = IF granted THEN [A EXCEPT ![k] = c] ELSE A
    BY Zenon DEF addReservation
<1>2. /\ granted => ~Clashes(R[t], r)
      /\ ~granted /\ T[k] = NoTimers => addReservationThrows(R[t], k, r)
    BY Zenon DEF addReservationThrows
<1>. HIDE DEF granted
<1>3. R[t] \in ReservationMap
    BY Zenon DEF Consistent
<1>4. /\ reservations' \in [Tuners -> ReservationMap]
      /\ \A j \in Tokens \ {k}, u \in Tuners : reservations'[u][j] = R[u][j]
      /\ \A u \in Tuners \ {t} : reservations'[u][k] = NoReservation
      /\ reservations'[t][k] \in {r, NoReservation}
      /\ granted => reservations'[t][k] = r
    BY <1>1, <1>2, <1>3, InsertedMap DEF Consistent
<1>5. T[k] = NoTimers /\ A[k] = NoClient
    BY Zenon DEF Consistent, isHeld, parents
<1>6. /\ timers' \in [Tokens -> Timers \cup {NoTimers}]
      /\ attrs' \in [Tokens -> Clients \cup {NoClient}]
      /\ \A j \in Tokens \ {k} : timers'[j] = T[j] /\ attrs'[j] = A[j]
      /\ granted => timers'[k] = ArmedTimers /\ attrs'[k] = c
      /\ ~granted => timers'[k] = NoTimers /\ attrs'[k] = NoClient
    BY <1>1, <1>5, Zenon DEF Consistent, Timers, ArmedTimers
<1>7. \A j \in Tokens, u, v \in Tuners :
         reservations'[u][j] # NoReservation /\ reservations'[v][j] # NoReservation
         => u = v
    BY <1>4 DEF Consistent
<1>8. ASSUME NEW j \in Tokens
      PROVE  /\ timers'[j] # NoTimers <=> attrs'[j] # NoClient
             /\ timers'[j] # NoTimers => isHeld(reservations', j)
    <2>1. CASE j = k
        <3>1. ArmedTimers # NoTimers /\ c # NoClient /\ r # NoReservation
            <4>1. ArmedTimers \in Timers
                BY Zenon DEF ArmedTimers, Timers
            <4>. QED  BY <4>1, NoTimersAssumption, NoClientAssumption, NoReservationAssumption, Zenon
        <3>2. granted => isHeld(reservations', k)
            BY <1>4, <3>1, SMTT(60) DEF isHeld, parents
        <3>. QED  BY <2>1, <3>1, <3>2, <1>6, Zenon
    <2>2. CASE j # k
        BY <2>2, <1>4, <1>6 DEF Consistent, isHeld, parents
    <2>. QED  BY <2>1, <2>2, Zenon
<1>9. ASSUME NEW j \in Tokens, NEW u \in Tuners, reservations'[u][j] # NoReservation
      PROVE  /\ reservations'[u][j].state # "EXPIRED"
             /\ timers'[j] = NoTimers => reservations'[u][j].state = "IDLE"
             /\ timers'[j] # NoTimers =>
                   (timers'[j].start <=> reservations'[u][j].state = "IDLE") /\ timers'[j].expire
    <2>1. CASE j = k
        <3>1. reservations'[u][j] = r
            BY <1>4, <1>9, <2>1, ZenonT(60)
        <3>. QED  BY <2>1, <3>1, <1>6 DEF ArmedTimers
    <2>2. CASE j # k
        BY <2>2, <1>4, <1>6, <1>9 DEF Consistent
    <2>. QED  BY <2>1, <2>2, Zenon
<1>10. Consistent(reservations', timers', attrs')
    BY <1>4, <1>6, <1>7, <1>8, <1>9, Zenon DEF Consistent
<1>11. timers'[k] = NoTimers => addReservationThrows(R[t], k, r)
    <2>1. ArmedTimers # NoTimers
        <3>1. ArmedTimers \in Timers
            BY Zenon DEF ArmedTimers, Timers
        <3>. QED  BY <3>1, NoTimersAssumption, Zenon
    <2>. QED  BY <1>2, <1>5, <1>6, <2>1, Zenon
<1>. QED  BY <1>4, <1>6, <1>10, <1>11, Zenon

\* What a request asks for is a reservation that has not started.
LEMMA RequestsAreIdle ==
    \A r \in Requests : r \in Reservation /\ r.state = "IDLE"
<1>. TAKE r \in Requests
<1>1. PICK d \in Devices, l \in Locators, m \in Locators,
            w \in Windows, a \in Activities :
         r = [NewReservation(d, l, w[1], w[2], a) EXCEPT !.serviceLocator = m]
    BY DEF Requests
<1>2. w[1] \in Nat /\ w[2] \in Nat
    BY WindowsAssumption, Zenon
<1>3. (a = "Live" /\ l \in EasLocators) \in BOOLEAN
    BY Zenon
<1>. QED  BY <1>1, <1>2, <1>3, Zenon DEF NewReservation, Reservation, ReservationStates

-----------------------------------------------------------------------------
(* Every action keeps the invariant.                                       *)

\* Initially no tuner holds anything and no map has an entry.
LEMMA InitInv == Init => Inv
<1>. SUFFICES ASSUME Init
              PROVE  Consistent(reservations, timers, attrs) /\ now \in Nat
    BY InvIsConsistent, Zenon
<1>. QED  BY Zenon DEF Init, Consistent, ReservationMap

\* A grant under a token no tuner holds.
LEMMA GrantNewInv ==
    ASSUME Inv, NEW k \in Tokens, NEW t \in Tuners, NEW c \in Clients,
           NEW r \in Requests, GrantNew(k, r, t, c)
    PROVE  Consistent(reservations', timers', attrs') /\ now' \in Nat
<1>1. Consistent(reservations, timers, attrs) /\ now \in Nat
    BY InvIsConsistent, Zenon
<1>2. \A u \in Tuners : reservations[u][k] = NoReservation
    BY Zenon DEF GrantNew, isHeld, parents
<1>3. addReservation(reservations, timers, attrs, k, r, t, c)
    BY Zenon DEF GrantNew
<1>4. Consistent(reservations', timers', attrs')
    BY <1>1, <1>2, <1>3, AddConsistent, RequestsAreIdle, Zenon
<1>. QED  BY <1>1, <1>3, <1>4, Zenon DEF addReservation

\* A grant that keeps the token goes through maps without it.
LEMMA GrantAgainInv ==
    ASSUME Inv, NEW k \in Tokens, NEW t \in Tuners, NEW c \in Clients,
           NEW r \in Requests, GrantAgain(k, r, t, c)
    PROVE  /\ Consistent(reservations', timers', attrs') /\ now' \in Nat
           /\ \A j \in Tokens \ {k}, u \in Tuners : reservations'[u][j] = reservations[u][j]
           /\ \A u \in Tuners : reservations'[u][k] \in {r, NoReservation}
           /\ \A j \in Tokens \ {k} : timers'[j] = timers[j]
           /\ timers'[k] = NoTimers =>
                 addReservationThrows(Without(reservations, {k})[t], k, r)
<1>. DEFINE W == Without(reservations, {k})
            E == Erased(timers, {k}, NoTimers)
            B == Erased(attrs, {k}, NoClient)
<1>1. Consistent(reservations, timers, attrs) /\ now \in Nat
    BY InvIsConsistent, Zenon
<1>2. Consistent(W, E, B)
    BY <1>1, ReleaseConsistent, Zenon
<1>3. \A j \in Tokens, u \in Tuners :
         W[u][j] = IF j \in {k} THEN NoReservation ELSE reservations[u][j]
    BY <1>1, WithoutMap, Zenon
<1>4. addReservation(W, E, B, k, r, t, c)
    BY Zenon DEF GrantAgain
<1>5. \A j \in Tokens \ {k} : E[j] = timers[j]
    BY Zenon DEF Erased
<1>. HIDE DEF W, E, B
<1>6. now' = now
    BY <1>4, Zenon DEF addReservation
<1>7. /\ Consistent(reservations', timers', attrs')
      /\ \A j \in Tokens \ {k}, u \in Tuners : reservations'[u][j] = W[u][j]
      /\ \A u \in Tuners : reservations'[u][k] \in {r, NoReservation}
      /\ \A j \in Tokens \ {k} : timers'[j] = E[j]
      /\ timers'[k] = NoTimers => addReservationThrows(W[t], k, r)
    BY <1>2, <1>3, <1>4, AddConsistent, RequestsAreIdle, SMTT(60)
<1>. QED  BY <1>1, <1>3, <1>6, <1>7, <1>5, ZenonT(60) DEF W

\* A token that is held and has no attributes has no timers either, so
\* releaseReservation either erases it from every map or changes nothing.
LEMMA ReleaseInv ==
    ASSUME Inv, NEW S, S \subseteq Tokens, Release(S)
    PROVE  /\ Consistent(reservations', timers', attrs') /\ now' \in Nat
           /\ \A k \in Tokens, t \in Tuners :
                 reservations'[t][k] \in {reservations[t][k], NoReservation}
<1>. DEFINE K == {k \in S : Releasable(k)}
<1>1. Consistent(reservations, timers, attrs) /\ now \in Nat
    BY InvIsConsistent, Zenon
<1>2. Erased(timers, {k \in S : isHeld(reservations, k)}, NoTimers)
      = Erased(timers, K, NoTimers)
    BY <1>1, Zenon DEF Consistent, Erased, Releasable
<1>3. /\ reservations' = Without(reservations, K)
      /\ timers' = Erased(timers, K, NoTimers)
      /\ attrs' = Erased(attrs, K, NoClient)
      /\ now' = now
    BY <1>2, Zenon DEF Release
<1>. HIDE DEF K
<1>4. Consistent(reservations', timers', attrs')
    BY <1>1, <1>3, ReleaseConsistent, Zenon
<1>5. \A k \in Tokens, t \in Tuners :
         reservations'[t][k] \in {reservations[t][k], NoReservation}
    BY <1>1, <1>3, WithoutMap
<1>. QED  BY <1>1, <1>3, <1>4, <1>5, Zenon

\* The start task turns an IDLE reservation ACTIVE and may retune others.
LEMMA StartInv ==
    ASSUME Inv, NEW k \in Tokens, Start(k)
    PROVE  /\ Consistent(reservations', timers', attrs') /\ now' \in Nat
           /\ \A j \in Tokens, t \in Tuners :
                 /\ reservations'[t][j] = NoReservation <=> reservations[t][j] = NoReservation
                 /\ reservations[t][j] # NoReservation =>
                      /\ reservations'[t][j].device = reservations[t][j].device
                      /\ reservations'[t][j].activity = reservations[t][j].activity
           /\ \A j \in Tokens : timers[j] # NoTimers => timers'[j] # NoTimers
<1>. DEFINE p == getParent(reservations, k)
            s == StartedOn(k)
<1>1. Consistent(reservations, timers, attrs) /\ now \in Nat
    BY InvIsConsistent, Zenon
<1>2. timers[k] # NoTimers /\ timers[k].start /\ isHeld(reservations, k)
    BY Zenon DEF Start, StartEnabled
<1>3. p \in Tuners /\ reservations[p][k] # NoReservation
    BY <1>2, ParentHolds, Zenon
<1>4. reservations[p][k].state = "IDLE"
    BY <1>1, <1>2, <1>3, Zenon DEF Consistent
<1>5. reservations' = [reservations EXCEPT ![p] = syncHybrid(s)]
    BY <1>4, Zenon DEF Start, Started, getReservation
<1>6. reservations[p] \in ReservationMap /\ reservations[p][k] \in Reservation
    BY <1>1, <1>3, SMTT(60) DEF Consistent, ReservationMap
<1>7. /\ s \in ReservationMap
      /\ \A j \in Tokens \ {k} : s[j] = reservations[p][j]
      /\ s[k] \in Reservation /\ s[k].state = "ACTIVE"
      /\ s[k].device = reservations[p][k].device
      /\ s[k].activity = reservations[p][k].activity
    <2>1. s = [reservations[p] EXCEPT ![k] = [reservations[p][k] EXCEPT !.state = "ACTIVE"]]
        BY Zenon DEF StartedOn
    <2>2. [reservations[p][k] EXCEPT !.state = "ACTIVE"] \in Reservation
        BY <1>6, ZenonT(60) DEF Reservation, ReservationStates
    <2>. QED  BY <1>6, <2>1, <2>2 DEF ReservationMap, Reservation
<1>. HIDE DEF p, s
<1>8. /\ reservations' \in [Tuners -> ReservationMap]
      /\ \A j \in Tokens, t \in Tuners : t # p => reservations'[t][j] = reservations[t][j]
      /\ \A j \in Tokens : reservations'[p][j] = syncHybrid(s)[j]
    BY <1>1, <1>3, <1>5, <1>7, SyncMap, SMTT(60) DEF Consistent
<1>9. ASSUME NEW j \in Tokens, NEW t \in Tuners
      PROVE  /\ reservations'[t][j] = NoReservation <=> reservations[t][j] = NoReservation
             /\ reservations[t][j] # NoReservation =>
                  /\ reservations'[t][j].device = reservations[t][j].device
                  /\ reservations'[t][j].activity = reservations[t][j].activity
                  /\ reservations'[t][j].state =
                        IF j = k THEN "ACTIVE" ELSE reservations[t][j].state
    <2>1. CASE t # p
        <3>1. reservations[t][k] = NoReservation
            BY <1>1, <1>3, <2>1, ZenonT(60) DEF Consistent
        <3>. QED  BY <1>8, <2>1, <3>1, Zenon
    <2>2. CASE t = p /\ j # k
        BY <1>7, <1>8, <2>2, SyncMap, SMTT(60)
    <2>3. CASE t = p /\ j = k
        BY <1>3, <1>7, <1>8, <2>3, SyncMap, NoReservationAssumption, SMTT(60)
    <2>. QED  BY <2>1, <2>2, <2>3, Zenon
<1>10. /\ timers' \in [Tokens -> Timers \cup {NoTimers}]
       /\ \A j \in Tokens \ {k} : timers'[j] = timers[j]
       /\ timers'[k] \in Timers /\ ~timers'[k].start
       /\ timers'[k].expire = timers[k].expire
    <2>1. timers' = [timers EXCEPT ![k] = [timers[k] EXCEPT !.start = FALSE]]
        BY Zenon DEF Start
    <2>2. timers[k] \in Timers
        BY <1>1, <1>2, Zenon DEF Consistent
    <2>. QED  BY <1>1, <2>1, <2>2, Zenon DEF Consistent, Timers
<1>11. timers'[k] # NoTimers
    BY <1>10, NoTimersAssumption, Zenon
<1>12. attrs' = attrs /\ now' = now
    BY Zenon DEF Start
<1>13. \A j \in Tokens : isHeld(reservations', j) <=> isHeld(reservations, j)
    BY <1>9, Zenon DEF isHeld, parents
<1>14. ASSUME NEW j \in Tokens, NEW t \in Tuners, reservations'[t][j] # NoReservation
       PROVE  /\ reservations'[t][j].state # "EXPIRED"
              /\ timers'[j] = NoTimers => reservations'[t][j].state = "IDLE"
              /\ timers'[j] # NoTimers =>
                   (timers'[j].start <=> reservations'[t][j].state = "IDLE") /\ timers'[j].expire
    <2>1. CASE j = k
        BY <1>1, <1>2, <1>9, <1>10, <1>11, <1>14, <2>1, ZenonT(60) DEF Consistent
    <2>2. CASE j # k
        BY <1>1, <1>9, <1>10, <1>14, <2>2, SMTT(60) DEF Consistent
    <2>. QED  BY <2>1, <2>2, Zenon
<1>15. \A j \in Tokens, t, u \in Tuners :
          reservations'[t][j] # NoReservation /\ reservations'[u][j] # NoReservation => t = u
    BY <1>1, <1>9, SMTT(60) DEF Consistent
<1>16. \A j \in Tokens :
          /\ timers'[j] # NoTimers <=> attrs'[j] # NoClient
          /\ timers'[j] # NoTimers => isHeld(reservations', j)
    BY <1>1, <1>2, <1>10, <1>11, <1>12, <1>13, SMTT(60) DEF Consistent
<1>17. Consistent(reservations', timers', attrs')
    BY <1>1, <1>8, <1>10, <1>12, <1>14, <1>15, <1>16, ZenonT(60) DEF Consistent
<1>18. \A j \in Tokens : timers[j] # NoTimers => timers'[j] # NoTimers
    BY <1>10, <1>11, Zenon
<1>. QED  BY <1>1, <1>9, <1>12, <1>17, <1>18, Zenon

\* The expire task finds its token releasable, so it releases it.
LEMMA ExpireInv ==
    ASSUME Inv, NEW k \in Tokens, Expire(k)
    PROVE  /\ Consistent(reservations', timers', attrs') /\ now' \in Nat
           /\ \A j \in Tokens, t \in Tuners :
                 reservations'[t][j] \in {reservations[t][j], NoReservation}
<1>1. Consistent(reservations, timers, attrs) /\ now \in Nat
    BY InvIsConsistent, Zenon
<1>2. Releasable(k)
    BY <1>1, Zenon DEF Expire, Releasable, Consistent
<1>3. /\ reservations' = Without(reservations, {k})
      /\ timers' = Erased(timers, {k}, NoTimers)
      /\ attrs' = Erased(attrs, {k}, NoClient)
      /\ now' = now
    BY <1>1, <1>2, Zenon DEF Expire, Erased, Consistent
<1>4. Consistent(reservations', timers', attrs')
    BY <1>1, <1>3, ReleaseConsistent, ZenonT(60)
<1>5. \A j \in Tokens, t \in Tuners :
         reservations'[t][j] \in {reservations[t][j], NoReservation}
    BY <1>1, <1>3, WithoutMap
<1>. QED  BY <1>1, <1>3, <1>4, <1>5, Zenon

\* Every step of the Manager keeps the invariant.
LEMMA NextInv ==
    ASSUME Inv, [Next]_managerVars
    PROVE  Inv'
<1>1. Consistent(reservations, timers, attrs) /\ now \in Nat
    BY InvIsConsistent, Zenon
<1>2. (Consistent(reservations', timers', attrs') /\ now' \in Nat) => Inv'
    <2>1. (Consistent(reservations, timers, attrs) /\ now \in Nat)' => Inv'
        BY InvIsConsistent, PTL
    <2>. QED  BY <2>1, Zenon
<1>3. CASE Grant
    <2>1. PICK k \in Tokens, t \in Tuners, c \in Clients, r \in Requests :
             GrantNew(k, r, t, c) \/ GrantAgain(k, r, t, c)
        BY <1>3, Zenon DEF Grant
    <2>. QED  BY <1>2, <2>1, GrantNewInv, GrantAgainInv, Zenon
<1>4. CASE ReleaseOne
    BY <1>2, <1>4, ReleaseInv, Zenon DEF ReleaseOne
<1>5. CASE ReleaseClient
    <2>1. PICK c \in Clients : Release(tokensOfClient(c))
        BY <1>5, Zenon DEF ReleaseClient
    <2>2. tokensOfClient(c) \subseteq Tokens
        BY ZenonT(60) DEF tokensOfClient
    <2>. QED  BY <1>2, <2>1, <2>2, ReleaseInv, Zenon
<1>6. ASSUME NEW k \in Tokens, Start(k)
      PROVE  Inv'
    BY <1>1, <1>2, <1>6, StartInv, SMTT(60)
<1>7. ASSUME NEW k \in Tokens, Expire(k)
      PROVE  Inv'
    BY <1>2, <1>7, ExpireInv, Zenon
<1>8. CASE Tick
    BY <1>1, <1>2, <1>8, SMTT(60) DEF Tick
<1>9. CASE UNCHANGED managerVars
    BY <1>1, <1>2, <1>9, Zenon DEF managerVars
<1>. QED  BY <1>3, <1>4, <1>5, <1>6, <1>7, <1>8, <1>9, ZenonT(60) DEF Next

-----------------------------------------------------------------------------
(* What holds of the Manager.                                              *)

\* The maps of the Manager stay consistent with each other, whatever the
\* clients ask for and whichever timers fire.
THEOREM Invariance == Spec => []Inv
<1>1. Inv /\ [Next]_managerVars => Inv'
    BY NextInv, Zenon
<1>. QED  BY <1>1, InitInv, PTL DEF Spec

\* A value of the right type in every map, in particular no time before 0.
THEOREM TypeCorrect == Spec => []TypeOK
    BY Invariance, PTL DEF Inv

\* No token is ever on two tuners.
THEOREM OneTunerPerToken == Spec => []TokenOnOneTuner
    BY Invariance, PTL DEF Inv

\* Timers and attributes exist together and only for a held token, so neither
\* the timer tasks nor the disconnect handler meets a token that is gone.
THEOREM NothingDangles == Spec => []NoDanglingToken
    BY Invariance, PTL DEF Inv

\* The start timer is armed exactly while the reservation is IDLE, and the
\* expire timer for as long as there is one.
THEOREM TimersAgree == Spec => []TimersFollowState
    BY Invariance, PTL DEF Inv

\* EXPIRED is never seen between two handlers, and nothing runs untimed.
THEOREM NothingRunsUntimed == Spec => []OnlyTimedRun
    BY Invariance, PTL DEF Inv

-----------------------------------------------------------------------------
(* How the life of a token is read off the maps.                           *)

\* A token's life is what its own entries of the maps say.
LEMMA LifeFollowsMaps ==
    ASSUME NEW k \in Tokens, timers'[k] = timers[k],
           isHeld(reservations', k) <=> isHeld(reservations, k)
    PROVE  LifeOf(k)' = LifeOf(k)
    BY Zenon DEF LifeOf, isHeld, parents

\* Owned tokens are those with timers, which a client owns.
LEMMA OwnedHasTimers ==
    ASSUME Inv, NEW k \in Tokens
    PROVE  /\ LifeOf(k) \in {"granted", "running"} <=> timers[k] # NoTimers
           /\ LifeOf(k) = "free" <=> ~isHeld(reservations, k)
           /\ timers[k] # NoTimers <=> attrs[k] # NoClient
    BY Zenon DEF LifeOf, Inv, NoDanglingToken

\* A step that changes the life of one token only.
LEMMA OneTokenBecomes ==
    ASSUME NEW k \in Tokens, NEW how, NEW whose,
           attrs \in [Tokens -> Clients \cup {NoClient}],
           attrs' \in [Tokens -> Clients \cup {NoClient}],
           LifeOf(k)' = how, attrs'[k] = whose,
           \A j \in Tokens \ {k} : LifeOf(j)' = LifeOf(j) /\ attrs'[j] = attrs[j]
    PROVE  Life!Becomes(k, how, whose)
    BY Zenon DEF Life!Becomes

-----------------------------------------------------------------------------
(* The actions, as steps in the life of a token.                           *)

\* addReservation gives the token to the client or leaves it without timers,
\* and touches no other token.
LEMMA AddIsGiveOrRefuse ==
    ASSUME Inv, NEW R, NEW T, NEW A, Consistent(R, T, A),
           NEW k \in Tokens, NEW r \in Reservation, NEW t \in Tuners, NEW c \in Clients,
           r.state = "IDLE", \A u \in Tuners : R[u][k] = NoReservation,
           \A j \in Tokens \ {k} :
                /\ T[j] = timers[j] /\ A[j] = attrs[j]
                /\ \A u \in Tuners : R[u][j] = reservations[u][j],
           LifeOf(k) \in {"free", "granted", "running"},
           addReservation(R, T, A, k, r, t, c)
    PROVE  Life!Give(k, c) \/ Life!Refuse(k)
<1>1. /\ Consistent(reservations', timers', attrs')
      /\ \A j \in Tokens \ {k}, u \in Tuners : reservations'[u][j] = R[u][j]
    BY AddConsistent, SMTT(60)
<1>2. T[k] = NoTimers /\ A[k] = NoClient
    BY DEF Consistent, isHeld, parents
<1>3. /\ \A j \in Tokens \ {k} : timers'[j] = T[j] /\ attrs'[j] = A[j]
      /\ \/ timers'[k] = ArmedTimers /\ attrs'[k] = c
         \/ timers'[k] = NoTimers /\ attrs'[k] = NoClient
    BY <1>2, ZenonT(60) DEF addReservation, Consistent
<1>4. ASSUME NEW j \in Tokens \ {k}
      PROVE  LifeOf(j)' = LifeOf(j) /\ attrs'[j] = attrs[j]
    <2>1. \A u \in Tuners : reservations'[u][j] = reservations[u][j]
        BY <1>1, ZenonT(60)
    <2>2. isHeld(reservations', j) <=> isHeld(reservations, j)
        BY <2>1 DEF isHeld, parents
    <2>3. timers'[j] = timers[j] /\ attrs'[j] = attrs[j]
        BY <1>3, Zenon
    <2>. QED  BY <2>2, <2>3, LifeFollowsMaps, Zenon
<1>5. attrs \in [Tokens -> Clients \cup {NoClient}] /\ attrs' \in [Tokens -> Clients \cup {NoClient}]
    BY <1>1, Zenon DEF Consistent, Inv, TypeOK
<1>6. CASE timers'[k] = ArmedTimers /\ attrs'[k] = c
    <2>1. ArmedTimers # NoTimers /\ ArmedTimers.start
        <3>1. ArmedTimers \in Timers
            BY Zenon DEF ArmedTimers, Timers
        <3>. QED  BY <3>1, NoTimersAssumption, Zenon DEF ArmedTimers
    <2>2. LifeOf(k)' = "granted"
        BY <1>6, <2>1, Zenon DEF LifeOf
    <2>3. Life!Becomes(k, "granted", c)
        BY <1>4, <1>5, <1>6, <2>2, OneTokenBecomes, Zenon
    <2>. QED  BY <2>3, Zenon DEF Life!Give, Life!Owned
<1>7. CASE timers'[k] = NoTimers /\ attrs'[k] = NoClient
    <2>1. LifeOf(k)' \in {"free", "orphan"}
        BY <1>7, Zenon DEF LifeOf
    <2>2. PICK how \in {"free", "orphan"} : LifeOf(k)' = how
        BY <2>1, Zenon
    <2>3. Life!Becomes(k, how, NoClient)
        BY <1>4, <1>5, <1>7, <2>2, OneTokenBecomes, Zenon
    <2>. QED  BY <2>3, Zenon DEF Life!Refuse, Life!Owned
<1>. QED  BY <1>3, <1>6, <1>7, ZenonT(60)

\* A grant gives or refuses the token it is about.
LEMMA GrantIsGiveOrRefuse ==
    ASSUME Inv, NEW k \in Tokens, NEW t \in Tuners, NEW c \in Clients,
           NEW r \in Requests, GrantNew(k, r, t, c) \/ GrantAgain(k, r, t, c)
    PROVE  Life!Give(k, c) \/ Life!Refuse(k)
<1>1. Consistent(reservations, timers, attrs)
    BY InvIsConsistent, Zenon
<1>2. r \in Reservation /\ r.state = "IDLE"
    BY RequestsAreIdle, Zenon
<1>3. CASE GrantNew(k, r, t, c)
    <2>1. \A u \in Tuners : reservations[u][k] = NoReservation
        BY <1>3, Zenon DEF GrantNew, isHeld, parents
    <2>2. addReservation(reservations, timers, attrs, k, r, t, c)
        BY <1>3, Zenon DEF GrantNew
    <2>3. LifeOf(k) = "free"
        BY <1>3, OwnedHasTimers, ZenonT(60) DEF GrantNew
    <2>. QED  BY <1>1, <1>2, <2>1, <2>2, <2>3, AddIsGiveOrRefuse, ZenonT(60)
<1>4. CASE GrantAgain(k, r, t, c)
    <2>. DEFINE W == Without(reservations, {k})
                E == Erased(timers, {k}, NoTimers)
                B == Erased(attrs, {k}, NoClient)
    <2>1. Consistent(W, E, B)
        BY <1>1, ReleaseConsistent, Zenon
    <2>2. \A j \in Tokens, u \in Tuners :
             W[u][j] = IF j \in {k} THEN NoReservation ELSE reservations[u][j]
        BY <1>1, WithoutMap, Zenon
    <2>3. \A j \in Tokens \ {k} : E[j] = timers[j] /\ B[j] = attrs[j]
        BY Zenon DEF Erased
    <2>4. addReservation(W, E, B, k, r, t, c)
        BY <1>4, Zenon DEF GrantAgain
    <2>5. LifeOf(k) \in {"granted", "running"}
        BY <1>4, OwnedHasTimers, Zenon DEF GrantAgain, Releasable
    <2>. HIDE DEF W, E, B
    <2>. QED  BY <1>2, <2>1, <2>2, <2>3, <2>4, <2>5, AddIsGiveOrRefuse, SMTT(60)
<1>. QED  BY <1>3, <1>4, Zenon

\* Tokens that are erased from all the maps are free, and no other changes.
LEMMA ErasedIsFree ==
    ASSUME Inv, NEW S, S \subseteq Tokens,
           reservations' = Without(reservations, S),
           timers' = Erased(timers, S, NoTimers),
           attrs' = Erased(attrs, S, NoClient)
    PROVE  /\ \A k \in S : LifeOf(k)' = "free" /\ attrs'[k] = NoClient
           /\ \A k \in Tokens \ S : LifeOf(k)' = LifeOf(k) /\ attrs'[k] = attrs[k]
           /\ attrs' \in [Tokens -> Clients \cup {NoClient}]
<1>1. Consistent(reservations, timers, attrs)
    BY InvIsConsistent, Zenon
<1>2. \A k \in Tokens, t \in Tuners :
         reservations'[t][k] = IF k \in S THEN NoReservation ELSE reservations[t][k]
    BY <1>1, WithoutMap
<1>3. /\ \A k \in S : timers'[k] = NoTimers /\ attrs'[k] = NoClient
      /\ \A k \in Tokens \ S : timers'[k] = timers[k] /\ attrs'[k] = attrs[k]
      /\ attrs' \in [Tokens -> Clients \cup {NoClient}]
    BY <1>1, Zenon DEF Erased, Consistent
<1>4. ASSUME NEW k \in S
      PROVE  LifeOf(k)' = "free"
    <2>1. ~isHeld(reservations', k)
        BY <1>2, Zenon DEF isHeld, parents
    <2>. QED  BY <1>3, <2>1, Zenon DEF LifeOf, isHeld, parents
<1>5. ASSUME NEW k \in Tokens \ S
      PROVE  LifeOf(k)' = LifeOf(k)
    <2>1. isHeld(reservations', k) <=> isHeld(reservations, k)
        BY <1>2, Zenon DEF isHeld, parents
    <2>. QED  BY <1>3, <2>1, LifeFollowsMaps, Zenon
<1>. QED  BY <1>3, <1>4, <1>5, Zenon

\* A token that is erased from all the maps has ended.
LEMMA ErasedIsEnd ==
    ASSUME Inv, NEW k \in Tokens, Releasable(k),
           reservations' = Without(reservations, {k}),
           timers' = Erased(timers, {k}, NoTimers),
           attrs' = Erased(attrs, {k}, NoClient)
    PROVE  Life!End(k)
<1>1. /\ LifeOf(k)' = "free" /\ attrs'[k] = NoClient
      /\ \A j \in Tokens \ {k} : LifeOf(j)' = LifeOf(j) /\ attrs'[j] = attrs[j]
      /\ attrs' \in [Tokens -> Clients \cup {NoClient}]
    BY ErasedIsFree, Zenon
<1>2. Life!Becomes(k, "free", NoClient)
    BY <1>1, OneTokenBecomes, Zenon DEF Inv, TypeOK
<1>3. LifeOf(k) \in {"granted", "running"}
    BY OwnedHasTimers, Zenon DEF Releasable
<1>. QED  BY <1>2, <1>3, Zenon DEF Life!End, Life!Owned
\* A release ends the token, or does nothing when it has no attributes.
LEMMA ReleaseOneIsEnd ==
    ASSUME Inv, NEW k \in Tokens, Release({k})
    PROVE  Life!End(k) \/ UNCHANGED Life!lifeVars
<1>1. Consistent(reservations, timers, attrs)
    BY InvIsConsistent, Zenon
<1>2. CASE Releasable(k)
    <2>1. {j \in {k} : Releasable(j)} = {k} /\ {j \in {k} : isHeld(reservations, j)} = {k}
        BY <1>2, Zenon DEF Releasable
    <2>. QED  BY <1>2, <2>1, ErasedIsEnd, Zenon DEF Release
<1>3. CASE ~Releasable(k)
    <2>. DEFINE none == {j \in {k} : Releasable(j)}
    <2>1. none \subseteq Tokens /\ \A j \in Tokens : j \notin none
        BY <1>3, Zenon
    <2>2. isHeld(reservations, k) => timers[k] = NoTimers
        BY <1>1, <1>3, Zenon DEF Releasable, Consistent
    <2>3. /\ reservations' = Without(reservations, none)
          /\ timers' = Erased(timers, {j \in {k} : isHeld(reservations, j)}, NoTimers)
          /\ attrs' = Erased(attrs, none, NoClient)
        BY Zenon DEF Release
    <2>. HIDE DEF none
    <2>4. timers' = Erased(timers, none, NoTimers)
        BY <2>1, <2>2, <2>3, Zenon DEF Erased
    <2>5. \A j \in Tokens \ none : LifeOf(j)' = LifeOf(j)
        BY <2>1, <2>3, <2>4, ErasedIsFree, Zenon
    <2>6. attrs' = attrs
        BY <1>1, <2>1, <2>3, Zenon DEF Erased, Consistent
    <2>. QED  BY <2>1, <2>5, <2>6, Zenon DEF Life!lifeVars
<1>. QED  BY <1>2, <1>3, Zenon

\* Everything a client owns can be released, so that it leaves with all of it.
LEMMA ReleaseClientIsLeave ==
    ASSUME Inv, NEW c \in Clients, Release(tokensOfClient(c))
    PROVE  Life!Leave(c)
<1>. DEFINE S == tokensOfClient(c)
<1>1. Consistent(reservations, timers, attrs)
    BY InvIsConsistent, Zenon
<1>2. \A k \in S : k \in Tokens /\ Releasable(k) /\ isHeld(reservations, k)
    BY <1>1, NoClientAssumption, Zenon DEF tokensOfClient, Releasable, Consistent
<1>3. {k \in S : Releasable(k)} = S /\ {k \in S : isHeld(reservations, k)} = S
    BY <1>2, Zenon
<1>4. /\ reservations' = Without(reservations, S)
      /\ timers' = Erased(timers, S, NoTimers)
      /\ attrs' = Erased(attrs, S, NoClient)
    BY <1>3, Zenon DEF Release
<1>5. \A k \in Tokens : k \in S <=> attrs[k] = c
    BY Zenon DEF tokensOfClient
<1>. HIDE DEF S
<1>6. /\ \A k \in S : LifeOf(k)' = "free" /\ attrs'[k] = NoClient
      /\ \A k \in Tokens \ S : LifeOf(k)' = LifeOf(k) /\ attrs'[k] = attrs[k]
      /\ attrs' \in [Tokens -> Clients \cup {NoClient}]
    BY <1>2, <1>4, ErasedIsFree, Zenon
<1>. QED  BY <1>5, <1>6, Zenon DEF Life!Leave

\* The start task runs the token whose timer it is.
LEMMA StartIsRun ==
    ASSUME Inv, NEW k \in Tokens, Start(k)
    PROVE  Life!Run(k)
<1>1. \A j \in Tokens, t \in Tuners :
         reservations'[t][j] = NoReservation <=> reservations[t][j] = NoReservation
    BY StartInv, Zenon
<1>2. \A j \in Tokens : isHeld(reservations', j) <=> isHeld(reservations, j)
    BY <1>1, Zenon DEF isHeld, parents
<1>3. timers[k] \in Timers /\ timers[k] # NoTimers /\ timers[k].start
    BY Zenon DEF Start, StartEnabled, Inv, TypeOK
<1>4. /\ timers'[k] \in Timers /\ ~timers'[k].start
      /\ \A j \in Tokens \ {k} : timers'[j] = timers[j]
      /\ attrs' = attrs
    BY <1>3, Zenon DEF Start, Inv, TypeOK, Timers
<1>5. LifeOf(k) = "granted" /\ LifeOf(k)' = "running"
    BY <1>3, <1>4, NoTimersAssumption, Zenon DEF LifeOf
<1>6. \A j \in Tokens \ {k} : LifeOf(j)' = LifeOf(j)
    BY <1>2, <1>4, LifeFollowsMaps, Zenon
<1>7. Life!Becomes(k, "running", attrs[k])
    BY <1>4, <1>5, <1>6, OneTokenBecomes, Zenon DEF Inv, TypeOK
<1>. QED  BY <1>5, <1>7, Zenon DEF Life!Run

\* The expire task ends the token whose timer it is.
LEMMA ExpireIsEnd ==
    ASSUME Inv, NEW k \in Tokens, Expire(k)
    PROVE  Life!End(k)
<1>1. Consistent(reservations, timers, attrs)
    BY InvIsConsistent, Zenon
<1>2. Releasable(k)
    BY <1>1, Zenon DEF Expire, Releasable, Consistent
<1>3. /\ reservations' = Without(reservations, {k})
      /\ timers' = Erased(timers, {k}, NoTimers)
      /\ attrs' = Erased(attrs, {k}, NoClient)
    BY <1>1, <1>2, Zenon DEF Expire, Erased, Consistent
<1>. QED  BY <1>2, <1>3, ErasedIsEnd, Zenon

\* Every step of the Manager is a step of module Token or none.
LEMMA StepImplements ==
    ASSUME Inv, [Next]_managerVars
    PROVE  [Life!Next]_(Life!lifeVars)
<1>1. CASE Grant
    BY <1>1, GrantIsGiveOrRefuse, Zenon DEF Grant, Life!Next
<1>2. CASE ReleaseOne
    BY <1>2, ReleaseOneIsEnd, Zenon DEF ReleaseOne, Life!Next
<1>3. CASE ReleaseClient
    BY <1>3, ReleaseClientIsLeave, Zenon DEF ReleaseClient, Life!Next
<1>4. ASSUME NEW k \in Tokens, Start(k) \/ Expire(k)
      PROVE  Life!Next
    BY <1>4, StartIsRun, ExpireIsEnd, Zenon DEF Life!Next
<1>5. CASE Tick \/ UNCHANGED managerVars
    <2>1. reservations' = reservations /\ timers' = timers /\ attrs' = attrs
        BY <1>5, Zenon DEF Tick, managerVars
    <2>. QED  BY <2>1, Zenon DEF LifeOf, isHeld, parents, Life!lifeVars
<1>. QED  BY <1>1, <1>2, <1>3, <1>4, <1>5, ZenonT(60) DEF Next

\* The Manager implements the life cycle of tokens that module Token states,
\* whatever the tuners, the clients, the programmes and the times are.
THEOREM ManagerKeepsLives == Spec => ImplementsToken
<1>1. Init => Life!Init
    BY DEF Init, Life!Init, LifeOf, isHeld, parents
<1>2. Inv /\ [Next]_managerVars => [Life!Next]_(Life!lifeVars)
    BY StepImplements, Zenon
<1>. QED  BY <1>1, <1>2, Invariance, PTL DEF Spec, ImplementsToken, Life!Spec

-----------------------------------------------------------------------------
(* How a tuner is chosen.                                                  *)

\* A search that stops at the first hit returns a hit, or nothing.
LEMMA FirstOfIn ==
    ASSUME NEW S, S \subseteq Nat, NEW nothing
    PROVE  /\ FirstOf(S, nothing) \in S \cup {nothing}
           /\ S # {} => FirstOf(S, nothing) \in S
    BY MinInSet, Zenon DEF FirstOf

\* A search without a break returns the last hit.
LEMMA MaxInTuners ==
    ASSUME NEW S, S \subseteq Tuners, S # {}
    PROVE  Max(S) \in S
<1>1. PICK last \in Tuners : \A t \in Tuners : t <= last
    BY LastTunerAssumption, Zenon
<1>. DEFINE D == {last - t : t \in S}
<1>2. last \in Nat /\ \A t \in S : t \in Nat /\ last - t \in Nat
    BY <1>1, TunersAssumption
<1>3. D \subseteq Nat /\ D # {}
    BY <1>2, Zenon
<1>4. Min(D) \in D /\ \A x \in D : Min(D) <= x
    BY <1>3, MinInSet, Zenon
<1>5. PICK m \in S : Min(D) = last - m
    BY <1>4, Zenon
<1>6. ASSUME NEW t \in S
      PROVE  m >= t
    <2>1. last - m <= last - t
        BY <1>4, <1>5, Zenon
    <2>2. last \in Nat /\ m \in Nat /\ t \in Nat
        BY <1>2, Zenon
    <2>. HIDE DEF D
    <2>. QED  BY <2>1, <2>2
<1>7. \E x \in S : \A t \in S : x >= t
    BY <1>6, Zenon
<1>. QED  BY <1>7, Zenon DEF Max

LEMMA OrElseIn ==
    ASSUME NEW t \in Tuners \cup {NoTuner}, NEW u \in Tuners \cup {NoTuner}
    PROVE  OrElse(t, u) \in Tuners \cup {NoTuner}
    BY Zenon DEF OrElse

LEMMA FirstTuner ==
    ASSUME NEW S, S \subseteq Tuners
    PROVE  /\ FirstOf(S, NoTuner) \in Tuners \cup {NoTuner}
           /\ FirstOf(S, NoTuner) # NoTuner => FirstOf(S, NoTuner) \in S
    BY TunersAssumption, FirstOfIn, Zenon

\* A Live that a device has is held by a tuner; so is a token of any search.
LEMMA LiveIsHeld ==
    ASSUME NEW R, NEW d, NEW k \in LiveTokens(R, d)
    PROVE  k \in Tokens /\ isHeld(R, k)
    BY Zenon DEF LiveTokens, OfActivity, getReservationTokens, isHeld, parents

LEMMA ExistingIsLive ==
    ASSUME NEW R, NEW d
    PROVE  /\ ExistingLive(R, d) # NoToken =>
                 /\ ExistingLive(R, d) \in LiveTokens(R, d)
                 /\ getParent(R, ExistingLive(R, d)) \in Tuners
           /\ ExistingLive(R, d) = NoToken => LiveTokens(R, d) = {}
<1>1. LiveTokens(R, d) \subseteq Tokens
    BY Zenon DEF LiveTokens
<1>2. /\ ExistingLive(R, d) \in LiveTokens(R, d) \cup {NoToken}
      /\ LiveTokens(R, d) # {} => ExistingLive(R, d) \in LiveTokens(R, d)
    BY <1>1, TokensAssumption, FirstOfIn, Zenon DEF ExistingLive
<1>. QED  BY <1>1, <1>2, LiveIsHeld, ParentHolds, NoTokenAssumption, ZenonT(60)

\* reserveLive settles on a tuner of the server or on none.  A device falls
\* back only on the tuner it is on, and a remote device that is given any
\* other tuner leaves the host with a different one.  The host's claim stays,
\* or goes to a tuner that runs no Live, or to the one the host is on.
LEMMA PlanOfLive ==
    ASSUME NEW R, NEW local \in Tuners, NEW d, NEW l
    PROVE  LET plan == LivePlan(R, local, d, l)
               old == ExistingLive(R, d)
               fallback == FallbackTuner(R, old, l)
           IN  /\ plan.tuner \in Tuners \cup {NoTuner}
               /\ plan.local \in Tuners
               /\ fallback # NoTuner => old # NoToken /\ fallback = getParent(R, old)
               /\ plan.tuner \notin {NoTuner, fallback} /\ d # HostDevice
                     => plan.local # plan.tuner
               /\ plan.tuner = fallback /\ fallback # NoTuner => plan.local = local
               /\ \/ plan.local = local
                  \/ getState(R[plan.local]) \in {"Free", "Record"}
                  \/ /\ d = HostDevice /\ plan.local = plan.tuner
                     /\ old # NoToken /\ plan.tuner = getParent(R, old)
<1>. DEFINE old == ExistingLive(R, d)
            fallback == FallbackTuner(R, old, l)
            preferred == PreferredLiveTuner(R, old, l)
            guarded == GuardLastFree(R, local, d, preferred, fallback)
            found == OrElse(OrElse(guarded.tuner, fallback), FreeWithAnyFutureRecord(R))
            plan == MoveLocalTuner(R, guarded.local, d, found, fallback)
<1>1. old # NoToken => getParent(R, old) \in Tuners
    BY ExistingIsLive, Zenon
<1>2. \A state : /\ InState(R, state) \subseteq Tuners
                 /\ \A t \in InState(R, state) : getState(R[t]) = state
    BY Zenon DEF InState
<1>. DEFINE Spare(t) == getState(R[t]) \in {"Free", "Record"}
            Own(t) == old # NoToken /\ t = getParent(R, old)
<1>3. /\ SameLocatorTuner(R, old, l) \in Tuners \cup {NoTuner}
      /\ SameLocatorTuner(R, old, l) # NoTuner => Own(SameLocatorTuner(R, old, l))
    BY <1>1, Zenon DEF SameLocatorTuner
<1>4. /\ OwnLiveTuner(R, old) \in Tuners \cup {NoTuner}
      /\ OwnLiveTuner(R, old) # NoTuner => old # NoToken /\ OwnLiveTuner(R, old) = getParent(R, old)
    BY <1>1, Zenon DEF OwnLiveTuner
<1>5. /\ SharedRecordTuner(R, l) \in Tuners \cup {NoTuner}
      /\ FreeWithFutureRecord(R, l) \in Tuners \cup {NoTuner}
      /\ FreeAndEmpty(R) \in Tuners \cup {NoTuner}
      /\ FreeWithAnyFutureRecord(R) \in Tuners \cup {NoTuner}
      /\ SharedRecordTuner(R, l) # NoTuner => Spare(SharedRecordTuner(R, l))
      /\ FreeWithFutureRecord(R, l) # NoTuner => Spare(FreeWithFutureRecord(R, l))
      /\ FreeAndEmpty(R) # NoTuner => Spare(FreeAndEmpty(R))
      /\ FreeWithAnyFutureRecord(R) # NoTuner => Spare(FreeWithAnyFutureRecord(R))
    <2>1. ASSUME NEW state \in {"Free", "Record"}, NEW S, S \subseteq InState(R, state)
          PROVE  /\ FirstOf(S, NoTuner) \in Tuners \cup {NoTuner}
                 /\ FirstOf(S, NoTuner) # NoTuner => Spare(FirstOf(S, NoTuner))
        <3>1. S \subseteq Tuners
            BY <1>2, <2>1, Zenon
        <3>. QED  BY <1>2, <2>1, <3>1, FirstTuner, Zenon
    <2>2. /\ {t \in InState(R, "Record") :
                  R[t][Min(TokensOf(R[t], "Record", "ACTIVE"))].serviceLocator = l}
                \subseteq InState(R, "Record")
          /\ {t \in InState(R, "Free") : FutureRecord(R[t]) = l} \subseteq InState(R, "Free")
          /\ {t \in InState(R, "Free") : getReservationTokens(R[t]) = {}}
                \subseteq InState(R, "Free")
          /\ {t \in InState(R, "Free") : FutureRecord(R[t]) # NoLocator}
                \subseteq InState(R, "Free")
        BY Zenon
    <2>. QED  BY <2>1, <2>2, Zenon DEF SharedRecordTuner, FreeWithFutureRecord,
                                       FreeAndEmpty, FreeWithAnyFutureRecord
<1>. HIDE DEF old, Spare, Own
<1>6. /\ preferred \in Tuners \cup {NoTuner}
      /\ preferred # NoTuner => Spare(preferred) \/ Own(preferred)
    <2>1. OwnLiveTuner(R, old) # NoTuner => Own(OwnLiveTuner(R, old))
        BY <1>4, Zenon DEF Own
    <2>. QED  BY <1>3, <1>4, <1>5, <2>1, OrElseIn, ZenonT(60) DEF PreferredLiveTuner, OrElse
<1>7. /\ fallback \in Tuners \cup {NoTuner}
      /\ fallback # NoTuner => old # NoToken /\ fallback = getParent(R, old)
    BY <1>4, Zenon DEF FallbackTuner
<1>. HIDE DEF fallback, preferred
<1>8. /\ guarded.tuner \in {preferred, NoTuner} /\ guarded.local \in Tuners
      /\ guarded.local = local \/ (fallback = NoTuner /\ Spare(guarded.local))
    <2>1. InState(R, "Record") # {} =>
             /\ Min(InState(R, "Record")) \in Tuners
             /\ Spare(Min(InState(R, "Record")))
        <3>1. InState(R, "Record") # {} => Min(InState(R, "Record")) \in InState(R, "Record")
            BY <1>2, MinInSet, TunersAssumption, Zenon
        <3>. QED  BY <1>2, <3>1, Zenon DEF Spare
    <2>. QED  BY <1>6, <2>1, ZenonT(60) DEF GuardLastFree
<1>9. /\ found \in Tuners \cup {NoTuner}
      /\ found \notin {NoTuner, fallback} => Spare(found) \/ Own(found)
    <2>1. found \in Tuners \cup {NoTuner}
        BY <1>5, <1>6, <1>7, <1>8, OrElseIn, ZenonT(60)
    <2>2. found \in {preferred, fallback, FreeWithAnyFutureRecord(R), NoTuner}
        BY <1>8, ZenonT(60) DEF OrElse
    <2>. QED  BY <1>5, <1>6, <2>1, <2>2, ZenonT(60)
<1>. HIDE DEF guarded, found
<1>10. /\ plan.tuner \in Tuners \cup {NoTuner}
       /\ plan.local \in Tuners
       /\ plan.tuner \notin {NoTuner, fallback} /\ d # HostDevice => plan.local # plan.tuner
       /\ plan.tuner = fallback /\ fallback # NoTuner => plan.local = local
       /\ \/ plan.local = local
          \/ Spare(plan.local)
          \/ d = HostDevice /\ plan.local = plan.tuner /\ Own(plan.tuner)
    <2>. DEFINE others == OrElse(FirstOf(InState(R, "Free") \ {found}, NoTuner),
                                 FirstOf(InState(R, "Record") \ {found}, NoTuner))
    <2>1. /\ others \in Tuners \cup {NoTuner}
          /\ others # NoTuner => others # found /\ Spare(others)
        <3>1. /\ InState(R, "Free") \ {found} \subseteq Tuners
              /\ InState(R, "Record") \ {found} \subseteq Tuners
            BY <1>2, Zenon
        <3>2. ASSUME NEW S, S \subseteq Tuners
              PROVE  FirstOf(S, NoTuner) \in S \cup {NoTuner}
            <4>1. S \subseteq Nat
                BY <3>2, TunersAssumption, Zenon
            <4>. QED  BY <4>1, FirstOfIn, Zenon
        <3>3. /\ FirstOf(InState(R, "Free") \ {found}, NoTuner)
                    \in (InState(R, "Free") \ {found}) \cup {NoTuner}
              /\ FirstOf(InState(R, "Record") \ {found}, NoTuner)
                    \in (InState(R, "Record") \ {found}) \cup {NoTuner}
            BY <3>1, <3>2, Zenon
        <3>4. \A t \in InState(R, "Free") \cup InState(R, "Record") : Spare(t)
            BY <1>2, Zenon DEF Spare
        <3>. QED  BY <3>1, <3>3, <3>4, ZenonT(60) DEF OrElse
    <2>. HIDE DEF others
    <2>2. plan = CASE found \in {NoTuner, fallback} -> [tuner |-> found, local |-> guarded.local]
                   [] found \notin {NoTuner, fallback} /\ d = HostDevice ->
                         [tuner |-> found, local |-> found]
                   [] found \notin {NoTuner, fallback} /\ d # HostDevice /\ found # guarded.local ->
                         [tuner |-> found, local |-> guarded.local]
                   [] OTHER -> IF others # NoTuner THEN [tuner |-> found, local |-> others]
                               ELSE [tuner |-> NoTuner, local |-> guarded.local]
        BY Zenon DEF MoveLocalTuner, others
    <2>. QED  BY <1>8, <1>9, <2>1, <2>2, SMTT(60)
<1>. QED  BY <1>7, <1>10, Zenon
          DEF LivePlan, guarded, found, fallback, preferred, old, Spare, Own

\* reserveRecord settles on a tuner of the server or on none.
LEMMA TunerOfRecord ==
    ASSUME NEW R, NEW l, NEW start, NEW time
    PROVE  RecordTuner(R, l, start, time) \in Tuners \cup {NoTuner}
<1>1. BackToBackTuner(R, l, start) \in Tuners \cup {NoTuner}
    <2>. DEFINE S == {t \in Tuners :
                 /\ \E k \in TokensOf(R[t], "Record", "IDLE") : R[t][k].serviceLocator = l
                 /\ getEndTime(R[t], "Record") <= start}
    <2>1. S # {} => Max(S) \in Tuners
        <3>. HIDE DEF S
        <3>1. S \subseteq Tuners
            BY Zenon DEF S
        <3>. QED  BY <3>1, MaxInTuners, Zenon
    <2>2. BackToBackTuner(R, l, start) = IF S = {} THEN NoTuner ELSE Max(S)
        BY Zenon DEF BackToBackTuner
    <2>. HIDE DEF S
    <2>. QED  BY <2>1, <2>2, Zenon
<1>2. \A state : InState(R, state) \subseteq Tuners
    BY Zenon DEF InState
<1>3. FirstOf(HybridTuners(R, l, start), NoTuner) \in Tuners \cup {NoTuner}
    <2>1. HybridTuners(R, l, start) \subseteq Tuners
        BY <1>2, Zenon DEF HybridTuners, OnLocator, EndBefore
    <2>. QED  BY <2>1, FirstTuner, Zenon
<1>4. LiveTunerOnChannel(R, l) \in Tuners \cup {NoTuner}
    BY <1>2, FirstTuner, Zenon DEF LiveTunerOnChannel
<1>5. RecordTunerThatEnds(R, l, start) \in Tuners \cup {NoTuner}
    <2>. DEFINE ends == EndBefore(R, InState(R, "Record"), start)
    <2>1. ends \subseteq Tuners /\ OnLocator(R, ends, l) \subseteq Tuners
        BY <1>2, Zenon DEF EndBefore, OnLocator
    <2>. HIDE DEF ends
    <2>2. /\ FirstOf(ends, NoTuner) \in Tuners \cup {NoTuner}
          /\ FirstOf(OnLocator(R, ends, l), NoTuner) \in Tuners \cup {NoTuner}
        BY <2>1, FirstTuner, Zenon
    <2>. QED  BY <2>2, OrElseIn, Zenon DEF RecordTunerThatEnds, ends
<1>6. FreeForRecord(R, l, time) \in Tuners \cup {NoTuner}
    <2>. DEFINE S == {t \in InState(R, "Free") :
                LET held == getReservationTokens(R[t])
                IN  \/ held = {}
                    \/ /\ Cardinality(held) = 1
                       /\ \E k \in TokensOf(R[t], "Live", "IDLE") :
                             /\ R[t][k].serviceLocator = l
                             /\ R[t][k].startTime <= time}
    <2>1. S \subseteq Tuners
        BY <1>2, Zenon
    <2>2. FreeForRecord(R, l, time) = FirstOf(S, NoTuner)
        BY Zenon DEF FreeForRecord
    <2>. HIDE DEF S
    <2>. QED  BY <2>1, <2>2, FirstTuner, Zenon
<1>. QED  BY <1>1, <1>3, <1>4, <1>5, <1>6, OrElseIn, ZenonT(60) DEF RecordTuner

\* A recording that takes the host's tuner leaves the host with a tuner: the
\* one it had, or one that runs nothing.
LEMMA LocalTunerOfRecord ==
    ASSUME NEW R, NEW local \in Tuners, NEW t
    PROVE  /\ LocalAfterRecord(R, local, t) \in Tuners
           /\ \/ LocalAfterRecord(R, local, t) = local
              \/ getState(R[LocalAfterRecord(R, local, t)]) = "Free"
<1>1. InState(R, "Free") \ {t} \subseteq Tuners
    BY Zenon DEF InState
<1>2. InState(R, "Free") \ {t} # {} =>
         Min(InState(R, "Free") \ {t}) \in InState(R, "Free") \ {t}
    BY <1>1, MinInSet, TunersAssumption, Zenon
<1>3. \A u \in InState(R, "Free") : getState(R[u]) = "Free" /\ u \in Tuners
    BY Zenon DEF InState
<1>. QED  BY <1>2, <1>3, Zenon DEF LocalAfterRecord

\* The first token in a walk over tuners and their tokens is one of them.
LEMMA FirstInTunersIn ==
    ASSUME NEW R, NEW S, S \subseteq Tokens, S # {}, \A k \in S : isHeld(R, k)
    PROVE  FirstInTuners(R, S) \in S
<1>. DEFINE T == {getParent(R, k) : k \in S}
            F == {k \in S : getParent(R, k) = Min(T)}
<1>1. T \subseteq Nat /\ T # {}
    BY ParentHolds, TunersAssumption, Zenon
<1>2. Min(T) \in T
    BY <1>1, MinInSet, Zenon
<1>3. F # {} /\ F \subseteq Nat /\ F \subseteq S
    BY <1>2, TokensAssumption, Zenon
<1>4. FirstInTuners(R, S) = Min(F)
    BY Zenon DEF FirstInTuners
<1>. HIDE DEF F, T
<1>. QED  BY <1>3, <1>4, MinInSet, Zenon

\* The Live that has to yield to a recording is on a tuner.
LEMMA ConflictIsHeld ==
    ASSUME NEW R, NEW d, NEW start, RecordConflict(R, d, start) # NoToken
    PROVE  RecordConflict(R, d, start) \in Tokens /\ isHeld(R, RecordConflict(R, d, start))
<1>. DEFINE all == YieldingLives(R)
            own == {k \in all : getReservation(R, k).device = d}
            hybrid == HybridYielding(R, start)
<1>1. ASSUME NEW t \in Tuners, NEW k \in getReservationTokens(R[t])
      PROVE  k \in Tokens /\ isHeld(R, k)
    BY Zenon DEF getReservationTokens, isHeld, parents
<1>2. /\ all \subseteq Tokens /\ \A k \in all : isHeld(R, k)
      /\ own \subseteq Tokens /\ \A k \in own : isHeld(R, k)
    BY <1>1, Zenon DEF YieldingLives, OfActivity, InState
<1>3. ASSUME NEW k \in hybrid
      PROVE  k \in Tokens /\ isHeld(R, k)
    <2>. DEFINE ending == {j \in Tokens : \E t \in InState(R, "Hybrid") :
                      j \in OfActivity(R, t, "Record") /\ EndTime(R[t][j]) <= start}
                u == getParent(R, FirstInTuners(R, ending))
    <2>1. ending # {} /\ k \in OfActivity(R, u, "Live")
        BY Zenon DEF HybridYielding
    <2>2. ending \subseteq Tokens /\ \A j \in ending : isHeld(R, j)
        BY <1>1, Zenon DEF OfActivity, InState
    <2>. HIDE DEF ending
    <2>3. u \in Tuners
        BY <2>1, <2>2, FirstInTunersIn, ParentHolds, ZenonT(60)
    <2>. QED  BY <1>1, <2>1, <2>3, Zenon DEF OfActivity
<1>4. hybrid # {} => Min(hybrid) \in hybrid
    <2>1. hybrid \subseteq Nat
        BY <1>3, TokensAssumption, Zenon
    <2>. QED  BY <2>1, MinInSet, Zenon
<1>5. RecordConflict(R, d, start) =
         CASE own # {} -> FirstInTuners(R, own)
           [] own = {} /\ all # {} -> FirstInTuners(R, all)
           [] OTHER -> IF \E k \in hybrid : hybrid = {k} THEN Min(hybrid) ELSE NoToken
    BY Zenon DEF RecordConflict
<1>. HIDE DEF own, all, hybrid
<1>6. CASE own # {}
    BY <1>2, <1>5, <1>6, FirstInTunersIn, ZenonT(60)
<1>7. CASE own = {} /\ all # {}
    BY <1>2, <1>5, <1>7, FirstInTunersIn, Zenon
<1>8. CASE own = {} /\ all = {}
    BY <1>3, <1>4, <1>5, <1>8, Zenon
<1>. QED  BY <1>6, <1>7, <1>8, Zenon
=============================================================================
