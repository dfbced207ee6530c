-------------------------------- MODULE Tuner --------------------------------
(***************************************************************************)
(* One tuner of the Tuner Resource Manager: the reservations it holds, and *)
(* what is derived from them (src/common/src/Tuner.cpp).  A tuner keeps a  *)
(* std::map from token to reservation; here that map is a function from    *)
(* Tokens that yields NoReservation where the map has no entry.  Tokens    *)
(* are naturals and their order stands for the order in which the map is   *)
(* iterated (the string order of the UUIDs).  Every operator below takes   *)
(* the map of one tuner, written rs.                                       *)
(***************************************************************************)
EXTENDS Naturals, FiniteSets, FiniteSetsExt

CONSTANTS
    Tokens,         \* the reservation tokens, in iteration order
    Devices,        \* the devices that own reservations
    Locators,       \* the channels (service locators)
    NoReservation,  \* what the map yields for a token it does not hold
    NoLocator       \* the empty string returned for "no locator"

Activities == {"Live", "Record"}

\* IDLE = granted and not started, ACTIVE = running, EXPIRED = being removed.
ReservationStates == {"IDLE", "ACTIVE", "EXPIRED"}

\* eas stands for the activity detail "eas" that marks an emergency channel.
Reservation ==
    [device : Devices, serviceLocator : Locators, startTime : Nat,
     duration : Nat, activity : Activities, state : ReservationStates,
     eas : BOOLEAN]

ReservationMap == [Tokens -> Reservation \cup {NoReservation}]

ASSUME TokensAssumption == Tokens \subseteq Nat
ASSUME NoReservationAssumption == NoReservation \notin Reservation
ASSUME NoLocatorAssumption == NoLocator \notin Locators

EndTime(r) == r.startTime + r.duration

-----------------------------------------------------------------------------

getReservationTokens(rs) == {k \in Tokens : rs[k] # NoReservation}

\* The tokens getReservation(activity, state) walks over; it returns the first.
TokensOf(rs, activity, state) ==
    {k \in getReservationTokens(rs) :
        rs[k].activity = activity /\ rs[k].state = state}

ActiveTokens(rs) == {k \in getReservationTokens(rs) : rs[k].state = "ACTIVE"}

\* The sum of the ACTIVE activities (TunerState::operator+).
getState(rs) ==
    LET running == {rs[k].activity : k \in ActiveTokens(rs)}
    IN  CASE running = {}         -> "Free"
          [] running = {"Live"}   -> "Live"
          [] running = {"Record"} -> "Record"
          [] OTHER                -> "Hybrid"

\* getServiceLocator(false): the locator of the first ACTIVE reservation.
ActiveLocator(rs) ==
    IF ActiveTokens(rs) = {} THEN NoLocator
    ELSE rs[Min(ActiveTokens(rs))].serviceLocator

\* getServiceLocator(true): with nothing ACTIVE, the reservation that starts
\* first, and the first of those in iteration order.
getServiceLocator(rs) ==
    LET held == getReservationTokens(rs)
        nearest == {k \in held : \A j \in held : rs[k].startTime <= rs[j].startTime}
    IN  CASE ActiveTokens(rs) # {} -> ActiveLocator(rs)
          [] held = {}             -> NoLocator
          [] OTHER                 -> rs[Min(nearest)].serviceLocator

\* The loop stops at the first reservation of another activity, so only the
\* leading run of reservations of this activity counts.
getEndTime(rs, activity) ==
    LET held == getReservationTokens(rs)
        leading == {k \in held : \A j \in held : j <= k => rs[j].activity = activity}
    IN  Max({0} \cup {EndTime(rs[k]) : k \in leading})

isOverlap(a, b) == ~(EndTime(a) <= b.startTime \/ EndTime(b) <= a.startTime)

-----------------------------------------------------------------------------

\* The assertion inside addReservation's loop: it is reached only when the
\* tuner is running something, and only looks at reservations of one activity.
Clashes(rs, r) ==
    /\ getState(rs) # "Free"
    /\ \E k \in getReservationTokens(rs) :
          /\ isOverlap(rs[k], r)
          /\ rs[k].activity = r.activity
          /\ rs[k].serviceLocator # r.serviceLocator

\* Assert(count <= 2), evaluated after the reservation has been inserted.
Overfull(rs) == Cardinality(ActiveTokens(rs)) > 2

\* What addReservation leaves in the map, whether or not it then throws.
Inserted(rs, k, r) == IF Clashes(rs, r) THEN rs ELSE [rs EXCEPT ![k] = r]

addReservationThrows(rs, k, r) == Clashes(rs, r) \/ Overfull(Inserted(rs, k, r))

\* Manager::syncHybrid on this tuner: every ACTIVE Live takes the locator of
\* the first ACTIVE Record.
syncHybrid(rs) ==
    IF getState(rs) # "Hybrid" THEN rs
    ELSE LET recordLocator ==
                rs[Min(TokensOf(rs, "Record", "ACTIVE"))].serviceLocator
         IN  [k \in Tokens |->
                IF k \in TokensOf(rs, "Live", "ACTIVE")
                THEN [rs[k] EXCEPT !.serviceLocator = recordLocator]
                ELSE rs[k]]

\* The ACTIVE Lives whose locator syncHybrid changes; each owner is notified.
Retuned(rs) ==
    {k \in TokensOf(rs, "Live", "ACTIVE") :
        syncHybrid(rs)[k].serviceLocator # rs[k].serviceLocator}
=============================================================================
