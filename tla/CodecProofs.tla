---------------------------- MODULE CodecProofs ------------------------------
(***************************************************************************)
(* Proofs about Codec, for every set of strings, every choice of values    *)
(* for the members of messages and every clock: what a sender writes is    *)
(* accepted and read back (MessagesSurvive), and the end of a Live without *)
(* a duration fits the timers (OpenEndedLivesFit).                         *)
(*                                                                         *)
(* The argument goes from the inside out.  Each part of a message is read  *)
(* as it was written, then each member whatever its type (ReadAsWritten).  *)
(* Every format asks only for keys that it always writes (EveryFormat),    *)
(* so that a whole message is read back (ReadBack).  CodecInv says that    *)
(* members have values of their types, and what is written and read.       *)
(***************************************************************************)
EXTENDS Codec, TLAPS

-----------------------------------------------------------------------------
(* The parts of messages.                                                  *)

\* A JSON value has its value and its kind, and kinds are told apart.
LEMMA ValueOf ==
    ASSUME NEW v
    PROVE  /\ JString(v).value = v /\ JString(v).json = "string"
           /\ JObject(v).value = v /\ JObject(v).json = "object"
           /\ JArray(v).value = v /\ JInteger(v).value = v
           /\ JNull.json = "null"
    BY DEF JString, JObject, JArray, JInteger, JNull

\* Strings and JNull are no objects.
LEMMA KindsDiffer == "string" # "object" /\ "null" # "object"
    OBVIOUS

\* A key that is there is read as it was written, and one that is not, or is
\* of another kind, as NULL.
LEMMA GetIs ==
    ASSUME NEW o, NEW key, NEW v
    PROVE  /\ key \in DOMAIN o /\ o[key] = JString(v) => Get(o, key, "string") = v
           /\ key \in DOMAIN o /\ o[key] = JObject(v) =>
                  Is(o, key, "object") /\ Get(o, key, "object") = v
           /\ key \notin DOMAIN o => Get(o, key, "string") = NULL /\ ~Is(o, key, "object")
           /\ key \in DOMAIN o /\ o[key] = JNull => Get(o, key, "object") = NULL
    BY ValueOf, KindsDiffer DEF Get, Is

\* A string that is left out when it is empty.
LEMMA OrEmpty ==
    ASSUME NEW o, NEW key, NEW v, v = "" => key \notin DOMAIN o,
           v # "" => key \in DOMAIN o /\ o[key] = JString(v)
    PROVE  (IF key \in DOMAIN o THEN o[key].value ELSE "") = v
<1>1. JString(v).value = v
    BY ValueOf, Zenon
<1>. QED  BY <1>1, Zenon

\* JsonDecode of an Activity undoes JsonEncode; empty details are not written.
LEMMA ActivityRead ==
    ASSUME NEW a \in Activity
    PROVE  /\ EncodeActivity(a).json = "object"
           /\ DecodeActivity(EncodeActivity(a).value) = a
<1>. DEFINE o == EncodeActivity(a).value
<1>1. a = [name |-> a.name, details |-> a.details]
    BY DEF Activity
<1>2. /\ "name" \in DOMAIN o /\ o["name"] = JString(a.name)
      /\ a.details = "" => "details" \notin DOMAIN o
      /\ a.details # "" => "details" \in DOMAIN o /\ o["details"] = JObject(a.details)
    BY Zenon DEF EncodeActivity, Without, JObject
<1>3. EncodeActivity(a).json = "object"
    BY DEF EncodeActivity, JObject
<1>. HIDE DEF o
<1>4. Get(o, "name", "string") = a.name
    BY <1>2, GetIs, Zenon
<1>5. (IF Is(o, "details", "object") THEN o["details"].value ELSE "") = a.details
    <2>1. CASE a.details = ""
        BY <1>2, <2>1, GetIs, Zenon
    <2>2. CASE a.details # ""
        <3>1. Is(o, "details", "object") /\ o["details"] = JObject(a.details)
            BY <1>2, <2>2, GetIs, Zenon
        <3>. QED  BY <3>1 DEF JObject
    <2>. QED  BY <2>1, <2>2, Zenon
<1>6. DecodeActivity(o) = a
    BY <1>1, <1>4, <1>5, Zenon DEF DecodeActivity
<1>. QED  BY <1>3, <1>6, Zenon DEF o

\* JsonDecode of a TunerReservation undoes JsonEncode: an empty token is not
\* written, custom attributes that are not there are written as null.
LEMMA ReservationRead ==
    ASSUME NEW r \in TunerReservation
    PROVE  DecodeReservation(EncodeReservation(r)) = r
<1>. DEFINE o == EncodeReservation(r)
            token == r.reservationToken
            attributes == r.customAttributes
<1>1. r = [reservationToken |-> r.reservationToken, device |-> r.device,
           serviceLocator |-> r.serviceLocator, startTime |-> r.startTime,
           duration |-> r.duration, activity |-> r.activity,
           customAttributes |-> r.customAttributes]
    BY DEF TunerReservation
<1>2. r.activity \in Activity /\ token # NULL /\ r.device # NULL /\ attributes # NULL
    BY TextAssumption, Zenon DEF TunerReservation
<1>3. /\ token = "" => "reservationToken" \notin DOMAIN o
      /\ token # "" => "reservationToken" \in DOMAIN o /\ o["reservationToken"] = JString(token)
    BY ZenonT(60) DEF EncodeReservation, Without
<1>4. /\ "device" \in DOMAIN o /\ o["device"] = JString(r.device)
      /\ "serviceLocator" \in DOMAIN o /\ o["serviceLocator"] = JString(r.serviceLocator)
      /\ "startTime" \in DOMAIN o /\ o["startTime"] = JInteger(r.startTime)
      /\ "duration" \in DOMAIN o /\ o["duration"] = JInteger(r.duration)
      /\ "activity" \in DOMAIN o /\ o["activity"] = EncodeActivity(r.activity)
    BY DEF EncodeReservation, Without
<1>5. /\ "customAttributes" \in DOMAIN o
      /\ o["customAttributes"] = IF attributes = "none" THEN JNull ELSE JObject(attributes)
    BY DEF EncodeReservation, Without
<1>. HIDE DEF o, token, attributes
<1>6. Get(o, "reservationToken", "string") = IF token = "" THEN NULL ELSE token
    BY <1>3, GetIs, Zenon
<1>7. Get(o, "device", "string") = r.device /\ Get(o, "serviceLocator", "string") = r.serviceLocator
    BY <1>4, GetIs, ZenonT(60)
<1>8. o["startTime"].value = r.startTime /\ o["duration"].value = r.duration
    BY <1>4 DEF JInteger
<1>9. DecodeActivity(o["activity"].value) = r.activity
    BY <1>2, <1>4, ActivityRead, Zenon
<1>10. Get(o, "customAttributes", "object") = IF attributes = "none" THEN NULL ELSE attributes
    BY <1>5, GetIs, Zenon
<1>11. /\ (IF Get(o, "reservationToken", "string") = NULL THEN ""
           ELSE Get(o, "reservationToken", "string")) = token
       /\ (IF Get(o, "device", "string") = NULL THEN "" ELSE Get(o, "device", "string")) = r.device
       /\ (IF Get(o, "customAttributes", "object") = NULL THEN "none"
           ELSE Get(o, "customAttributes", "object")) = attributes
    BY <1>2, <1>6, <1>7, <1>10, Zenon
<1>12. /\ (IF "startTime" \in DOMAIN o THEN o["startTime"].value ELSE Now) = r.startTime
       /\ (IF "duration" \in DOMAIN o THEN o["duration"].value
           ELSE IF DecodeActivity(o["activity"].value).name = "Live" THEN MaxInt64 - 2 * Now
           ELSE 0) = r.duration
    BY <1>4, <1>8, Zenon
<1>13. DecodeReservation(o) = [reservationToken |-> token, device |-> r.device,
           serviceLocator |-> r.serviceLocator, startTime |-> r.startTime,
           duration |-> r.duration, activity |-> r.activity,
           customAttributes |-> attributes]
    BY <1>7, <1>9, <1>11, <1>12, Zenon DEF DecodeReservation
<1>. QED  BY <1>1, <1>13, Zenon DEF o, token, attributes

\* JsonDecode of a DetailedTunerState undoes JsonEncode: without a channel
\* neither the channel nor owners are written.
LEMMA StateRead ==
    ASSUME NEW s, IsState(s)
    PROVE  DecodeState(EncodeState(s)) = s
<1>. DEFINE o == EncodeState(s)
            owners == [a \in DOMAIN s.owners |-> JObject([device |-> JString(s.owners[a])])]
<1>1. s = [state |-> s.state, serviceLocator |-> s.serviceLocator, owners |-> s.owners,
           reservedDeviceId |-> s.reservedDeviceId]
    BY Zenon DEF IsState
<1>2. "state" \in DOMAIN o /\ o["state"] = JString(s.state)
    BY DEF EncodeState, Without
<1>3. /\ s.serviceLocator = "" => "serviceLocator" \notin DOMAIN o /\ "owners" \notin DOMAIN o
      /\ s.serviceLocator # "" =>
            /\ "serviceLocator" \in DOMAIN o /\ o["serviceLocator"] = JString(s.serviceLocator)
            /\ "owners" \in DOMAIN o /\ o["owners"] = JObject(owners)
    BY Zenon DEF EncodeState, Without
<1>4. /\ s.reservedDeviceId = "" => "reservedDeviceId" \notin DOMAIN o
      /\ s.reservedDeviceId # "" =>
            "reservedDeviceId" \in DOMAIN o /\ o["reservedDeviceId"] = JString(s.reservedDeviceId)
    BY Zenon DEF EncodeState, Without
<1>. HIDE DEF o
<1>5. Get(o, "state", "string") = s.state
    BY <1>2, GetIs, Zenon
<1>6. (IF "serviceLocator" \in DOMAIN o THEN o["serviceLocator"].value ELSE "") = s.serviceLocator
    BY <1>3, OrEmpty, ZenonT(60)
<1>7. (IF "reservedDeviceId" \in DOMAIN o THEN o["reservedDeviceId"].value ELSE "") =
          s.reservedDeviceId
    BY <1>4, OrEmpty, Zenon
<1>8. (IF "owners" \in DOMAIN o
       THEN [a \in DOMAIN o["owners"].value |-> Get(o["owners"].value[a].value, "device", "string")]
       ELSE Nothing) = s.owners
    <2>1. CASE s.serviceLocator = ""
        BY <1>3, <2>1, Zenon DEF IsState
    <2>2. CASE s.serviceLocator # ""
        <3>1. "owners" \in DOMAIN o /\ o["owners"].value = owners
            <4>1. JObject(owners).value = owners
                BY ValueOf, Zenon
            <4>. QED  BY <1>3, <2>2, <4>1, Zenon
        <3>2. \A a \in DOMAIN s.owners : Get(owners[a].value, "device", "string") = s.owners[a]
            <4>. SUFFICES ASSUME NEW a \in DOMAIN s.owners
                          PROVE  Get(owners[a].value, "device", "string") = s.owners[a]
                BY Zenon
            <4>1. owners[a].value = [device |-> JString(s.owners[a])]
                BY ValueOf
            <4>2. /\ "device" \in DOMAIN [device |-> JString(s.owners[a])]
                  /\ [device |-> JString(s.owners[a])]["device"] = JString(s.owners[a])
                OBVIOUS
            <4>. QED  BY <4>1, <4>2, GetIs, Zenon
        <3>3. s.owners = [a \in DOMAIN s.owners |-> s.owners[a]]
            BY Zenon DEF IsState, IsMap
        <3>4. DOMAIN owners = DOMAIN s.owners
            BY Zenon
        <3>. HIDE DEF owners
        <3>5. [a \in DOMAIN owners |-> Get(owners[a].value, "device", "string")] =
                [a \in DOMAIN s.owners |-> s.owners[a]]
            BY <3>2, <3>4, Zenon
        <3>. QED  BY <3>1, <3>3, <3>5, Zenon
    <2>. QED  BY <2>1, <2>2, Zenon
<1>9. DecodeState(o) = [state |-> s.state, serviceLocator |-> s.serviceLocator, owners |-> s.owners,
           reservedDeviceId |-> s.reservedDeviceId]
    BY <1>5, <1>6, <1>7, <1>8, Zenon DEF DecodeState
<1>. QED  BY <1>1, <1>9, Zenon DEF o

\* The filter on the activity is written as a string and not found.
LEMMA FiltersRead ==
    ASSUME NEW f, IsMap(f, Text), DOMAIN f \subseteq {"device", "activity", "state"}
    PROVE  DecodeFilters(EncodeFilters(f).value) = Without(f, {"activity"})
<1>. DEFINE a == EncodeFilters(f).value
            sent(key, kind) == {i \in DOMAIN a : Is(a[i], key, kind)}
            at(key, kind) == a[CHOOSE i \in sent(key, kind) : TRUE][key].value
<1>1. DOMAIN a = DOMAIN f /\ \A i \in DOMAIN f : a[i] = [k \in {i} |-> JString(f[i])]
    BY DEF EncodeFilters, JArray
<1>. HIDE DEF a
<1>2. \A i \in DOMAIN f : DOMAIN a[i] = {i} /\ a[i][i] = JString(f[i])
    BY <1>1, Zenon
<1>3. \A key : \A i \in DOMAIN f : Is(a[i], key, "string") <=> key = i
    BY <1>2, ValueOf DEF Is
<1>4. \A key : \A i \in DOMAIN f : ~Is(a[i], key, "object")
    BY <1>2, ValueOf, KindsDiffer DEF Is
<1>5. \A key : sent(key, "object") = {}
    BY <1>1, <1>4, Zenon
<1>6. \A key : sent(key, "string") = IF key \in DOMAIN f THEN {key} ELSE {}
    BY <1>1, <1>3
<1>7. \A key \in DOMAIN f : at(key, "string") = f[key]
    <2>. SUFFICES ASSUME NEW key \in DOMAIN f
                  PROVE  at(key, "string") = f[key]
        BY Zenon
    <2>1. sent(key, "string") = {key}
        BY <1>6, Zenon
    <2>2. (CHOOSE i \in {key} : TRUE) = key
        OBVIOUS
    <2>3. at(key, "string") = a[key][key].value
        BY <2>1, <2>2, Zenon
    <2>. QED  BY <1>2, <2>3, ValueOf
<1>8. DecodeFilters(a) =
        Join([key \in {x \in {"device", "state"} : sent(x, "string") # {}} |-> at(key, "string")],
             Nothing)
    BY <1>5, Zenon DEF DecodeFilters
<1>9. {x \in {"device", "state"} : sent(x, "string") # {}} = DOMAIN f \ {"activity"}
    BY <1>6, SMTT(60)
<1>. HIDE DEF sent, at
<1>10. [key \in {x \in {"device", "state"} : sent(x, "string") # {}} |-> at(key, "string")] =
        Without(f, {"activity"})
    BY <1>7, <1>9, Zenon DEF Without
<1>11. Join(Without(f, {"activity"}), Nothing) = Without(f, {"activity"})
    BY DEF Join, Nothing, Without
<1>. QED  BY <1>8, <1>10, <1>11, Zenon DEF a

-----------------------------------------------------------------------------
(* A member of any type.                                                   *)

\* The tuners without reservation in an answer to GetAllReservations.
EmptyLists(v) == {t \in DOMAIN v : DOMAIN v[t] = {}}

\* What is left of a value after it was written and read.
Kept(type, v) ==
    CASE type = "Filters" -> Without(v, {"activity"})
      [] type = "Events" -> [e \in DOMAIN v |-> NoEvent]
      [] type = "AllReservations" -> Without(v, EmptyLists(v))
      [] OTHER -> v

\* Maps and lists are read entry by entry.
LEMMA MapIs ==
    ASSUME NEW f, NEW S, IsMap(f, S)
    PROVE  f = [k \in DOMAIN f |-> f[k]] /\ \A k \in DOMAIN f : f[k] \in S
    BY Zenon DEF IsMap

\* Members that are one JSON string or integer; a bool is written as a string.
LEMMA SimpleRead ==
    ASSUME NEW type \in {"String", "Flag", "Bool", "Integer"}, NEW v, Fits(type, v)
    PROVE  DecodeAs(type, EncodeAs(type, v)) = v
<1>1. CASE type \in {"String", "Flag"}
    BY <1>1, ValueOf, Zenon DEF EncodeAs, DecodeAs
<1>2. CASE type = "Integer"
    BY <1>2, ValueOf DEF EncodeAs, DecodeAs
<1>3. CASE type = "Bool"
    <2>1. v \in BOOLEAN
        BY <1>3 DEF Fits
    <2>2. EncodeAs(type, v) = JString(IF v THEN "true" ELSE "false")
        BY <1>3 DEF EncodeAs
    <2>3. DecodeAs(type, EncodeAs(type, v)) = (EncodeAs(type, v).value = "true")
        BY <1>3 DEF DecodeAs
    <2>4. EncodeAs(type, v).value = IF v THEN "true" ELSE "false"
        <3>1. JString(IF v THEN "true" ELSE "false").value = IF v THEN "true" ELSE "false"
            BY ValueOf, Zenon
        <3>. QED  BY <2>2, <3>1, Zenon
    <2>5. "true" # "false"
        OBVIOUS
    <2>. QED  BY <2>1, <2>3, <2>4, <2>5, Zenon
<1>. QED  BY <1>1, <1>2, <1>3

\* A list of reservations is read reservation by reservation.
LEMMA ReservationsRead ==
    ASSUME NEW v, IsMap(v, TunerReservation)
    PROVE  Map(LAMBDA e : DecodeReservation(e.value),
               Map(LAMBDA r : JObject(EncodeReservation(r)), v)) = v
<1>. DEFINE j == [k \in DOMAIN v |-> JObject(EncodeReservation(v[k]))]
<1>1. DOMAIN j = DOMAIN v
    BY Zenon
<1>2. \A k \in DOMAIN v : DecodeReservation(j[k].value) = v[k]
    <2>. SUFFICES ASSUME NEW k \in DOMAIN v
                  PROVE  DecodeReservation(j[k].value) = v[k]
        BY Zenon
    <2>1. j[k].value = EncodeReservation(v[k])
        BY ValueOf, Zenon
    <2>. QED  BY <2>1, MapIs, ReservationRead, Zenon
<1>3. Map(LAMBDA r : JObject(EncodeReservation(r)), v) = j
    BY Zenon DEF Map
<1>. HIDE DEF j
<1>4. Map(LAMBDA e : DecodeReservation(e.value), j) =
        [k \in DOMAIN j |-> DecodeReservation(j[k].value)]
    BY Zenon DEF Map
<1>5. [k \in DOMAIN j |-> DecodeReservation(j[k].value)] = [k \in DOMAIN v |-> v[k]]
    BY <1>1, <1>2, Zenon
<1>. QED  BY <1>3, <1>4, <1>5, MapIs, Zenon

\* The lists of GetAllReservationsResponse, one for each tuner; the empty
\* ones are not read.
LEMMA AllReservationsRead ==
    ASSUME NEW v, Fits("AllReservations", v)
    PROVE  DecodeAs("AllReservations", EncodeAs("AllReservations", v)) = Without(v, EmptyLists(v))
<1>. DEFINE q(t) == Map(LAMBDA r : JObject(EncodeReservation(r)), v[t])
            j == [t \in DOMAIN v |-> JArray(q(t))]
            list(e) == Map(LAMBDA x : DecodeReservation(x.value), e.value)
            empty == {t \in DOMAIN j : DOMAIN j[t].value = {}}
<1>1. \A t \in DOMAIN v : IsMap(v[t], TunerReservation)
    BY DEF Fits
<1>2. EncodeAs("AllReservations", v) = JObject(j)
    BY DEF EncodeAs, Map
<1>3. DecodeAs("AllReservations", JObject(j)) =
        Map(LAMBDA e : Map(LAMBDA x : DecodeReservation(x.value), e.value),
            Without(JObject(j).value, {t \in DOMAIN JObject(j).value :
                                           DOMAIN JObject(j).value[t].value = {}}))
    BY DEF DecodeAs
<1>4. JObject(j).value = j
    BY ValueOf, Zenon
<1>5. \A t \in DOMAIN v : list(j[t]) = v[t] /\ DOMAIN j[t].value = DOMAIN v[t]
    <2>. SUFFICES ASSUME NEW t \in DOMAIN v
                  PROVE  list(j[t]) = v[t] /\ DOMAIN j[t].value = DOMAIN v[t]
        BY Zenon
    <2>1. j[t].value = q(t)
        BY ValueOf, Zenon
    <2>2. DOMAIN q(t) = DOMAIN v[t]
        BY Zenon DEF Map
    <2>. QED  BY <1>1, <2>1, <2>2, ReservationsRead, Zenon
<1>6. DOMAIN j = DOMAIN v
    BY Zenon
<1>. HIDE DEF j, q
<1>7. empty = EmptyLists(v)
    BY <1>5, <1>6, Zenon DEF EmptyLists
<1>8. Map(LAMBDA e : Map(LAMBDA x : DecodeReservation(x.value), e.value), Without(j, empty)) =
        [t \in DOMAIN Without(j, empty) |-> list(Without(j, empty)[t])]
    BY Zenon DEF Map
<1>9. /\ DOMAIN Without(j, empty) = DOMAIN v \ EmptyLists(v)
      /\ \A t \in DOMAIN v \ EmptyLists(v) : Without(j, empty)[t] = j[t]
    BY <1>6, <1>7, Zenon DEF Without
<1>. HIDE DEF list, empty
<1>10. [t \in DOMAIN Without(j, empty) |-> list(Without(j, empty)[t])] =
         [t \in DOMAIN v \ EmptyLists(v) |-> v[t]]
    BY <1>5, <1>9, Zenon
<1>11. DecodeAs("AllReservations", JObject(j)) =
         Map(LAMBDA e : Map(LAMBDA x : DecodeReservation(x.value), e.value), Without(j, empty))
    BY <1>3, <1>4, Zenon DEF empty
<1>12. [t \in DOMAIN v \ EmptyLists(v) |-> v[t]] = Without(v, EmptyLists(v))
    BY Zenon DEF Without
<1>. QED  BY <1>2, <1>8, <1>10, <1>11, <1>12, Zenon

\* Lists of names and the map of GetAllTunerStatesResponse.
LEMMA StringsRead ==
    ASSUME NEW type \in {"Strings", "States"}, NEW v, Fits(type, v)
    PROVE  DecodeAs(type, EncodeAs(type, v)) = v
<1>. DEFINE j == [k \in DOMAIN v |-> JString(v[k])]
<1>1. v = [k \in DOMAIN v |-> v[k]]
    <2>1. IsMap(v, Text)
        BY Zenon DEF Fits
    <2>. QED  BY <2>1, MapIs, Zenon
<1>2. EncodeAs(type, v) = JArray(j) \/ EncodeAs(type, v) = JObject(j)
    BY Zenon DEF EncodeAs, Map
<1>3. EncodeAs(type, v).value = j
    <2>1. JArray(j).value = j /\ JObject(j).value = j
        BY ValueOf, Zenon
    <2>. QED  BY <1>2, <2>1, Zenon
<1>4. \A k \in DOMAIN v : j[k].value = v[k]
    BY ValueOf, Zenon
<1>5. DOMAIN j = DOMAIN v
    BY Zenon
<1>. HIDE DEF j
<1>6. DecodeAs(type, EncodeAs(type, v)) = [k \in DOMAIN j |-> j[k].value]
    BY <1>3 DEF DecodeAs, Map
<1>. QED  BY <1>1, <1>4, <1>5, <1>6, Zenon

\* The detailed states of all tuners.
LEMMA DetailsRead ==
    ASSUME NEW v, Fits("Details", v)
    PROVE  DecodeAs("Details", EncodeAs("Details", v)) = v
<1>. DEFINE j == [k \in DOMAIN v |-> JObject(EncodeState(v[k]))]
<1>1. v = [k \in DOMAIN v |-> v[k]] /\ \A k \in DOMAIN v : IsState(v[k])
    <2>1. IsMap(v, {v[t] : t \in DOMAIN v}) /\ \A t \in DOMAIN v : IsState(v[t])
        BY DEF Fits
    <2>. QED  BY <2>1, MapIs, Zenon
<1>2. EncodeAs("Details", v) = JObject(j)
    BY DEF EncodeAs, Map
<1>3. JObject(j).value = j
    BY ValueOf, Zenon
<1>4. \A k \in DOMAIN v : DecodeState(j[k].value) = v[k]
    <2>. SUFFICES ASSUME NEW k \in DOMAIN v
                  PROVE  DecodeState(j[k].value) = v[k]
        BY Zenon
    <2>1. j[k].value = EncodeState(v[k])
        BY ValueOf, Zenon
    <2>. QED  BY <1>1, <2>1, StateRead, Zenon
<1>5. DOMAIN j = DOMAIN v
    BY Zenon
<1>. HIDE DEF j
<1>6. DecodeAs("Details", JObject(j)) = [k \in DOMAIN j |-> DecodeState(j[k].value)]
    BY <1>3 DEF DecodeAs, Map
<1>. QED  BY <1>1, <1>2, <1>4, <1>5, <1>6, Zenon

\* As many events are read as were written, all of them as constructed.
LEMMA EventsRead ==
    ASSUME NEW v
    PROVE  DecodeAs("Events", EncodeAs("Events", v)) = [e \in DOMAIN v |-> NoEvent]
<1>. DEFINE j == [k \in DOMAIN v |-> EncodeEvent(v[k])]
<1>1. EncodeAs("Events", v) = JArray(j)
    BY DEF EncodeAs, Map
<1>2. JArray(j).value = j
    BY ValueOf, Zenon
<1>3. DOMAIN j = DOMAIN v
    BY Zenon
<1>. HIDE DEF j
<1>4. DecodeAs("Events", JArray(j)) = [k \in DOMAIN j |-> NoEvent]
    BY <1>2 DEF DecodeAs, Map, DecodeEvent
<1>. QED  BY <1>1, <1>3, <1>4, Zenon

\* Whatever its type, a value that is written and read is what Kept says.
LEMMA ReadAsWritten ==
    ASSUME NEW type \in Types, NEW v, Fits(type, v)
    PROVE  DecodeAs(type, EncodeAs(type, v)) = Kept(type, v)
<1>1. CASE type \in {"String", "Flag", "Bool", "Integer"}
    BY <1>1, SimpleRead DEF Kept
<1>2. CASE type = "Reservation"
    <2>1. v \in TunerReservation
        BY <1>2 DEF Fits
    <2>2. EncodeAs(type, v) = JObject(EncodeReservation(v))
        BY <1>2 DEF EncodeAs
    <2>3. DecodeAs(type, EncodeAs(type, v)) = DecodeReservation(EncodeAs(type, v).value)
        BY <1>2 DEF DecodeAs
    <2>4. EncodeAs(type, v).value = EncodeReservation(v)
        BY <2>2, ValueOf
    <2>5. Kept(type, v) = v
        BY <1>2 DEF Kept
    <2>. QED  BY <2>1, <2>3, <2>4, <2>5, ReservationRead, Zenon
<1>3. CASE type = "Reservations"
    <2>. DEFINE w == Map(LAMBDA r : JObject(EncodeReservation(r)), v)
    <2>1. IsMap(v, TunerReservation)
        BY <1>3 DEF Fits
    <2>2. EncodeAs(type, v) = JArray(w)
        BY <1>3 DEF EncodeAs
    <2>3. JArray(w).value = w
        BY ValueOf, Zenon
    <2>4. DecodeAs(type, JArray(w)) = Map(LAMBDA e : DecodeReservation(e.value), JArray(w).value)
        BY <1>3 DEF DecodeAs
    <2>5. Kept(type, v) = v
        BY <1>3 DEF Kept
    <2>6. Map(LAMBDA e : DecodeReservation(e.value), w) = v
        BY <2>1, ReservationsRead, Zenon
    <2>. HIDE DEF w
    <2>. QED  BY <2>2, <2>3, <2>4, <2>5, <2>6, Zenon
<1>4. CASE type = "AllReservations"
    BY <1>4, AllReservationsRead DEF Kept
<1>5. CASE type \in {"Strings", "States"}
    BY <1>5, StringsRead DEF Kept
<1>6. CASE type = "Details"
    BY <1>6, DetailsRead DEF Kept
<1>7. CASE type = "Filters"
    <2>1. IsMap(v, Text) /\ DOMAIN v \subseteq {"device", "activity", "state"}
        BY <1>7, SMTT(60) DEF Fits
    <2>2. DecodeAs(type, EncodeAs(type, v)) = DecodeFilters(EncodeFilters(v).value)
        BY <1>7, SMTT(60) DEF DecodeAs, EncodeAs
    <2>3. Kept(type, v) = Without(v, {"activity"})
        BY <1>7 DEF Kept
    <2>. QED  BY <2>1, <2>2, <2>3, FiltersRead, Zenon
<1>8. CASE type = "Events"
    BY <1>8, EventsRead DEF Kept
<1>. QED  BY <1>1, <1>2, <1>3, <1>4, <1>5, <1>6, <1>7, <1>8 DEF Types

-----------------------------------------------------------------------------
(* The formats.                                                            *)

\* The members of a class that do not survive.
LostOf(c) == {k \in {"requestId", "serviceLocator"} : <<c, k>> \in Lost}

\* A format can be read by those who write it: members have types there are,
\* filters, events and lists by tuner are the members of that name, allStates
\* comes with detailedStates and nothing is lost with it, only strings, lists and
\* the reservation of a ReserveTunerResponse are left out when empty, the
\* keys the reader insists on are always written, and what is not written
\* or not read is in lost.
WellFormed(c, format, lost) ==
    /\ \A k \in DOMAIN format.members :
           /\ format.members[k] \in Types
           /\ format.members[k] = "Filters" <=> k = "filters"
           /\ format.members[k] = "Events" <=> k = "connectionEvents"
           /\ format.members[k] = "AllReservations" <=> k = "allReservations"
           /\ k = "allStates" =>
                  /\ format.members[k] = "States" /\ "detailedStates" \in DOMAIN format.members
                  /\ format.members["detailedStates"] = "Details" /\ lost = {}
           /\ k \in format.omitted =>
                  \/ format.members[k] \in {"String", "Reservations"}
                  \/ /\ c = "ReserveTunerResponse" /\ k = "tunerReservation"
                     /\ format.members[k] = "Reservation"
    /\ format.required \cup format.untouched
           \subseteq DOMAIN format.members \ (format.omitted \cup format.unwritten)
    /\ format.unwritten \cup format.unread = lost

\* Every JsonEncode and JsonDecode of a class fit together.
LEMMA EveryFormat ==
    ASSUME NEW c \in DOMAIN Formats
    PROVE  WellFormed(c, Formats[c], LostOf(c))
<1>1. WellFormed(c, ReserveTuner, {})
    BY SMTT(60) DEF WellFormed, ReserveTuner, Format, Types
<1>2. WellFormed("ReserveTunerResponse", ReserveTunerResponse, {})
    BY SMTT(60) DEF WellFormed, ReserveTunerResponse, Format, Types
<1>3. WellFormed(c, SimpleTRMRequest, {})
    BY DEF WellFormed, SimpleTRMRequest, Format, Types
<1>4. WellFormed(c, ReleaseTunerReservationResponse, {})
    BY DEF WellFormed, ReleaseTunerReservationResponse, SimpleTRMResponse, Extend, Join, Format, Types
<1>5. WellFormed(c, ValidateTunerReservationResponse, {})
    BY DEF WellFormed, ValidateTunerReservationResponse, SimpleTRMResponse, Extend, Join, Format, Types
<1>6. WellFormed(c, CancelRecordingResponse, {})
    BY DEF WellFormed, CancelRecordingResponse, SimpleTRMResponse, Extend, Join, Format, Types
<1>7. WellFormed(c, CancelLive, {})
    BY DEF WellFormed, CancelLive, SimpleTRMRequest, Extend, Join, Format, Types
<1>8. WellFormed(c, CancelLiveResponse, {"serviceLocator"})
    BY DEF WellFormed, CancelLiveResponse, SimpleTRMResponse, Extend, Join, Format, Types
<1>9. WellFormed(c, GetAllTunerIdsResponse, {})
    BY DEF WellFormed, GetAllTunerIdsResponse, SimpleTRMResponse, Extend, Join, Format, Types
<1>10. WellFormed(c, GetAllTunerStatesResponse, {})
    BY DEF WellFormed, GetAllTunerStatesResponse, SimpleTRMResponse, Extend, Join, Format, Types
<1>11. WellFormed(c, GetAllReservations, {})
    BY DEF WellFormed, GetAllReservations, SimpleTRMRequest, Extend, Join, Format, Types
<1>12. WellFormed(c, GetAllReservationsResponse, {})
    BY DEF WellFormed, GetAllReservationsResponse, SimpleTRMResponse, Extend, Join, Format, Types
<1>13. WellFormed(c, GetAllConnectedDeviceIdsResponse, {})
    BY DEF WellFormed, GetAllConnectedDeviceIdsResponse, SimpleTRMResponse, Extend, Join, Format, Types
<1>14. WellFormed(c, GetVersionResponse, {})
    BY DEF WellFormed, GetVersionResponse, SimpleTRMResponse, Extend, Join, Format, Types
<1>15. WellFormed(c, NotifyTunerReservationUpdate, {})
    BY SMTT(60) DEF WellFormed, NotifyTunerReservationUpdate, Format, Types
<1>16. WellFormed(c, NotifyTunerReservationRelease, {})
    BY DEF WellFormed, NotifyTunerReservationRelease, Format, Types
<1>17. WellFormed(c, NotifyTunerReservationConflicts, {})
    BY DEF WellFormed, NotifyTunerReservationConflicts, Format, Types
<1>18. WellFormed(c, NotifyTunerStatesUpdate, {"requestId"})
    BY SMTT(60) DEF WellFormed, NotifyTunerStatesUpdate, Format, Types
<1>19. WellFormed(c, NotifyTunerPretune, {})
    BY DEF WellFormed, NotifyTunerPretune, Format, Types
<1>20. WellFormed(c, NotifyClientConnectionEvent, {"requestId"})
    BY DEF WellFormed, NotifyClientConnectionEvent, Format, Types
<1>21. WellFormed(c, GetTRMConnectionEvents, {})
    BY SMTT(60) DEF WellFormed, GetTRMConnectionEvents, SimpleTRMResponse, Extend, Join, Format, Types
<1>22. WellFormed(c, UpdateTunerActivityStatus, {})
    BY SMTT(60) DEF WellFormed, UpdateTunerActivityStatus, Format, Types
<1>23. WellFormed(c, UpdateTunerActivityStatusResponse, {})
    BY SMTT(60) DEF WellFormed, UpdateTunerActivityStatusResponse, Format, Types
<1>24. c \in
        {"ReserveTuner", "ReserveTunerResponse", "ReleaseTunerReservation",
         "ReleaseTunerReservationResponse", "ValidateTunerReservation",
         "ValidateTunerReservationResponse", "CancelRecording",
         "CancelRecordingResponse", "CancelLive", "CancelLiveResponse",
         "GetAllTunerIds", "GetAllTunerIdsResponse", "GetAllTunerStates",
         "GetAllTunerStatesResponse", "GetAllReservations",
         "GetAllReservationsResponse", "GetAllConnectedDeviceIdsResponse",
         "GetVersion", "GetVersionResponse", "NotifyTunerReservationUpdate",
         "NotifyTunerReservationRelease", "NotifyTunerReservationConflicts",
         "NotifyTunerStatesUpdate", "NotifyTunerPretune",
         "NotifyClientConnectionEvent", "GetTRMConnectionEvents",
         "UpdateTunerActivityStatus", "UpdateTunerActivityStatusResponse"}
    BY SMTT(60) DEF Formats
<1>25. /\ Formats["ReserveTuner"] = ReserveTuner
       /\ Formats["ReserveTunerResponse"] = ReserveTunerResponse
       /\ Formats["ReleaseTunerReservation"] = SimpleTRMRequest
       /\ Formats["ReleaseTunerReservationResponse"] = ReleaseTunerReservationResponse
       /\ Formats["ValidateTunerReservation"] = SimpleTRMRequest
       /\ Formats["ValidateTunerReservationResponse"] = ValidateTunerReservationResponse
       /\ Formats["CancelRecording"] = SimpleTRMRequest
       /\ Formats["CancelRecordingResponse"] = CancelRecordingResponse
       /\ Formats["CancelLive"] = CancelLive
       /\ Formats["CancelLiveResponse"] = CancelLiveResponse
       /\ Formats["GetAllTunerIds"] = SimpleTRMRequest
       /\ Formats["GetAllTunerIdsResponse"] = GetAllTunerIdsResponse
       /\ Formats["GetAllTunerStates"] = SimpleTRMRequest
       /\ Formats["GetAllTunerStatesResponse"] = GetAllTunerStatesResponse
       /\ Formats["GetAllReservations"] = GetAllReservations
       /\ Formats["GetAllReservationsResponse"] = GetAllReservationsResponse
       /\ Formats["GetAllConnectedDeviceIdsResponse"] = GetAllConnectedDeviceIdsResponse
       /\ Formats["GetVersion"] = SimpleTRMRequest
       /\ Formats["GetVersionResponse"] = GetVersionResponse
       /\ Formats["NotifyTunerReservationUpdate"] = NotifyTunerReservationUpdate
       /\ Formats["NotifyTunerReservationRelease"] = NotifyTunerReservationRelease
       /\ Formats["NotifyTunerReservationConflicts"] = NotifyTunerReservationConflicts
       /\ Formats["NotifyTunerStatesUpdate"] = NotifyTunerStatesUpdate
       /\ Formats["NotifyTunerPretune"] = NotifyTunerPretune
       /\ Formats["NotifyClientConnectionEvent"] = NotifyClientConnectionEvent
       /\ Formats["GetTRMConnectionEvents"] = GetTRMConnectionEvents
       /\ Formats["UpdateTunerActivityStatus"] = UpdateTunerActivityStatus
       /\ Formats["UpdateTunerActivityStatusResponse"] = UpdateTunerActivityStatusResponse
    BY DEF Formats
<1>26. CASE c \in {"NotifyTunerStatesUpdate", "NotifyClientConnectionEvent", "CancelLiveResponse"}
    <2>1. /\ LostOf("NotifyTunerStatesUpdate") = {"requestId"}
          /\ LostOf("NotifyClientConnectionEvent") = {"requestId"}
          /\ LostOf("CancelLiveResponse") = {"serviceLocator"}
        BY DEF LostOf, Lost
    <2>. QED  BY <1>8, <1>18, <1>20, <1>25, <1>26, <2>1, ZenonT(60)
<1>27. CASE c \notin {"NotifyTunerStatesUpdate", "NotifyClientConnectionEvent", "CancelLiveResponse"}
    <2>1. LostOf(c) = {}
        BY <1>27 DEF LostOf, Lost
    <2>2. WellFormed(c, Formats[c], {})
        BY <1>1, <1>2, <1>3, <1>4, <1>5, <1>6, <1>7, <1>9, <1>10, <1>11, <1>12, <1>13, <1>14,
           <1>15, <1>16, <1>17, <1>19, <1>21, <1>22, <1>23, <1>24, <1>25, <1>27, ZenonT(60)
    <2>. QED  BY <2>1, <2>2, Zenon
<1>. QED  BY <1>26, <1>27, Zenon

\* The constructors give every member a value of its type.
LEMMA ConstructedFits ==
    ASSUME NEW type \in Types
    PROVE  Fits(type, IF type = "Flag" THEN "" ELSE DefaultOf(type))
<1>1. "" \in Text /\ NoReservation \in TunerReservation
    <2>1. "" \in Text /\ "None" \in Text /\ "none" \in Text /\ 0 \in Nat
        BY TextAssumption, Zenon
    <2>2. [name |-> "None", details |-> ""] \in Activity
        BY <2>1, Zenon DEF Activity
    <2>. QED  BY <2>1, <2>2, Zenon DEF NoReservation, TunerReservation
<1>2. DOMAIN Nothing = {} /\ \A S : IsMap(Nothing, S)
    BY DEF Nothing, IsMap
<1>3. CASE type \in {"String", "Flag", "Bool", "Integer", "Reservation"}
    BY <1>1, <1>3, Zenon DEF Fits, DefaultOf
<1>4. CASE type \in {"Reservations", "AllReservations", "Strings", "States", "Details",
                     "Filters", "Events"}
    <2>1. type # "Flag" /\ DefaultOf(type) = Nothing
        BY <1>4, Zenon DEF DefaultOf
    <2>2. Fits(type, Nothing)
        BY <1>2, <1>4, Zenon DEF Fits
    <2>. QED  BY <2>1, <2>2, Zenon
<1>. QED  BY <1>3, <1>4, Zenon DEF Types

\* What senders put into a message: values of the members' types, and no
\* reservation without token where one would be left out.
Sendable(format, m) ==
    \A k \in DOMAIN format.members :
        /\ Fits(format.members[k], m[k])
        /\ k \in format.omitted /\ format.members[k] = "Reservation" =>
               m[k].reservationToken # "" \/ m[k] = NoReservation

\* A message of a well-formed format is accepted and read back.
LEMMA ReadBack ==
    ASSUME NEW c, NEW format, NEW lost, NEW m, WellFormed(c, format, lost), Sendable(format, m)
    PROVE  /\ format.required \subseteq DOMAIN JsonEncode(format, m)
           /\ \A k \in DOMAIN format.members :
                  JsonDecode(format, JsonEncode(format, m))[k] =
                      IF k \in lost THEN DefaultOf(format.members[k])
                      ELSE IF k = "allStates" THEN Join(StatesOf(m["detailedStates"]), m[k])
                      ELSE Kept(format.members[k], m[k])
<1>. DEFINE types == format.members
            o == JsonEncode(format, m)
<1>1. /\ DOMAIN o = {k \in DOMAIN types \ format.unwritten :
                       k \in format.omitted => ~Empty(types[k], m[k])}
      /\ \A k \in DOMAIN o : o[k] = EncodeAs(types[k], m[k])
    BY Zenon DEF JsonEncode
<1>. HIDE DEF o
<1>2. format.required \subseteq DOMAIN o /\ format.untouched \subseteq DOMAIN o
    BY <1>1, Zenon DEF WellFormed
<1>. DEFINE d == [k \in DOMAIN types |-> IF k \in DOMAIN o \ format.unread
                                         THEN DecodeAs(types[k], o[k]) ELSE DefaultOf(types[k])]
<1>3. JsonDecode(format, o) = addTunerStates(d)
    BY <1>2, Zenon DEF JsonDecode
<1>4. ASSUME NEW k \in DOMAIN types
      PROVE  (IF k \in DOMAIN o \ format.unread THEN DecodeAs(types[k], o[k])
              ELSE DefaultOf(types[k])) =
             IF k \in lost THEN DefaultOf(types[k]) ELSE Kept(types[k], m[k])
    <2>1. types[k] \in Types /\ Fits(types[k], m[k])
        BY Zenon DEF WellFormed, Sendable
    <2>2. lost = format.unwritten \cup format.unread
        BY Zenon DEF WellFormed
    <2>3. CASE k \in lost
        BY <1>1, <2>2, <2>3, Zenon
    <2>4. CASE k \notin lost /\ k \in DOMAIN o
        BY <1>1, <2>1, <2>2, <2>4, ReadAsWritten, Zenon
    <2>5. CASE k \notin lost /\ k \notin DOMAIN o
        <3>1. k \in format.omitted /\ Empty(types[k], m[k])
            BY <1>1, <2>2, <2>5, Zenon
        <3>2. types[k] \in {"String", "Reservation", "Reservations"}
            BY <3>1, Zenon DEF WellFormed
        <3>3. types[k] = "Reservation" => m[k].reservationToken # "" \/ m[k] = NoReservation
            BY <3>1, Zenon DEF Sendable
        <3>. HIDE DEF types
        <3>4. m[k] = DefaultOf(types[k])
            <4>1. CASE types[k] = "Reservation"
                <5>1. DefaultOf(types[k]) = NoReservation
                    BY <4>1 DEF DefaultOf
                <5>. QED  BY <3>1, <3>3, <4>1, <5>1, Zenon DEF Empty
            <4>2. CASE types[k] # "Reservation"
                BY <3>1, <4>2, Zenon DEF Empty
            <4>. QED  BY <4>1, <4>2, Zenon
        <3>5. Kept(types[k], m[k]) = m[k]
            BY <3>2 DEF Kept
        <3>. QED  BY <2>5, <3>4, <3>5, Zenon
    <2>. QED  BY <2>3, <2>4, <2>5, Zenon
<1>5. DOMAIN d = DOMAIN types /\ \A k \in DOMAIN types :
          d[k] = IF k \in lost THEN DefaultOf(types[k]) ELSE Kept(types[k], m[k])
    BY <1>4, Zenon
<1>. HIDE DEF d
<1>6. ASSUME NEW k \in DOMAIN types
      PROVE  addTunerStates(d)[k] =
                 IF k \in lost THEN DefaultOf(types[k])
                 ELSE IF k = "allStates" THEN Join(StatesOf(m["detailedStates"]), m[k])
                 ELSE Kept(types[k], m[k])
    <2>1. addTunerStates(d)[k] = IF k = "allStates" THEN Join(StatesOf(d["detailedStates"]), d[k])
                                 ELSE d[k]
        BY <1>5, Zenon DEF addTunerStates
    <2>2. CASE k = "allStates"
        <3>1. /\ types[k] = "States" /\ "detailedStates" \in DOMAIN types
              /\ types["detailedStates"] = "Details" /\ lost = {}
            BY <2>2, Zenon DEF WellFormed
        <3>2. Kept("States", m[k]) = m[k] /\ Kept("Details", m["detailedStates"]) = m["detailedStates"]
            BY DEF Kept
        <3>. QED  BY <1>5, <2>1, <2>2, <3>1, <3>2, Zenon
    <2>. QED  BY <1>5, <2>1, <2>2, Zenon
<1>. QED  BY <1>2, <1>3, <1>6, Zenon DEF o

-----------------------------------------------------------------------------
(* The invariant and the theorems.                                         *)

\* The inductive invariant: the members of message fit their types, json is
\* what JsonEncode made of it (in a request, perhaps without the optional
\* keys), and outcome and received are what JsonDecode makes of json.
CodecInv ==
    /\ stage \in {"composed", "written", "read"}
    /\ klass \in DOMAIN Formats
    /\ DOMAIN message = DOMAIN Formats[klass].members
    /\ \A k \in DOMAIN message : Fits(Formats[klass].members[k], message[k])
    /\ klass = "ReserveTunerResponse" =>
           message["tunerReservation"].reservationToken # ""
           \/ message["tunerReservation"] = NoReservation
    /\ stage = "composed" => leftOut = {}
    /\ leftOut # {} =>
           /\ klass = "ReserveTuner"
           /\ json = [JsonEncode(ReserveTuner, message) EXCEPT !["tunerReservation"] =
                         JObject(Without(EncodeReservation(message["tunerReservation"]), leftOut))]
    /\ stage # "composed" /\ leftOut = {} => json = JsonEncode(Formats[klass], message)
    /\ stage = "read" =>
           /\ outcome = IF klass \notin Dispatched THEN "ignored"
                        ELSE IF Formats[klass].required \subseteq DOMAIN json THEN "message"
                        ELSE "refused"
           /\ outcome = "message" => received = JsonDecode(Formats[klass], json)

\* The entries of Formats for a request and its response.
LEMMA ReserveTunerIs ==
    /\ "ReserveTuner" \in Dispatched /\ Formats["ReserveTuner"] = ReserveTuner
    /\ "tunerReservation" \in DOMAIN ReserveTuner.members
    /\ ReserveTuner.members["tunerReservation"] = "Reservation"
    /\ ReserveTuner.omitted = {} /\ ReserveTuner.unwritten = {} /\ ReserveTuner.unread = {}
    <1>1. "ReserveTuner" \in Dispatched /\ Formats["ReserveTuner"] = ReserveTuner
        BY DEF Dispatched, Formats
    <1>2. /\ "tunerReservation" \in DOMAIN ReserveTuner.members
          /\ ReserveTuner.members["tunerReservation"] = "Reservation"
          /\ ReserveTuner.omitted = {} /\ ReserveTuner.unwritten = {} /\ ReserveTuner.unread = {}
        BY DEF ReserveTuner, Format
    <1>. QED  BY <1>1, <1>2, ZenonT(60)

LEMMA ReserveTunerResponseIs ==
    /\ Formats["ReserveTunerResponse"] = ReserveTunerResponse
    /\ "tunerReservation" \in DOMAIN ReserveTunerResponse.members
    /\ ReserveTunerResponse.members["tunerReservation"] = "Reservation"
    <1>1. Formats["ReserveTunerResponse"] = ReserveTunerResponse
        BY SMTT(60) DEF Formats
    <1>2. /\ "tunerReservation" \in DOMAIN ReserveTunerResponse.members
          /\ ReserveTunerResponse.members["tunerReservation"] = "Reservation"
        BY DEF ReserveTunerResponse, Format
    <1>. QED  BY <1>1, <1>2, ZenonT(60)

\* A message that has just been constructed satisfies the invariant.
LEMMA CodecInvStarts == CodecInit => CodecInv
<1>. SUFFICES ASSUME CodecInit PROVE CodecInv
    OBVIOUS
<1>1. /\ stage = "composed" /\ klass \in DOMAIN Formats /\ leftOut = {}
      /\ message = Constructed(Formats[klass])
    BY DEF CodecInit
<1>2. /\ DOMAIN message = DOMAIN Formats[klass].members
      /\ \A k \in DOMAIN message : message[k] =
             IF Formats[klass].members[k] = "Flag" THEN "" ELSE DefaultOf(Formats[klass].members[k])
    BY <1>1, Zenon DEF Constructed
<1>3. \A k \in DOMAIN message : Fits(Formats[klass].members[k], message[k])
    <2>. SUFFICES ASSUME NEW k \in DOMAIN message
                  PROVE  Fits(Formats[klass].members[k], message[k])
        BY Zenon
    <2>1. WellFormed(klass, Formats[klass], LostOf(klass))
        BY <1>1, EveryFormat, Zenon
    <2>2. Formats[klass].members[k] \in Types
        BY <1>2, <2>1, Zenon DEF WellFormed
    <2>3. Fits(Formats[klass].members[k],
               IF Formats[klass].members[k] = "Flag" THEN ""
               ELSE DefaultOf(Formats[klass].members[k]))
        BY <2>2, ConstructedFits, Zenon
    <2>. QED  BY <1>2, <2>3, Zenon
<1>4. klass = "ReserveTunerResponse" => message["tunerReservation"] = NoReservation
    <2>. SUFFICES ASSUME klass = "ReserveTunerResponse"
                  PROVE  message["tunerReservation"] = NoReservation
        OBVIOUS
    <2>1. message["tunerReservation"] = 
             IF "Reservation" = "Flag" THEN "" ELSE DefaultOf("Reservation")
        BY <1>2, ReserveTunerResponseIs, Zenon
    <2>. QED  BY <2>1 DEF DefaultOf
<1>5. "composed" # "read"
    OBVIOUS
<1>. QED  BY <1>1, <1>2, <1>3, <1>4, <1>5, Zenon DEF CodecInv

\* Every step keeps the invariant: setting a member, writing the message, in
\* full or without optional keys, and reading it.
LEMMA CodecInvKept == CodecInv /\ [CodecNext]_vars => CodecInv'
<1>. SUFFICES ASSUME CodecInv, [CodecNext]_vars PROVE CodecInv'
    OBVIOUS
<1>0. "composed" # "written" /\ "composed" # "read" /\ "written" # "read"
    OBVIOUS
<1>1. ASSUME NEW k \in DOMAIN message, NEW v \in Values(Formats[klass].members[k]), Compose(k, v)
      PROVE  CodecInv'
    <2>1. /\ stage = "composed" /\ stage' = stage /\ klass' = klass /\ leftOut = {} /\ leftOut' = {}
          /\ message' = [message EXCEPT ![k] = v]
        BY <1>1, Zenon DEF Compose, CodecInv
    <2>2. Fits(Formats[klass].members[k], v)
        <3>1. klass \in DOMAIN Formats /\ k \in DOMAIN Formats[klass].members
            BY Zenon DEF CodecInv
        <3>2. Formats[klass].members[k] \in Types
            BY <3>1, EveryFormat, Zenon DEF WellFormed
        <3>. QED  BY <3>2, ValuesAssumption, Zenon
    <2>3. /\ DOMAIN message' = DOMAIN message
          /\ \A x \in DOMAIN message : message'[x] = IF x = k THEN v ELSE message[x]
        BY <2>1, Zenon
    <2>4. \A x \in DOMAIN message : Fits(Formats[klass].members[x], message'[x])
        BY <2>2, <2>3, Zenon DEF CodecInv
    <2>5. klass = "ReserveTunerResponse" =>
              message'["tunerReservation"].reservationToken # ""
              \/ message'["tunerReservation"] = NoReservation
        BY <1>1, <2>3, ReserveTunerResponseIs, Zenon DEF CodecInv, Compose
    <2>. QED  BY <1>0, <2>1, <2>3, <2>4, <2>5, Zenon DEF CodecInv
<1>2. CASE Write
    BY <1>0, <1>2, Zenon DEF Write, CodecInv
<1>3. ASSUME NEW keys \in (SUBSET OptionalKeys) \ {{}}, WriteLess(keys)
      PROVE  CodecInv'
    <2>. DEFINE o == JsonEncode(ReserveTuner, message)
                m == message["tunerReservation"]
    <2>1. /\ stage = "composed" /\ stage' = "written" /\ klass = "ReserveTuner" /\ klass' = klass
          /\ leftOut' = keys /\ message' = message
        BY <1>3, Zenon DEF WriteLess
    <2>5. keys # {}
        BY Zenon
    <2>4. json' = [o EXCEPT !["tunerReservation"] =
                      JObject(Without(o["tunerReservation"].value, keys))]
        BY <1>3, ZenonT(60) DEF WriteLess
    <2>2. o["tunerReservation"] = EncodeAs("Reservation", m)
        BY ReserveTunerIs DEF JsonEncode
    <2>3. EncodeAs("Reservation", m).value = EncodeReservation(m)
        BY Zenon DEF EncodeAs, JObject
    <2>. QED  BY <1>0, <2>1, <2>2, <2>3, <2>4, <2>5, Zenon DEF CodecInv
<1>4. CASE Read
    <2>1. /\ stage = "written" /\ stage' = "read" /\ klass' = klass /\ leftOut' = leftOut
          /\ message' = message /\ json' = json
          /\ outcome' = IF klass \notin Dispatched THEN "ignored"
                        ELSE IF Formats[klass].required \subseteq DOMAIN json THEN "message"
                        ELSE "refused"
          /\ outcome' = "message" => received' = JsonDecode(Formats[klass], json)
        BY <1>4, Zenon DEF Read
    <2>. QED  BY <1>0, <2>1, Zenon DEF CodecInv
<1>5. CASE UNCHANGED vars
    BY <1>5, Zenon DEF CodecInv, vars
<1>. QED  BY <1>1, <1>2, <1>3, <1>4, <1>5, Zenon DEF CodecNext

\* The invariant holds in every state.
LEMMA CodecInvHolds == CodecSpec => []CodecInv
    BY CodecInvStarts, CodecInvKept, PTL DEF CodecSpec

\* NothingElseLost, for all values of all members of all 28 classes: the
\* reader accepts what JsonEncode writes and gets the same message, but for
\* the members in Lost, the activity filter, tuners without reservation, the
\* contents of events, and states that the detailed states contradict.
THEOREM MessagesSurvive == CodecSpec => []NothingElseLost
<1>1. CodecInv => NothingElseLost
    <2>. DEFINE format == Formats[klass]
                types == format.members
    <2>. SUFFICES ASSUME CodecInv, stage = "read", leftOut = {}
                  PROVE  /\ outcome = IF klass = "UpdateTunerActivityStatusResponse" THEN "ignored"
                                      ELSE "message"
                         /\ outcome = "message" => \A k \in DOMAIN message :
                                received[k] =
                                    CASE <<klass, k>> \in Lost -> DefaultOf(types[k])
                                      [] k = "filters" -> Without(message[k], {"activity"})
                                      [] k = "connectionEvents" -> [e \in DOMAIN message[k] |-> NoEvent]
                                      [] k = "allReservations" ->
                                             Without(message[k], EmptyLists(message[k]))
                                      [] k = "allStates" ->
                                             Join(StatesOf(message["detailedStates"]), message[k])
                                      [] OTHER -> message[k]
        BY Zenon DEF NothingElseLost, EmptyLists
    <2>1. /\ klass \in DOMAIN Formats /\ json = JsonEncode(format, message)
          /\ DOMAIN message = DOMAIN types
        BY Zenon DEF CodecInv
    <2>2. WellFormed(klass, format, LostOf(klass))
        BY <2>1, EveryFormat, Zenon
    <2>3. Sendable(format, message)
        <3>. SUFFICES ASSUME NEW k \in DOMAIN types
                      PROVE  /\ Fits(types[k], message[k])
                             /\ k \in format.omitted /\ types[k] = "Reservation" =>
                                    \/ message[k].reservationToken # ""
                                    \/ message[k] = NoReservation
            BY Zenon DEF Sendable
        <3>1. Fits(types[k], message[k])
            BY <2>1, ZenonT(60) DEF CodecInv
        <3>2. k \in format.omitted /\ types[k] = "Reservation" =>
                  klass = "ReserveTunerResponse" /\ k = "tunerReservation"
            BY <2>2 DEF WellFormed
        <3>. QED  BY <3>1, <3>2, Zenon DEF CodecInv
    <2>. HIDE DEF format
    <2>4. /\ format.required \subseteq DOMAIN json
          /\ \A k \in DOMAIN types :
                 JsonDecode(format, json)[k] =
                     IF k \in LostOf(klass) THEN DefaultOf(types[k])
                     ELSE IF k = "allStates" THEN Join(StatesOf(message["detailedStates"]), message[k])
                     ELSE Kept(types[k], message[k])
        <3>1. /\ format.required \subseteq DOMAIN JsonEncode(format, message)
              /\ \A k \in DOMAIN types :
                     JsonDecode(format, JsonEncode(format, message))[k] =
                         IF k \in LostOf(klass) THEN DefaultOf(types[k])
                         ELSE IF k = "allStates"
                              THEN Join(StatesOf(message["detailedStates"]), message[k])
                         ELSE Kept(types[k], message[k])
            BY <2>2, <2>3, ReadBack
        <3>. QED  BY <2>1, <3>1, ZenonT(60)
    <2>5. outcome = IF klass = "UpdateTunerActivityStatusResponse" THEN "ignored" ELSE "message"
        BY <2>1, <2>4, Zenon DEF CodecInv, Dispatched, format
    <2>6. ASSUME outcome = "message", NEW k \in DOMAIN message
          PROVE  received[k] =
                     CASE <<klass, k>> \in Lost -> DefaultOf(types[k])
                       [] k = "filters" -> Without(message[k], {"activity"})
                       [] k = "connectionEvents" -> [e \in DOMAIN message[k] |-> NoEvent]
                       [] k = "allReservations" -> Without(message[k], EmptyLists(message[k]))
                       [] k = "allStates" -> Join(StatesOf(message["detailedStates"]), message[k])
                       [] OTHER -> message[k]
        <3>1. received = JsonDecode(format, json)
            BY <2>6, Zenon DEF CodecInv, format
        <3>2. received[k] =
                  IF k \in LostOf(klass) THEN DefaultOf(types[k])
                  ELSE IF k = "allStates" THEN Join(StatesOf(message["detailedStates"]), message[k])
                  ELSE Kept(types[k], message[k])
            BY <2>1, <2>4, <3>1, Zenon
        <3>3. k \in LostOf(klass) <=> <<klass, k>> \in Lost
            BY DEF LostOf, Lost
        <3>4. /\ types[k] = "Filters" <=> k = "filters"
              /\ types[k] = "Events" <=> k = "connectionEvents"
              /\ types[k] = "AllReservations" <=> k = "allReservations"
            BY <2>1, <2>2, Zenon DEF WellFormed
        <3>. HIDE DEF types
        <3>5. k # "allStates" =>
                  Kept(types[k], message[k]) =
                      CASE k = "filters" -> Without(message[k], {"activity"})
                        [] k = "connectionEvents" -> [e \in DOMAIN message[k] |-> NoEvent]
                        [] k = "allReservations" -> Without(message[k], EmptyLists(message[k]))
                        [] k = "allStates" -> Join(StatesOf(message["detailedStates"]), message[k])
                        [] OTHER -> message[k]
            BY <3>4 DEF Kept
        <3>6. <<klass, k>> \in Lost =>
                  k \notin {"filters", "connectionEvents", "allReservations", "allStates"}
            BY DEF Lost
        <3>. QED  BY <3>2, <3>3, <3>5, <3>6
    <2>. QED  BY <2>5, <2>6, Zenon DEF format
<1>. QED  BY <1>1, CodecInvHolds, PTL

\* OpenEndedLiveFits, for every clock and width: DecodeReservation leaves
\* room in the duration of a Live without one, so that its end fits a signed
\* 64-bit integer for every start time up to twice the clock.
THEOREM OpenEndedLivesFit == CodecSpec => []OpenEndedLiveFits
<1>1. CodecInv => OpenEndedLiveFits
    <2>. DEFINE m == message["tunerReservation"]
                w == Without(EncodeReservation(m), leftOut)
                r == received["tunerReservation"]
    <2>. SUFFICES ASSUME CodecInv, stage = "read", klass = "ReserveTuner", "duration" \in leftOut
                  PROVE  /\ "startTime" \in leftOut => r.startTime = Now
                         /\ r.activity.name = "Live" /\ r.startTime <= 2 * Now =>
                                r.startTime + r.duration \in MaxInt64 - 2 * Now .. MaxInt64
        BY Zenon DEF OpenEndedLiveFits
    <2>1. /\ leftOut # {}
          /\ json = [JsonEncode(ReserveTuner, message) EXCEPT !["tunerReservation"] = JObject(w)]
          /\ DOMAIN message = DOMAIN ReserveTuner.members
          /\ Fits("Reservation", m)
        BY ReserveTunerIs, ZenonT(60) DEF CodecInv
    <2>2. m \in TunerReservation
        BY <2>1 DEF Fits
    <2>3. DOMAIN JsonEncode(ReserveTuner, message) = DOMAIN ReserveTuner.members
        BY ReserveTunerIs DEF JsonEncode
    <2>4. DOMAIN json = DOMAIN ReserveTuner.members /\ json["tunerReservation"] = JObject(w)
        BY <2>1, <2>3, ReserveTunerIs, Zenon
    <2>5. WellFormed("ReserveTuner", ReserveTuner, LostOf("ReserveTuner"))
        BY EveryFormat, ReserveTunerIs, Zenon DEF CodecInv
    <2>6. ReserveTuner.required \cup ReserveTuner.untouched \subseteq DOMAIN json
        BY <2>4, <2>5, Zenon DEF WellFormed
    <2>7. received = JsonDecode(ReserveTuner, json)
        BY <2>6, ReserveTunerIs, Zenon DEF CodecInv
    <2>8. r = DecodeAs("Reservation", JObject(w))
        <3>. DEFINE d == [k \in DOMAIN ReserveTuner.members |->
                             IF k \in DOMAIN json \ ReserveTuner.unread
                             THEN DecodeAs(ReserveTuner.members[k], json[k])
                             ELSE DefaultOf(ReserveTuner.members[k])]
        <3>1. JsonDecode(ReserveTuner, json) = addTunerStates(d)
            BY <2>6, Zenon DEF JsonDecode
        <3>2. d["tunerReservation"] = DecodeAs("Reservation", JObject(w))
            BY <2>4, ReserveTunerIs
        <3>3. "tunerReservation" # "allStates" /\ "tunerReservation" \in DOMAIN d
            BY ReserveTunerIs
        <3>. HIDE DEF d
        <3>. QED  BY <2>7, <3>1, <3>2, <3>3, Zenon DEF addTunerStates
    <2>9. r = DecodeReservation(w)
        <3>1. DecodeAs("Reservation", JObject(w)) = DecodeReservation(JObject(w).value)
            BY DEF DecodeAs
        <3>2. JObject(w).value = w
            BY ValueOf, Zenon
        <3>. QED  BY <2>8, <3>1, <3>2, Zenon
    <2>10. /\ "duration" \notin DOMAIN w
           /\ "startTime" \in leftOut => "startTime" \notin DOMAIN w
           /\ "startTime" \notin leftOut =>
                  "startTime" \in DOMAIN w /\ w["startTime"] = JInteger(m.startTime)
        BY Zenon DEF Without, EncodeReservation
    <2>. HIDE DEF w, r, m
    <2>11. /\ r.startTime = IF "startTime" \in DOMAIN w THEN w["startTime"].value ELSE Now
           /\ r.duration = IF r.activity.name = "Live" THEN MaxInt64 - 2 * Now ELSE 0
        BY <2>9, <2>10, Zenon DEF DecodeReservation
    <2>12. m.startTime \in Nat
        BY <2>2 DEF TunerReservation
    <2>13. r.startTime \in Nat /\ ("startTime" \in leftOut => r.startTime = Now)
        <3>1. JInteger(m.startTime).value = m.startTime
            BY ValueOf, Zenon
        <3>. QED  BY <2>10, <2>11, <2>12, <3>1, RoomAssumption, Zenon
    <2>14. ASSUME r.activity.name = "Live", r.startTime <= 2 * Now
           PROVE  r.startTime + r.duration \in MaxInt64 - 2 * Now .. MaxInt64
        <3>1. r.duration = MaxInt64 - 2 * Now
            BY <2>11, <2>14, Zenon
        <3>. QED  BY <2>13, <2>14, <3>1, RoomAssumption
    <2>. QED  BY <2>13, <2>14, Zenon
<1>. QED  BY <1>1, CodecInvHolds, PTL

=============================================================================
