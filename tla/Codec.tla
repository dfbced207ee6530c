-------------------------------- MODULE Codec --------------------------------
(***************************************************************************)
(* The messages (src/common/include/trm/Messages.h) and their JSON form    *)
(* (src/common/src/JanssonParser.cpp, dispatched by JsonDecoder.cpp).  One *)
(* message is written by JsonEncode, perhaps loses keys that are optional  *)
(* in the format (other clients write their own JSON) and is read back by  *)
(* JsonDecode.  Strings are opaque; what matters is which keys are written *)
(* and when, what kind of JSON value each holds, which keys are read, and  *)
(* what stands for a missing one.                                          *)
(***************************************************************************)
EXTENDS Integers

CONSTANTS
    Text,       \* the strings; the pointer NULL is none of them
    Values(_),  \* bound: the values enumerated for each type of member
    Now,        \* GetCurrentEpoch() while the message is read
    MaxInt64    \* std::numeric_limits<int64_t>::max()

ASSUME RoomAssumption == Now \in Nat /\ MaxInt64 \in Nat /\ MaxInt64 > 2 * Now

VARIABLES
    stage,      \* "composed", "written", "read"
    klass,      \* the class of the message
    message,    \* the message its sender has
    json,       \* the object under the class name
    leftOut,    \* optional keys the sender has left out
    outcome,    \* what the reader does: "message", "refused" or "ignored"
    received    \* the message it processes

vars == <<stage, klass, message, json, leftOut, outcome, received>>

-----------------------------------------------------------------------------
(* JSON values, as jansson tells them apart.                               *)

JString(s) == [json |-> "string", value |-> s]
JInteger(i) == [json |-> "integer", value |-> i]
JObject(o) == [json |-> "object", value |-> o]
JArray(s) == [json |-> "array", value |-> s]
JNull == [json |-> "null", value |-> ""]
NULL == "NULL"

\* json_object_get, and the value if it is of the given kind: NULL for a
\* key that is missing, and for a value of another kind.
Is(o, key, kind) == key \in DOMAIN o /\ o[key].json = kind
Get(o, key, kind) == IF Is(o, key, kind) THEN o[key].value ELSE NULL

\* An object, list or map with nothing in it, one with some keys left out,
\* and one with more keys.
Nothing == [k \in {} |-> k]
Without(o, keys) == [k \in DOMAIN o \ keys |-> o[k]]
Join(o, p) == [k \in DOMAIN o \cup DOMAIN p |-> IF k \in DOMAIN o THEN o[k] ELSE p[k]]

-----------------------------------------------------------------------------
(* The parts of messages.                                                  *)

\* Activity; details is empty or the (key, value) pairs it has.
EncodeActivity(a) ==
    JObject(Without([name |-> JString(a.name), details |-> JObject(a.details)],
                    IF a.details = "" THEN {"details"} ELSE {}))

DecodeActivity(o) ==
    [name |-> Get(o, "name", "string"),
     details |-> IF Is(o, "details", "object") THEN o.details.value ELSE ""]

\* TunerReservation.  NoReservation is the default constructor's.
NoReservation ==
    [reservationToken |-> "", device |-> "", serviceLocator |-> "", startTime |-> 0,
     duration |-> 0, activity |-> [name |-> "None", details |-> ""],
     customAttributes |-> "none"]

EncodeReservation(r) ==
    Without([reservationToken |-> JString(r.reservationToken),
             device |-> JString(r.device),
             serviceLocator |-> JString(r.serviceLocator),
             startTime |-> JInteger(r.startTime),
             duration |-> JInteger(r.duration),
             activity |-> EncodeActivity(r.activity),
             customAttributes |-> IF r.customAttributes = "none" THEN JNull
                                  ELSE JObject(r.customAttributes)],
            IF r.reservationToken = "" THEN {"reservationToken"} ELSE {})

\* Variant: leaves room for one start time that is not in the future.
DecodeReservationTight(o) ==
    LET orElse(v, default) == IF v = NULL THEN default ELSE v
        activity == DecodeActivity(o.activity.value)
    IN  [reservationToken |-> orElse(Get(o, "reservationToken", "string"), ""),
         device |-> orElse(Get(o, "device", "string"), ""),
         serviceLocator |-> Get(o, "serviceLocator", "string"),
         startTime |-> IF "startTime" \in DOMAIN o THEN o.startTime.value ELSE Now,
         duration |-> IF "duration" \in DOMAIN o THEN o.duration.value
                      ELSE IF activity.name = "Live" THEN MaxInt64 - Now ELSE 0,
         activity |-> activity,
         customAttributes |-> orElse(Get(o, "customAttributes", "object"), "none")]

\* A Live without a duration does not end, with room left for adding a
\* start time to its duration.  GetSpecVersion() is above 2.1.
DecodeReservation(o) ==
    LET orElse(v, default) == IF v = NULL THEN default ELSE v
        activity == DecodeActivity(o.activity.value)
    IN  [reservationToken |-> orElse(Get(o, "reservationToken", "string"), ""),
         device |-> orElse(Get(o, "device", "string"), ""),
         serviceLocator |-> Get(o, "serviceLocator", "string"),
         startTime |-> IF "startTime" \in DOMAIN o THEN o.startTime.value ELSE Now,
         duration |-> IF "duration" \in DOMAIN o THEN o.duration.value
                      ELSE IF activity.name = "Live" THEN MaxInt64 - 2 * Now ELSE 0,
         activity |-> activity,
         customAttributes |-> orElse(Get(o, "customAttributes", "object"), "none")]

\* DetailedTunerState; owners maps an activity to a device.
EncodeState(s) ==
    Without([state |-> JString(s.state),
             serviceLocator |-> JString(s.serviceLocator),
             owners |-> JObject([a \in DOMAIN s.owners |->
                            JObject([device |-> JString(s.owners[a])])]),
             reservedDeviceId |-> JString(s.reservedDeviceId)],
            (IF s.serviceLocator = "" THEN {"serviceLocator", "owners"} ELSE {})
            \cup (IF s.reservedDeviceId = "" THEN {"reservedDeviceId"} ELSE {}))

DecodeState(o) ==
    [state |-> Get(o, "state", "string"),
     serviceLocator |-> IF "serviceLocator" \in DOMAIN o THEN o.serviceLocator.value ELSE "",
     owners |-> IF "owners" \in DOMAIN o
                THEN [a \in DOMAIN o.owners.value |->
                         Get(o.owners.value[a].value, "device", "string")]
                ELSE Nothing,
     reservedDeviceId |-> IF "reservedDeviceId" \in DOMAIN o
                          THEN o.reservedDeviceId.value ELSE ""]

\* The filters of GetAllReservations: an array of objects with one key.  Their
\* order does not matter, so that each stands at the place of its key.
EncodeFilters(f) ==
    JArray([key \in DOMAIN f |-> [k \in {key} |-> JString(f[key])]])

\* The filter on the activity is read from an object, {"name" : activity}.
DecodeFilters(a) ==
    LET sent(key, kind) == {i \in DOMAIN a : Is(a[i], key, kind)}
        at(key, kind) == a[CHOOSE i \in sent(key, kind) : TRUE][key].value
    IN  Join([key \in {f \in {"device", "state"} : sent(f, "string") # {}} |-> at(key, "string")],
             IF sent("activity", "object") = {} THEN Nothing
             ELSE [activity |-> Get(at("activity", "object"), "name", "string")])

\* A NotifyClientConnectionEvent inside GetTRMConnectionEvents; the decoder
\* reads the keys and leaves the event as it was constructed.
NoEvent == [eventName |-> "", clientIP |-> "", timeStamp |-> 0]
EncodeEvent(e) ==
    JObject([eventName |-> JString(e.eventName), clientIP |-> JString(e.clientIP),
             timeStamp |-> JInteger(e.timeStamp)])
DecodeEvent(j) == NoEvent

-----------------------------------------------------------------------------
(* Values of members by type.                                              *)

Map(Op(_), f) == [k \in DOMAIN f |-> Op(f[k])]

EncodeAs(type, v) ==
    CASE type \in {"String", "Flag"} -> JString(v)
      [] type = "Bool" -> JString(IF v THEN "true" ELSE "false")
      [] type = "Integer" -> JInteger(v)
      [] type = "Reservation" -> JObject(EncodeReservation(v))
      [] type = "Reservations" ->
             JArray(Map(LAMBDA r : JObject(EncodeReservation(r)), v))
      [] type = "AllReservations" ->
             JObject(Map(LAMBDA q : JArray(Map(LAMBDA r : JObject(EncodeReservation(r)), q)), v))
      [] type = "Strings" -> JArray(Map(JString, v))
      [] type = "States" -> JObject(Map(JString, v))
      [] type = "Details" -> JObject(Map(LAMBDA s : JObject(EncodeState(s)), v))
      [] type = "Filters" -> EncodeFilters(v)
      [] type = "Events" -> JArray(Map(EncodeEvent, v))

\* A tuner is added to allReservations with its first reservation
\* (addTunerReservation): one whose list is empty is not there afterwards.
DecodeAs(type, j) ==
    LET string(e) == e.value
        reservation(e) == DecodeReservation(e.value)
        emptyLists == {t \in DOMAIN j.value : DOMAIN j.value[t].value = {}}
    IN  CASE type \in {"String", "Flag", "Integer"} -> j.value
          [] type = "Bool" -> j.value = "true"
          [] type = "Reservation" -> reservation(j)
          [] type = "Reservations" -> Map(reservation, j.value)
          [] type = "AllReservations" ->
                 Map(LAMBDA q : Map(reservation, q.value), Without(j.value, emptyLists))
          [] type \in {"Strings", "States"} -> Map(string, j.value)
          [] type = "Details" -> Map(LAMBDA e : DecodeState(e.value), j.value)
          [] type = "Filters" -> DecodeFilters(j.value)
          [] type = "Events" -> Map(DecodeEvent, j.value)

\* What stands for a member whose key is missing.
DefaultOf(type) ==
    CASE type = "String" -> ""
      [] type = "Flag" -> "false"
      [] type = "Bool" -> FALSE
      [] type = "Integer" -> 0
      [] type = "Reservation" -> NoReservation
      [] OTHER -> Nothing

\* What JsonEncode leaves out of the object when it is empty.
Empty(type, v) ==
    IF type = "Reservation" THEN v.reservationToken = "" ELSE v = DefaultOf(type)

ASSUME TextAssumption == {"", "None", "none"} \subseteq Text /\ NULL \notin Text

\* What a member of each type can be: strings are never NULL, maps and lists
\* have entries of one type, and a tuner has owners only with a channel.
Activity == [name : Text, details : Text]
TunerReservation ==
    [reservationToken : Text, device : Text, serviceLocator : Text, startTime : Nat,
     duration : Nat, activity : Activity, customAttributes : Text]

IsMap(f, S) == f \in [DOMAIN f -> S]

IsState(s) ==
    /\ s \in [state : Text, serviceLocator : Text, owners : {s.owners}, reservedDeviceId : Text]
    /\ IsMap(s.owners, Text)
    /\ s.serviceLocator = "" => s.owners = Nothing

Fits(type, v) ==
    CASE type \in {"String", "Flag"} -> v \in Text
      [] type = "Bool" -> v \in BOOLEAN
      [] type = "Integer" -> v \in Nat
      [] type = "Reservation" -> v \in TunerReservation
      [] type = "Reservations" -> IsMap(v, TunerReservation)
      [] type = "AllReservations" ->
             IsMap(v, {v[t] : t \in DOMAIN v}) /\ \A t \in DOMAIN v : IsMap(v[t], TunerReservation)
      [] type \in {"Strings", "States"} -> IsMap(v, Text)
      [] type = "Details" -> IsMap(v, {v[t] : t \in DOMAIN v}) /\ \A t \in DOMAIN v : IsState(v[t])
      [] type = "Filters" -> IsMap(v, Text) /\ DOMAIN v \subseteq {"device", "activity", "state"}
      [] type = "Events" -> IsMap(v, {v[i] : i \in DOMAIN v})

Types ==
    {"String", "Flag", "Bool", "Integer", "Reservation", "Reservations", "AllReservations",
     "Strings", "States", "Details", "Filters", "Events"}

ASSUME ValuesAssumption == \A type \in Types : \A v \in Values(type) : Fits(type, v)

-----------------------------------------------------------------------------
(* The messages: their members, which of them are left out when empty,     *)
(* without which keys the reader throws (required) or processes a message  *)
(* as constructed (untouched), and which are not written or not read.      *)

Format(members, omitted, required) ==
    [members |-> members, omitted |-> omitted, required |-> required,
     untouched |-> {}, unwritten |-> {}, unread |-> {}]

\* A format with more members, always written.
Extend(format, members, required) ==
    [format EXCEPT !.members = Join(members, @), !.required = required \cup @]

SimpleTRMRequest ==
    Format([requestId |-> "String", device |-> "String", reservationToken |-> "String"],
           {"device", "reservationToken"}, {"requestId"})

SimpleTRMResponse ==
    Format([requestId |-> "String", status |-> "String", statusMessage |-> "String",
            reservationToken |-> "String"],
           {"statusMessage", "reservationToken"}, {"requestId", "status"})

ReserveTuner ==
    [Format([requestId |-> "String", device |-> "String",
             tunerReservation |-> "Reservation", resurrect |-> "Flag"],
            {}, {"requestId", "tunerReservation"}) EXCEPT !.untouched = {"device"}]

ReserveTunerResponse ==
    Format([requestId |-> "String", status |-> "String", statusMessage |-> "String",
            tunerReservation |-> "Reservation", conflicts |-> "Reservations"],
           {"tunerReservation", "conflicts"}, {"requestId", "status", "statusMessage"})

\* Variant: "released" is written only when it is true.
ReleasedOnlyIfTrue ==
    [Extend(SimpleTRMResponse, [released |-> "Bool"], {"released"})
        EXCEPT !.omitted = @ \cup {"released"}]

ReleaseTunerReservationResponse ==
    Extend(SimpleTRMResponse, [released |-> "Bool"], {"released"})

ValidateTunerReservationResponse ==
    Extend(SimpleTRMResponse, [valid |-> "Bool"], {"valid"})

CancelRecordingResponse ==
    Extend(SimpleTRMResponse, [cancelled |-> "Bool"], {})

CancelLive ==
    Extend(SimpleTRMRequest, [serviceLocator |-> "String"], {"serviceLocator"})

CancelLiveResponse ==
    [Extend(SimpleTRMResponse, [cancelled |-> "Bool", serviceLocator |-> "String"], {})
        EXCEPT !.unwritten = {"serviceLocator"}]

GetAllTunerIdsResponse ==
    Extend(SimpleTRMResponse, [tunerIds |-> "Strings"], {})

GetAllTunerStatesResponse ==
    Extend(SimpleTRMResponse, [allStates |-> "States", detailedStates |-> "Details"], {})

GetAllReservations ==
    Extend(SimpleTRMRequest, [filters |-> "Filters"], {})

GetAllReservationsResponse ==
    Extend(SimpleTRMResponse, [allReservations |-> "AllReservations"], {})

GetVersionResponse ==
    Extend(SimpleTRMResponse, [version |-> "String"], {"version"})

UpdateTunerActivityStatus ==
    Format([requestId |-> "String", device |-> "String", tunerActivityStatus |-> "String",
            lastActivityTimeStamp |-> "String", lastActivityAction |-> "String"],
           {}, {"requestId", "device", "tunerActivityStatus"})

UpdateTunerActivityStatusResponse ==
    Format([requestId |-> "String", status |-> "String", statusMessage |-> "String"],
           {"statusMessage"}, {})

NotifyTunerReservationRelease ==
    Format([requestId |-> "String", reservationToken |-> "String", reason |-> "String"],
           {}, {"requestId", "reservationToken", "reason"})

NotifyTunerReservationUpdate ==
    [Format([requestId |-> "String", tunerReservation |-> "Reservation"],
            {}, {"requestId"}) EXCEPT !.untouched = {"tunerReservation"}]

NotifyTunerReservationConflicts ==
    [Format([requestId |-> "String", tunerReservation |-> "Reservation",
             conflicts |-> "Reservations"],
            {"conflicts"}, {"requestId"}) EXCEPT !.untouched = {"tunerReservation"}]

NotifyTunerStatesUpdate ==
    [Format([requestId |-> "String", detailedStates |-> "Details"], {}, {})
        EXCEPT !.unread = {"requestId"}]

NotifyTunerPretune ==
    Format([requestId |-> "String", serviceLocator |-> "String"],
           {}, {"requestId", "serviceLocator"})

NotifyClientConnectionEvent ==
    [Format([requestId |-> "String", eventName |-> "String", clientIP |-> "String",
             timeStamp |-> "Integer"], {}, {"eventName", "clientIP"})
        EXCEPT !.unwritten = {"requestId"}]

GetTRMConnectionEvents ==
    Extend(SimpleTRMResponse, [connectionEvents |-> "Events"], {})

GetAllConnectedDeviceIdsResponse ==
    Extend(SimpleTRMResponse, [DeviceIds |-> "Strings"], {})

\* All the messages there are JsonEncode functions for.
Formats ==
    [ReserveTuner |-> ReserveTuner, ReserveTunerResponse |-> ReserveTunerResponse,
     ReleaseTunerReservation |-> SimpleTRMRequest,
     ReleaseTunerReservationResponse |-> ReleaseTunerReservationResponse,
     ValidateTunerReservation |-> SimpleTRMRequest,
     ValidateTunerReservationResponse |-> ValidateTunerReservationResponse,
     CancelRecording |-> SimpleTRMRequest,
     CancelRecordingResponse |-> CancelRecordingResponse,
     CancelLive |-> CancelLive, CancelLiveResponse |-> CancelLiveResponse,
     GetAllTunerIds |-> SimpleTRMRequest,
     GetAllTunerIdsResponse |-> GetAllTunerIdsResponse,
     GetAllTunerStates |-> SimpleTRMRequest,
     GetAllTunerStatesResponse |-> GetAllTunerStatesResponse,
     GetAllReservations |-> GetAllReservations,
     GetAllReservationsResponse |-> GetAllReservationsResponse,
     GetAllConnectedDeviceIdsResponse |-> GetAllConnectedDeviceIdsResponse,
     GetVersion |-> SimpleTRMRequest, GetVersionResponse |-> GetVersionResponse,
     NotifyTunerReservationUpdate |-> NotifyTunerReservationUpdate,
     NotifyTunerReservationRelease |-> NotifyTunerReservationRelease,
     NotifyTunerReservationConflicts |-> NotifyTunerReservationConflicts,
     NotifyTunerStatesUpdate |-> NotifyTunerStatesUpdate,
     NotifyTunerPretune |-> NotifyTunerPretune,
     NotifyClientConnectionEvent |-> NotifyClientConnectionEvent,
     GetTRMConnectionEvents |-> GetTRMConnectionEvents,
     UpdateTunerActivityStatus |-> UpdateTunerActivityStatus,
     UpdateTunerActivityStatusResponse |-> UpdateTunerActivityStatusResponse]

\* The class names JsonDecoder::decode dispatches.
Dispatched == DOMAIN Formats \ {"UpdateTunerActivityStatusResponse"}

\* A message that has just been constructed.
Constructed(format) ==
    [k \in DOMAIN format.members |->
        IF format.members[k] = "Flag" THEN "" ELSE DefaultOf(format.members[k])]

-----------------------------------------------------------------------------

JsonEncode(format, m) ==
    LET types == format.members
        written == {k \in DOMAIN types \ format.unwritten :
                       k \in format.omitted => ~Empty(types[k], m[k])}
    IN  [k \in written |-> EncodeAs(types[k], m[k])]

\* The detailed states are read after allStates, each with addTunerState,
\* which sets the state of the tuner in allStates as well.
StatesOf(details) == Map(LAMBDA s : s.state, details)
addTunerStates(m) ==
    [k \in DOMAIN m |-> IF k = "allStates" THEN Join(StatesOf(m.detailedStates), m[k])
                        ELSE m[k]]

JsonDecode(format, o) ==
    LET types == format.members
        read == DOMAIN o \ format.unread
        member(k) == IF k \in read THEN DecodeAs(types[k], o[k]) ELSE DefaultOf(types[k])
    IN  IF format.untouched \subseteq DOMAIN o
        THEN addTunerStates([k \in DOMAIN types |-> member(k)])
        ELSE Constructed(format)

CodecInit ==
    /\ stage = "composed"
    /\ klass \in DOMAIN Formats
    /\ message = Constructed(Formats[klass])
    /\ json = Nothing
    /\ leftOut = {}
    /\ outcome = "message"
    /\ received = Constructed(Formats[klass])

\* The sender sets a member of its message.  No response has a reservation
\* without a token, apart from one that grants nothing.
Compose(k, v) ==
    /\ stage = "composed"
    /\ klass = "ReserveTunerResponse" /\ k = "tunerReservation" =>
           v.reservationToken # "" \/ v = NoReservation
    /\ message' = [message EXCEPT ![k] = v]
    /\ UNCHANGED <<stage, klass, json, leftOut, outcome, received>>

\* SerializeMessage: the sender writes the message.
Write ==
    /\ stage = "composed"
    /\ stage' = "written"
    /\ json' = JsonEncode(Formats[klass], message)
    /\ UNCHANGED <<klass, message, leftOut, outcome, received>>

\* Another client leaves out what the format calls optional in a request.
WriteLess(keys) ==
    /\ stage = "composed" /\ klass = "ReserveTuner"
    /\ stage' = "written"
    /\ LET o == JsonEncode(ReserveTuner, message)
           r == o.tunerReservation.value
       IN  json' = [o EXCEPT !.tunerReservation =
                        JObject(Without(r, keys))]
    /\ leftOut' = keys
    /\ UNCHANGED <<klass, message, outcome, received>>

\* JsonDecoder::decode: a class that is not dispatched is ignored, a missing
\* key throws, and otherwise the message is handed to the processor.
Read ==
    /\ stage = "written"
    /\ stage' = "read"
    /\ outcome' = IF klass \notin Dispatched THEN "ignored"
                  ELSE IF Formats[klass].required \subseteq DOMAIN json THEN "message"
                  ELSE "refused"
    /\ received' = IF outcome' = "message" THEN JsonDecode(Formats[klass], json)
                   ELSE received
    /\ UNCHANGED <<klass, message, json, leftOut>>

OptionalKeys == {"reservationToken", "startTime", "duration", "customAttributes"}

CodecNext ==
    \/ \E k \in DOMAIN message : \E v \in Values(Formats[klass].members[k]) : Compose(k, v)
    \/ Write
    \/ \E keys \in (SUBSET OptionalKeys) \ {{}} : WriteLess(keys)
    \/ Read

CodecSpec == CodecInit /\ [][CodecNext]_vars

-----------------------------------------------------------------------------
(* Properties.                                                             *)

\* What does not survive: the id of two notifications that nobody matches
\* to a request, and the channel of a CancelLiveResponse.
Lost ==
    {<<"NotifyTunerStatesUpdate", "requestId">>,
     <<"NotifyClientConnectionEvent", "requestId">>,
     <<"CancelLiveResponse", "serviceLocator">>}

\* Every message that JsonEncode writes is accepted by JsonDecode, whatever
\* its members are: no key is left out that the reader insists on.  It is the
\* same afterwards but for the members in Lost, the activity in a filter of
\* GetAllReservations, the tuners without reservation in the answer to it,
\* and the contents of the events of GetTRMConnectionEvents.  In the answer
\* to GetAllTunerStates the detailed states win over allStates where they
\* differ.  Only UpdateTunerActivityStatusResponse has no reader.
NothingElseLost ==
    stage = "read" /\ leftOut = {} =>
        /\ outcome = IF klass = "UpdateTunerActivityStatusResponse" THEN "ignored"
                     ELSE "message"
        /\ outcome = "message" =>
               \A k \in DOMAIN message :
                   received[k] =
                       CASE <<klass, k>> \in Lost -> DefaultOf(Formats[klass].members[k])
                         [] k = "filters" -> Without(message[k], {"activity"})
                         [] k = "connectionEvents" -> [e \in DOMAIN message[k] |-> NoEvent]
                         [] k = "allReservations" ->
                                Without(message[k], {t \in DOMAIN message[k] : DOMAIN message[k][t] = {}})
                         [] k = "allStates" ->
                                Join(StatesOf(message.detailedStates), message[k])
                         [] OTHER -> message[k]

\* A request without the optional keys is a reservation that starts now and,
\* for a Live without duration, does not end: the end is later than any time
\* the clock or a request so far can show, and still fits a signed 64-bit
\* integer, which the timers use.
OpenEndedLiveFits ==
    LET r == received.tunerReservation
    IN  stage = "read" /\ klass = "ReserveTuner" /\ "duration" \in leftOut =>
            /\ "startTime" \in leftOut => r.startTime = Now
            /\ r.activity.name = "Live" /\ r.startTime <= 2 * Now =>
                   r.startTime + r.duration \in MaxInt64 - 2 * Now .. MaxInt64

=============================================================================
