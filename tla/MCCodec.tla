------------------------------- MODULE MCCodec -------------------------------
(***************************************************************************)
(* Every class of message with small values for its members: each string,  *)
(* list and map empty or not, reservations with and without token, details *)
(* and custom attributes, Live and Record.  A tuner has owners only        *)
(* together with a channel.                                                *)
(***************************************************************************)
EXTENDS Codec

MCText == STRING \ {NULL}

MCReservations ==
    {NoReservation} \cup
    [reservationToken : {"", "t"}, device : {"d"}, serviceLocator : {"s"},
     startTime : {1, 6}, duration : {5},
     activity : [name : {"Live", "Record"}, details : {"", "x"}],
     customAttributes : {"none", "c"}]

MCGranted == {r \in MCReservations : r.reservationToken # "" /\ r.startTime = 1}

MCDetails ==
    {[state |-> "Free", serviceLocator |-> "", owners |-> <<>>, reservedDeviceId |-> i] :
        i \in {"", "d"}}
    \cup {[state |-> "Live", serviceLocator |-> "s", owners |-> [Live |-> "d"],
           reservedDeviceId |-> i] : i \in {"", "d"}}

MCValues(type) ==
    CASE type = "String" -> {"", "x"}
      [] type = "Flag" -> {"true", "false"}
      [] type = "Bool" -> BOOLEAN
      [] type = "Integer" -> {0, 7}
      [] type = "Reservation" -> MCReservations
      [] type = "Reservations" ->
             {<<>>} \cup {<<r>> : r \in MCGranted} \cup {<<r, r>> : r \in MCGranted}
      [] type = "AllReservations" ->
             {<<>>} \cup {[t1 |-> <<r>>, t2 |-> q] : r \in MCGranted, q \in {<<>>, <<NoReservation>>}}
      [] type = "Strings" -> {<<>>, <<"a">>, <<"a", "b">>}
      [] type = "States" -> {<<>>, [t1 |-> "Free", t2 |-> "Live"], [t3 |-> "Record"]}
      [] type = "Details" -> {<<>>} \cup [{"t1", "t2"} -> MCDetails]
      [] type = "Filters" -> UNION {[ks -> {"v"}] : ks \in SUBSET {"device", "activity", "state"}}
      [] type = "Events" -> {<<>>, <<[eventName |-> "e", clientIP |-> "i", timeStamp |-> 3]>>}

=============================================================================
