---------------------------- MODULE ProxyProofs ----------------------------
(***************************************************************************)
(* The safety invariants of Proxy.tla, proved for any set of addresses,    *)
(* any number of clients, links and replies and any ping limit: what the   *)
(* steps of its two threads do to sockets, events and the listener, and    *)
(* that they keep the inductive invariant.                                 *)
(***************************************************************************)
EXTENDS Proxy, WellFoundedInduction, TLAPS

----------------------------------------------------------------------------
(* The walk over the map.                                                  *)

\* A set of addresses has a first element, which is where a walk begins.
LEMMA MinIsFirst ==
    ASSUME NEW S, S \subseteq Nat, S # {}
    PROVE  Min(S) \in S /\ \A x \in S : Min(S) <= x
<1>. DEFINE lt == OpToRel(<, Nat)
<1>1. \A x, y \in Nat : <<y, x>> \in lt <=> y < x
    BY DEF OpToRel
<1>2. IsWellFoundedOn(lt, Nat)
    BY NatLessThanWellFounded, Zenon
<1>. HIDE DEF lt
<1>3. PICK m \in S : \A x \in S : ~(<<x, m>> \in lt)
    BY <1>2, WFMin, Zenon
<1>4. ASSUME NEW x \in S
      PROVE  m <= x
    <2>1. x \in Nat /\ m \in Nat
        OBVIOUS
    <2>2. ~(x < m)
        BY <1>1, <1>3, <2>1, Zenon
    <2>. QED  BY <2>1, <2>2
<1>. QED  BY <1>4, Zenon DEF Min

\* The walk begins at the first entry of the map.
LEMMA BeginIsFirst ==
    /\ Begin \in Addrs \cup {End}
    /\ Begin # End => InMap(Begin)
    /\ \A a \in Addrs : InMap(a) => Begin # End /\ Begin <= a
<1>. DEFINE S == {a \in Addrs : InMap(a)}
<1>1. CASE S = {}
    BY <1>1 DEF Begin
<1>2. CASE S # {}
    <2>1. S \subseteq Nat
        BY AddrsAssumption, Zenon
    <2>. HIDE DEF S
    <2>2. Min(S) \in S /\ \A a \in S : Min(S) <= a
        BY <1>2, <2>1, MinIsFirst, Zenon
    <2>3. Begin = Min(S)
        BY <1>2 DEF Begin, S
    <2>. QED  BY <2>2, <2>3, AddrsAssumption DEF S
<1>. QED  BY <1>1, <1>2

\* It goes on to an entry that is in the map; to the next one, if the entry
\* it is at has not been erased.
LEMMA EntryAfterIsNext ==
    ASSUME listener.at \in Addrs, NEW b \in EntryAfter
    PROVE  /\ b \in Addrs \cup {End}
           /\ b # End => InMap(b)
           /\ ~Stale => \A a \in Addrs : InMap(a) /\ a > listener.at => b # End /\ b <= a
<1>. DEFINE S == {c \in Addrs : c > listener.at /\ InMap(c)}
<1>1. CASE Stale
    BY <1>1 DEF EntryAfter, StaleNext
<1>2. CASE ~Stale /\ S = {}
    BY <1>2 DEF EntryAfter, After
<1>3. CASE ~Stale /\ S # {}
    <2>1. S \subseteq Nat
        BY AddrsAssumption, Zenon
    <2>2. b = Min(S)
        BY <1>3 DEF EntryAfter, After
    <2>. HIDE DEF S
    <2>3. Min(S) \in S /\ \A a \in S : Min(S) <= a
        BY <1>3, <2>1, MinIsFirst, Zenon
    <2>. QED  BY <2>2, <2>3, AddrsAssumption DEF S
<1>. QED  BY <1>1, <1>2, <1>3

\* The listener, wherever it is put.
LEMMA ListenerAt ==
    ASSUME connections \in [Addrs -> Ids \cup {0}],
           NEW a \in Addrs \cup {End}, NEW for \in Ids \cup {0},
           NEW pc \in {"read", "lookup", "found", "reset", "sleep", "crashed"}
    PROVE  /\ At(pc, a, for) \in Listener
           /\ At(pc, a, for).pc = pc
           /\ At(pc, a, for).at = a
           /\ At(pc, a, for).for = for
           /\ At(pc, a, for).id = IF a = End THEN 0 ELSE connections[a]
    BY DEF At, Listener

----------------------------------------------------------------------------
(* The inductive invariant.                                                *)

Posted == 1..Len(events)

\* Ids are given once, in ascending order: whatever id is about is not above
\* the last one, and no two sockets have the same.
IdsAreGiven ==
    /\ \A a \in Addrs : socket[a] # NoSocket => socket[a].id <= lastId
    /\ \A i \in known \cup spoken \cup earlier : i <= lastId
    /\ \A n \in 1..Len(replies) : replies[n] <= lastId
    /\ \A n \in Posted : events[n].for <= lastId
    /\ listener.id <= lastId /\ listener.for <= lastId
    /\ \A m \in misdelivered : m[1] <= lastId
    /\ \A a, b \in Addrs : socket[a] # NoSocket /\ socket[b] # NoSocket /\ socket[a].id = socket[b].id => a = b

\* A socket is deleted once, and after it has left the list.
DeletesAreDoomed ==
    /\ \A n \in Posted : events[n].do = "delete" =>
        socket[events[n].to] # NoSocket /\ socket[events[n].to].state = "doomed"
    /\ \A m, n \in Posted :
        events[m].do = "delete" /\ events[n].do = "delete" /\ events[m].to = events[n].to => m = n

\* The listener resets the clients only while there is no link, and what is in
\* the map when there is one again was not used on an earlier one.
LinkIsFresh ==
    /\ listener.pc \in {"reset", "sleep"} => link = "down"
    /\ link # "up" => known = {}
    /\ link = "up" \/ listener.pc = "sleep" => \A a \in Addrs : connections[a] \notin earlier

\* An address found for an id is that of the only socket that may have the id.
RepliesAreAddressed ==
    /\ \A n \in Posted : events[n].do = "write" =>
        /\ events[n].for # 0
        /\ \A b \in Addrs : Listed(b) /\ socket[b].id = events[n].for => b = events[n].to
    /\ listener.at # End =>
        /\ listener.id # 0
        /\ \A b \in Addrs : Listed(b) /\ socket[b].id = listener.id => b = listener.at
    /\ listener.pc = "lookup" => listener.for # 0
    /\ listener.pc = "found" => listener.at # End /\ listener.id = listener.for

ToBeClosed(a) == \E n \in Posted : events[n].do = "close" /\ events[n].to = a

\* While the clients are reset, those the walk has passed are to be closed.
PassedAreClosed ==
    listener.pc = "reset" /\ ~wild =>
        \A a \in Addrs :
            Listed(a) /\ socket[a].state = "open" /\ ~socket[a].late
                /\ (listener.at = End \/ a < listener.at) => ToBeClosed(a)

Inv ==
    /\ ProxyTypeOK
    /\ IdsAreGiven
    /\ DeletesAreDoomed
    /\ EntriesAreSockets
    /\ LinkIsFresh
    /\ NoCarryOver
    /\ ServerForgetsTheGone
    /\ RepliesAreAddressed
    /\ NoReplyStolen
    /\ PassedAreClosed
    /\ MuteIsClosed

----------------------------------------------------------------------------
(* Types.                                                                  *)

LEMMA InitTypes == ProxyInit => ProxyTypeOK
<1>. SUFFICES ASSUME ProxyInit PROVE ProxyTypeOK
    OBVIOUS
<1>1. connections \in [Addrs -> Ids \cup {0}] /\ listener \in Listener
    BY ListenerAt DEF ProxyInit
<1>2. links \in 0..MaxLinks /\ lastId \in 0..MaxClients
    BY BoundsAssumption DEF ProxyInit
<1>3. wild \in BOOLEAN
    BY Zenon DEF ProxyInit
<1>. QED  BY <1>1, <1>2, <1>3 DEF ProxyInit, ProxyTypeOK

\* A socket after a ping that was missed or answered.
LEMMA SocketRetried ==
    ASSUME NEW s \in Socket, NEW n \in 0..PingLimit, NEW st \in {"open", "closing", "doomed"}
    PROVE  [s EXCEPT !.retry = n] \in Socket /\ [s EXCEPT !.retry = n, !.state = st] \in Socket
    BY Zenon DEF Socket

\* A step of the main thread or of a client keeps the types.
LEMMA MainTypes ==
    ASSUME ProxyTypeOK, NEW a \in Addrs,
           \/ onNewConnection(a) \/ onWebsocketMessageReceived(a)
           \/ PeerClose(a) \/ PeerSilent(a) \/ onWebsocketDisconnected(a)
           \/ onTimeout(a) \/ onPong(a)
    PROVE  ProxyTypeOK'
<1>. USE DEF ProxyTypeOK
<1>0. socket[a] # NoSocket => socket[a] \in Socket
    BY SMTT(60)
<1>1. CASE onNewConnection(a)
    <2>1. lastId' \in Ids
        BY <1>1, BoundsAssumption DEF onNewConnection, Ids
    <2>2. socket'[a] \in Socket /\ socket' \in [Addrs -> Socket \cup {NoSocket}]
        BY <1>1, <2>1, BoundsAssumption DEF onNewConnection, Socket
    <2>. QED  BY <1>1, <2>1, <2>2, BoundsAssumption, Z3T(60) DEF onNewConnection, server, Ids
<1>2. CASE onWebsocketMessageReceived(a)
    BY <1>2 DEF onWebsocketMessageReceived, clients, InMap
<1>3. CASE PeerClose(a)
    <2>1. [socket[a] EXCEPT !.state = "closing"] \in Socket
        BY <1>0, <1>3, Zenon DEF PeerClose, Listed, Socket
    <2>. QED  BY <1>3, <2>1 DEF PeerClose, server
<1>4. CASE PeerSilent(a)
    <2>1. [socket[a] EXCEPT !.silent = TRUE] \in Socket
        BY <1>0, <1>4, Zenon DEF PeerSilent, Listed, Socket
    <2>. QED  BY <1>4, <2>1 DEF PeerSilent, server
<1>5. CASE onWebsocketDisconnected(a)
    <2>1. [socket[a] EXCEPT !.state = "doomed"] \in Socket
        BY <1>0, <1>5, Zenon DEF onWebsocketDisconnected, Listed, Socket
    <2>2. socket' \in [Addrs -> Socket \cup {NoSocket}]
        BY <1>5, <2>1 DEF onWebsocketDisconnected
    <2>3. events' \in Seq(Event)
        BY <1>5 DEF onWebsocketDisconnected, Post, Event
    <2>4. Forgotten(a) \subseteq Ids
        BY DEF Forgotten, InMap
    <2>. QED  BY <1>5, <2>2, <2>3, <2>4 DEF onWebsocketDisconnected, remove_connection
<1>6. CASE onTimeout(a)
    <2>1. socket[a] \in Socket /\ socket[a].retry < PingLimit
        BY <1>0, <1>6 DEF onTimeout, MayTimeOut, Listed
    <2>2. AfterTimeouts(a, socket[a].retry + 1) \in {"open", "closing", "doomed"}
        BY <2>1 DEF AfterTimeouts, Socket
    <2>3. [socket[a] EXCEPT !.retry = @ + 1, !.state = AfterTimeouts(a, socket[a].retry + 1)] \in Socket
        <3>1. socket[a].retry \in 0..PingLimit
            BY <2>1 DEF Socket
        <3>2. socket[a].retry + 1 \in 0..PingLimit
            BY <2>1, <3>1, BoundsAssumption, SMTT(60)
        <3>. QED  BY <2>1, <2>2, <3>2, SocketRetried, Zenon
    <2>. QED  BY <1>6, <2>3 DEF onTimeout, server
<1>7. CASE onPong(a)
    <2>1. [socket[a] EXCEPT !.retry = 0] \in Socket
        <3>1. 0 \in 0..PingLimit
            BY BoundsAssumption, SMTT(60)
        <3>. QED  BY <1>0, <1>7, <3>1, SocketRetried, Zenon DEF onPong, Listed
    <2>. QED  BY <1>7, <2>1 DEF onPong, server
<1>. QED  BY <1>1, <1>2, <1>3, <1>4, <1>5, <1>6, <1>7, Zenon

\* An event that is handled keeps the types.
LEMMA EventTypes ==
    ASSUME ProxyTypeOK, RepliesAreAddressed, MainEvent
    PROVE  ProxyTypeOK'
<1>. DEFINE e == Head(events)
<1>. USE DEF ProxyTypeOK
<1>1. e \in Event /\ e = events[1] /\ 1 \in Posted /\ events' \in Seq(Event)
    BY DEF MainEvent, Posted
<1>. HIDE DEF e
<1>2. CASE onWebsocketHasDataToWrite(e)
    <2>1. Listed(e.to) => socket[e.to] \in Socket /\ socket[e.to].id \in Ids
        BY <1>1, SMTT(60) DEF Listed, Event, Socket
    <2>2. e.for \in Ids
        BY <1>1, <1>2 DEF onWebsocketHasDataToWrite, RepliesAreAddressed, Event
    <2>3. misdelivered' \subseteq Ids \X Ids
        BY <1>2, <2>1, <2>2, SMTT(60) DEF onWebsocketHasDataToWrite
    <2>. QED  BY <1>1, <1>2, <2>3, Zenon DEF MainEvent, onWebsocketHasDataToWrite, server
<1>3. CASE onRemoveConnection(e)
    <2>1. Listed(e.to) => [socket[e.to] EXCEPT !.state = "closing"] \in Socket
        BY <1>1, SMTT(60) DEF Listed, Event, Socket
    <2>. QED  BY <1>1, <1>3, <2>1, SMTT(60) DEF MainEvent, onRemoveConnection, server, Event
<1>4. CASE DeferredDelete(e)
    BY <1>1, <1>4 DEF MainEvent, DeferredDelete, server, Event
<1>. QED  BY <1>2, <1>3, <1>4, Z3T(60) DEF MainEvent, e

\* So does a step of the server.
LEMMA ServerTypes ==
    ASSUME ProxyTypeOK, LinkLost \/ \E i \in Ids : Reply(i)
    PROVE  ProxyTypeOK'
<1>1. CASE LinkLost
    <2>1. replies' \in Seq(Ids)
        <3>1. CASE replies' = replies
            BY <3>1 DEF ProxyTypeOK
        <3>2. CASE replies' = <<>>
            BY <3>2
        <3>. QED  BY <1>1, <3>1, <3>2 DEF LinkLost
    <2>2. spoken \cup earlier \subseteq Ids
        BY DEF ProxyTypeOK
    <2>. QED  BY <1>1, <2>1, <2>2 DEF ProxyTypeOK, LinkLost, clients
<1>2. ASSUME NEW i \in Ids, Reply(i)
      PROVE  ProxyTypeOK'
    BY <1>2, Z3T(60) DEF ProxyTypeOK, Reply, clients
<1>. QED  BY <1>1, <1>2

\* So does a step of the listener.
LEMMA ListenerTypes ==
    ASSUME ProxyTypeOK, RepliesAreAddressed, ListenerStep \/ Reconnect \/ ReconnectFails
    PROVE  ProxyTypeOK'
<1>. USE DEF ProxyTypeOK, clients, server
<1>0. listener.at \in Addrs \cup {End} /\ listener.for \in Ids \cup {0} /\ 0 \in Ids \cup {0}
    BY DEF Listener
<1>1. CASE ReadFrame
    <2>1. Head(replies) \in Ids /\ Tail(replies) \in Seq(Ids)
        BY <1>1 DEF ReadFrame
    <2>2. listener' \in Listener
        BY <1>1, <2>1, BeginIsFirst, ListenerAt, Zenon DEF ReadFrame
    <2>. QED  BY <1>1, <2>1, <2>2 DEF ReadFrame
<1>2. CASE LookupEnds
    <2>1. listener' \in Listener
        BY <1>0, <1>2, ListenerAt, ZenonT(60) DEF LookupEnds
    <2>. QED  BY <1>2, <2>1 DEF LookupEnds
<1>3. CASE LookupFinds
    <2>1. listener' \in Listener
        BY <1>3, Z3T(60) DEF LookupFinds, Listener
    <2>2. wild' \in BOOLEAN
        BY <1>3, Zenon DEF LookupFinds
    <2>. QED  BY <1>3, <2>1, <2>2 DEF LookupFinds
<1>4. CASE LookupGoesOn
    <2>1. PICK b \in EntryAfter : listener' = At("lookup", b, listener.for)
        BY <1>4 DEF LookupGoesOn
    <2>2. listener' \in Listener
        BY <1>0, <1>4, <2>1, EntryAfterIsNext, ListenerAt, Zenon DEF LookupGoesOn
    <2>3. wild' \in BOOLEAN
        BY <1>4, Zenon DEF LookupGoesOn
    <2>. QED  BY <1>4, <2>2, <2>3 DEF LookupGoesOn
<1>5. CASE mg_websocket_write
    <2>1. listener' \in Listener
        BY <1>0, <1>5, ListenerAt, Zenon DEF mg_websocket_write
    <2>2. events' \in Seq(Event)
        BY <1>0, <1>5 DEF mg_websocket_write, Post, Event, RepliesAreAddressed
    <2>. QED  BY <1>5, <2>1, <2>2 DEF mg_websocket_write
<1>6. CASE ConnectionClosed
    <2>1. listener' \in Listener
        BY <1>0, <1>6, BeginIsFirst, ListenerAt, Zenon DEF ConnectionClosed
    <2>. QED  BY <1>6, <2>1 DEF ConnectionClosed
<1>7. CASE CloseNext
    <2>1. PICK b \in EntryAfter : listener' = At("reset", b, 0)
        BY <1>7 DEF CloseNext
    <2>2. listener' \in Listener
        BY <1>0, <1>7, <2>1, EntryAfterIsNext, ListenerAt, Zenon DEF CloseNext
    <2>3. wild' \in BOOLEAN
        BY <1>7, Zenon DEF CloseNext
    <2>4. events' \in Seq(Event)
        BY <1>0, <1>7 DEF CloseNext, Post, Event
    <2>. QED  BY <1>7, <2>2, <2>3, <2>4 DEF CloseNext
<1>8. CASE ClearAll
    <2>1. listener' \in Listener
        BY <1>8, Zenon DEF ClearAll, Listener
    <2>. QED  BY <1>8, <2>1 DEF ClearAll, Cleared
<1>9. CASE Crash
    <2>1. listener' \in Listener
        BY <1>0, <1>9, ListenerAt, Zenon DEF Crash
    <2>2. wild' \in BOOLEAN
        BY <1>9 DEF Crash
    <2>. QED  BY <1>9, <2>1, <2>2 DEF Crash
<1>10. CASE Reconnect
    <2>1. listener' \in Listener
        BY <1>10, Z3T(60) DEF Reconnect, Listener
    <2>2. links' \in 0..MaxLinks
        BY <1>10, BoundsAssumption DEF Reconnect
    <2>. QED  BY <1>10, <2>1, <2>2, Zenon DEF Reconnect
<1>11. CASE ReconnectFails
    <2>1. listener' \in Listener
        BY <1>0, <1>11, BeginIsFirst, ListenerAt, Zenon DEF ReconnectFails
    <2>. QED  BY <1>11, <2>1 DEF ReconnectFails
<1>. QED  BY <1>1, <1>2, <1>3, <1>4, <1>5, <1>6, <1>7, <1>8, <1>9, <1>10, <1>11, ZenonT(60) DEF ListenerStep, id_to_conn

LEMMA NextTypes ==
    ASSUME ProxyTypeOK, RepliesAreAddressed, [ProxyNext]_vars
    PROVE  ProxyTypeOK'
<1>1. CASE UNCHANGED vars
    BY <1>1 DEF vars, clients, server, ProxyTypeOK
<1>. QED  BY <1>1, MainTypes, EventTypes, ServerTypes, ListenerTypes, SMTT(60) DEF ProxyNext

----------------------------------------------------------------------------
(* What the actions do to sockets and events.                              *)

\* A socket is the same but for its state, its retries and its silence: it
\* does not leave the list and does not come open.
Same(b) ==
    /\ socket'[b] = NoSocket <=> socket[b] = NoSocket
    /\ socket[b] # NoSocket => socket'[b].id = socket[b].id /\ socket'[b].late = socket[b].late
    /\ Listed(b)' <=> Listed(b)
    /\ Listed(b) /\ socket'[b].state = "open" => socket[b].state = "open"

Touched(a) == PeerClose(a) \/ PeerSilent(a) \/ onTimeout(a) \/ onPong(a)

LEMMA ReplacedIsSame ==
    ASSUME ProxyTypeOK, NEW a \in Addrs, Listed(a), NEW s \in Socket,
           s.id = socket[a].id, s.late = socket[a].late,
           s.state \in {socket[a].state, "closing"},
           socket' = [socket EXCEPT ![a] = s]
    PROVE  \A b \in Addrs : Same(b)
    BY NoSocketAssumption DEF ProxyTypeOK, Same, Listed

LEMMA TouchedIsSame ==
    ASSUME ProxyTypeOK, NEW a \in Addrs, Touched(a)
    PROVE  /\ \A b \in Addrs : Same(b)
           /\ UNCHANGED <<connections, lastId, events, server, listener, wild, misdelivered>>
<1>0. Listed(a) /\ socket[a] \in Socket
    BY DEF Touched, PeerClose, PeerSilent, onTimeout, MayTimeOut, onPong, Listed, ProxyTypeOK
<1>1. CASE PeerClose(a)
    <2>. DEFINE s == [socket[a] EXCEPT !.state = "closing"]
    <2>1. s \in Socket /\ s.id = socket[a].id /\ s.late = socket[a].late /\ s.state = "closing"
        BY <1>0 DEF Socket
    <2>2. socket' = [socket EXCEPT ![a] = s]
        BY <1>1 DEF PeerClose
    <2>. HIDE DEF s
    <2>3. \A b \in Addrs : Same(b)
        BY <1>0, <2>1, <2>2, ReplacedIsSame, Zenon
    <2>. QED  BY <1>1, <2>3 DEF PeerClose
<1>2. CASE PeerSilent(a)
    <2>. DEFINE s == [socket[a] EXCEPT !.silent = TRUE]
    <2>1. s \in Socket /\ s.id = socket[a].id /\ s.late = socket[a].late /\ s.state = socket[a].state
        BY <1>0, Zenon DEF Socket
    <2>2. socket' = [socket EXCEPT ![a] = s]
        BY <1>2 DEF PeerSilent
    <2>. HIDE DEF s
    <2>3. \A b \in Addrs : Same(b)
        BY <1>0, <2>1, <2>2, ReplacedIsSame, Zenon
    <2>. QED  BY <1>2, <2>3 DEF PeerSilent
<1>3. CASE onTimeout(a)
    <2>. DEFINE n == socket[a].retry + 1
                st == AfterTimeouts(a, n)
                s == [socket[a] EXCEPT !.retry = n, !.state = st]
    <2>1. n \in 0..PingLimit
        <3>1. socket[a].retry \in 0..PingLimit /\ socket[a].retry < PingLimit
            BY <1>0, <1>3 DEF onTimeout, MayTimeOut, Socket
        <3>. QED  BY <3>1, BoundsAssumption
    <2>2. st \in {socket[a].state, "closing"}
        BY DEF AfterTimeouts
    <2>3. socket' = [socket EXCEPT ![a] = s]
        BY <1>3, Zenon DEF onTimeout
    <2>. HIDE DEF n, st
    <2>4. s \in Socket /\ s.id = socket[a].id /\ s.late = socket[a].late /\ s.state = st
        <3>1. st \in {"open", "closing", "doomed"}
            BY <1>0, <2>2 DEF Socket
        <3>2. s \in Socket
            BY <1>0, <2>1, <3>1, SocketRetried, Zenon
        <3>. QED  BY <1>0, <3>2 DEF Socket
    <2>. HIDE DEF s
    <2>5. \A b \in Addrs : Same(b)
        BY <1>0, <2>2, <2>3, <2>4, ReplacedIsSame, Zenon
    <2>. QED  BY <1>3, <2>5 DEF onTimeout
<1>4. CASE onPong(a)
    <2>. DEFINE s == [socket[a] EXCEPT !.retry = 0]
    <2>1. s \in Socket
        <3>1. 0 \in 0..PingLimit
            BY BoundsAssumption
        <3>. QED  BY <1>0, <3>1, SocketRetried, Zenon
    <2>2. s.id = socket[a].id /\ s.late = socket[a].late /\ s.state = socket[a].state
        BY <1>0 DEF Socket
    <2>3. socket' = [socket EXCEPT ![a] = s]
        BY <1>4 DEF onPong
    <2>. HIDE DEF s
    <2>4. \A b \in Addrs : Same(b)
        BY <1>0, <2>1, <2>2, <2>3, ReplacedIsSame, Zenon
    <2>. QED  BY <1>4, <2>4 DEF onPong
<1>. QED  BY <1>1, <1>2, <1>3, <1>4, Zenon DEF Touched

LEMMA EventsTyped ==
    ASSUME ProxyTypeOK
    PROVE  \A n \in Posted : /\ events[n] \in Event
                             /\ events[n].to \in Addrs
                             /\ events[n].for \in Ids \cup {0}
                             /\ events[n].do \in {"write", "close", "delete"}
<1>. SUFFICES ASSUME NEW n \in Posted
              PROVE  events[n] \in Event
    BY DEF Event
<1>. QED  BY DEF ProxyTypeOK, Posted

\* The events that are left when the first one is handled.
LEMMA EventsLeft ==
    ASSUME ProxyTypeOK, MainEvent
    PROVE  /\ Head(events) = events[1] /\ events[1] \in Event /\ 1 \in Posted
           /\ Len(events') = Len(events) - 1
           /\ \A n \in Posted' : n + 1 \in Posted /\ events'[n] = events[n + 1]
           /\ \A n \in Posted : n # 1 => n - 1 \in Posted' /\ events'[n - 1] = events[n]
    BY DEF ProxyTypeOK, MainEvent, Posted

\* The events that are there when another one is posted.
LEMMA EventPosted ==
    ASSUME ProxyTypeOK, NEW e \in Event, Post(e)
    PROVE  /\ Posted' = Posted \cup {Len(events) + 1}
           /\ \A n \in Posted : events'[n] = events[n] /\ n # Len(events) + 1
           /\ events'[Len(events) + 1] = e
    BY DEF ProxyTypeOK, Post, Posted

\* A new client: a socket at a free address, with the next id.
LEMMA NewSocket ==
    ASSUME ProxyTypeOK, EntriesAreSockets, NEW a \in Addrs, onNewConnection(a)
    PROVE  /\ socket[a] = NoSocket /\ connections[a] = 0
           /\ socket'[a] # NoSocket /\ socket'[a].id = lastId + 1 /\ socket'[a].state = "open"
           /\ listener.pc = "reset" => socket'[a].late
           /\ connections'[a] = lastId + 1
           /\ \A b \in Addrs \ {a} : socket'[b] = socket[b] /\ connections'[b] = connections[b]
           /\ lastId' = lastId + 1
           /\ UNCHANGED <<events, server, listener, wild, misdelivered>>
<1>. DEFINE s == [id |-> lastId', state |-> "open", silent |-> FALSE, retry |-> 0,
                  late |-> listener.pc = "reset"]
<1>1. socket[a] = NoSocket /\ lastId' = lastId + 1 /\ socket' = [socket EXCEPT ![a] = s]
    BY DEF onNewConnection
<1>2. connections[a] = 0
    BY <1>1 DEF EntriesAreSockets, InMap, Listed
<1>3. s \in Socket
    <2>1. lastId' \in Ids
        BY BoundsAssumption DEF onNewConnection, ProxyTypeOK, Ids
    <2>2. 0 \in 0..PingLimit
        BY BoundsAssumption, SMTT(60)
    <2>. QED  BY <2>1, <2>2, Zenon DEF Socket
<1>4. socket'[a] = s /\ \A b \in Addrs \ {a} : socket'[b] = socket[b]
    BY <1>1, SMTT(60) DEF ProxyTypeOK
<1>5. connections'[a] = lastId' /\ \A b \in Addrs \ {a} : connections'[b] = connections[b]
    BY <1>2 DEF onNewConnection, ProxyTypeOK, InMap
<1>6. s.id = lastId' /\ s.state = "open"
    OBVIOUS
<1>7. listener.pc = "reset" => s.late
    BY Zenon
<1>. HIDE DEF s
<1>. QED  BY <1>1, <1>2, <1>3, <1>4, <1>5, <1>6, <1>7, NoSocketAssumption, ZenonT(60) DEF onNewConnection

\* A client that has gone: its socket leaves list and map and is to be deleted.
LEMMA SocketDoomed ==
    ASSUME ProxyTypeOK, NEW a \in Addrs, onWebsocketDisconnected(a)
    PROVE  /\ Listed(a) /\ socket'[a] # NoSocket /\ socket'[a].state = "doomed"
           /\ socket'[a].id = socket[a].id
           /\ connections'[a] = 0
           /\ \A b \in Addrs \ {a} : socket'[b] = socket[b] /\ connections'[b] = connections[b]
           /\ [do |-> "delete", to |-> a, for |-> 0] \in Event
           /\ Post([do |-> "delete", to |-> a, for |-> 0])
           /\ UNCHANGED <<lastId, link, links, earlier, replies, listener, wild, misdelivered>>
<1>. DEFINE s == [socket[a] EXCEPT !.state = "doomed"]
<1>1. Listed(a) /\ socket[a] \in Socket /\ socket' = [socket EXCEPT ![a] = s]
    BY DEF onWebsocketDisconnected, Listed, ProxyTypeOK
<1>2. s \in Socket /\ s.state = "doomed" /\ s.id = socket[a].id
    BY <1>1 DEF Socket
<1>3. socket'[a] = s /\ \A b \in Addrs \ {a} : socket'[b] = socket[b]
    BY <1>1 DEF ProxyTypeOK
<1>4. connections'[a] = 0 /\ \A b \in Addrs \ {a} : connections'[b] = connections[b]
    BY Zenon DEF onWebsocketDisconnected, ProxyTypeOK, remove_connection
<1>. QED  BY <1>1, <1>2, <1>3, <1>4, NoSocketAssumption, Zenon DEF onWebsocketDisconnected, Event

\* The handling of an event: a socket is deleted, or all are the same, and
\* one that was to be closed is not open.
LEMMA EventHandled ==
    ASSUME ProxyTypeOK, MainEvent
    PROVE  /\ UNCHANGED <<connections, lastId, server, listener, wild>>
           /\ events[1].to \in Addrs
           /\ \/ /\ events[1].do = "write" /\ UNCHANGED socket
                 /\ misdelivered' = IF Listed(events[1].to) /\ socket[events[1].to].id # events[1].for
                                      THEN misdelivered \cup {<<events[1].for, socket[events[1].to].id>>}
                                      ELSE misdelivered
              \/ /\ events[1].do = "close" /\ UNCHANGED misdelivered
                 /\ \A b \in Addrs : Same(b)
                 /\ Listed(events[1].to) => socket'[events[1].to].state = "closing"
              \/ /\ events[1].do = "delete" /\ UNCHANGED misdelivered
                 /\ socket'[events[1].to] = NoSocket
                 /\ \A b \in Addrs \ {events[1].to} : socket'[b] = socket[b]
<1>. DEFINE e == events[1]
<1>1. Head(events) = e /\ e \in Event /\ e.to \in Addrs
    BY EventsLeft, Z3T(60) DEF Event
<1>. HIDE DEF e
<1>2. CASE onWebsocketHasDataToWrite(e)
    BY <1>1, <1>2, Zenon DEF MainEvent, onWebsocketHasDataToWrite, e
<1>3. CASE onRemoveConnection(e) /\ Listed(e.to)
    <2>. DEFINE s == [socket[e.to] EXCEPT !.state = "closing"]
    <2>1. socket[e.to] \in Socket
        BY <1>1, <1>3 DEF Listed, ProxyTypeOK
    <2>2. s \in Socket /\ s.id = socket[e.to].id /\ s.late = socket[e.to].late /\ s.state = "closing"
        BY <2>1 DEF Socket
    <2>3. socket' = [socket EXCEPT ![e.to] = s]
        BY <1>3 DEF onRemoveConnection
    <2>. HIDE DEF s
    <2>4. \A b \in Addrs : Same(b)
        BY <1>1, <1>3, <2>2, <2>3, ReplacedIsSame, Zenon
    <2>5. socket'[e.to].state = "closing"
        BY <1>1, <2>2, <2>3, SMTT(60) DEF ProxyTypeOK
    <2>. QED  BY <1>1, <1>3, <2>4, <2>5, Zenon DEF MainEvent, onRemoveConnection, e
<1>4. CASE onRemoveConnection(e) /\ ~Listed(e.to)
    <2>1. UNCHANGED socket
        BY <1>4 DEF onRemoveConnection
    <2>2. \A b \in Addrs : Same(b)
        BY <2>1, Zenon DEF Same, Listed
    <2>. QED  BY <1>1, <1>4, <2>2 DEF MainEvent, onRemoveConnection, e
<1>5. CASE DeferredDelete(e)
    BY <1>1, <1>5, Zenon DEF MainEvent, DeferredDelete, ProxyTypeOK, e
<1>. QED  BY <1>1, <1>2, <1>3, <1>4, <1>5, Zenon DEF MainEvent

ListenerThread == ListenerStep \/ Reconnect \/ ReconnectFails

\* The listener leaves the sockets alone, posts at most a reply or a closing,
\* and clears the map or leaves it alone too.
LEMMA ListenerEffect ==
    ASSUME ProxyTypeOK, RepliesAreAddressed, ListenerThread
    PROVE  /\ UNCHANGED <<socket, lastId, known, spoken, earlier, misdelivered>>
           /\ \/ UNCHANGED events
              \/ \E e \in Event : e.do \in {"write", "close"} /\ Post(e)
           /\ \/ UNCHANGED connections
              \/ \A a \in Addrs : connections'[a] = 0
<1>. USE DEF clients, server
<1>1. CASE mg_websocket_write
    <2>1. [do |-> "write", to |-> listener.at, for |-> listener.for] \in Event
        BY <1>1, Zenon DEF mg_websocket_write, RepliesAreAddressed, ProxyTypeOK, Listener, Event
    <2>. QED  BY <1>1, <2>1, Zenon DEF mg_websocket_write
<1>2. CASE CloseNext
    <2>1. [do |-> "close", to |-> listener.at, for |-> 0] \in Event
        BY <1>2 DEF CloseNext, ProxyTypeOK, Listener, Event
    <2>. QED  BY <1>2, <2>1, Zenon DEF CloseNext
<1>3. CASE ClearAll
    BY <1>3, Zenon DEF ClearAll, Cleared
<1>4. CASE ReadFrame \/ id_to_conn \/ ConnectionClosed \/ Crash \/ Reconnect \/ ReconnectFails
    BY <1>4 DEF ReadFrame, id_to_conn, LookupEnds, LookupFinds, LookupGoesOn, ConnectionClosed,
                Crash, Reconnect, ReconnectFails
<1>. QED  BY <1>1, <1>2, <1>3, <1>4, Zenon DEF ListenerThread, ListenerStep

\* The iterator stays where it is, goes to the end, or goes to an entry.
Moves ==
    /\ \/ listener'.at = listener.at /\ listener'.id = listener.id
       \/ listener'.at = End /\ listener'.id = 0
       \/ /\ listener'.at \in Addrs /\ InMap(listener'.at)
          /\ listener'.id = connections[listener'.at]
    /\ listener'.for \in {0, listener.for} \/ (replies # <<>> /\ listener'.for = Head(replies))
    /\ listener'.pc = "lookup" => listener'.for # 0
    /\ listener'.pc = "found" => listener'.at # End /\ listener'.id = listener'.for

LEMMA MovesTo ==
    ASSUME ProxyTypeOK,
           NEW pc \in {"read", "lookup", "reset", "crashed"}, NEW b \in Addrs \cup {End},
           NEW for \in Ids \cup {0}, listener' = At(pc, b, for), b # End => InMap(b),
           for \in {0, listener.for} \/ (replies # <<>> /\ for = Head(replies)),
           pc = "lookup" => for # 0
    PROVE  Moves
<1>1. connections \in [Addrs -> Ids \cup {0}]
    BY DEF ProxyTypeOK
<1>2. pc \in {"read", "lookup", "found", "reset", "sleep", "crashed"} /\ pc # "found"
    BY Zenon
<1>3. /\ listener'.pc = pc /\ listener'.at = b /\ listener'.for = for
      /\ listener'.id = IF b = End THEN 0 ELSE connections[b]
    BY DEF At
<1>. QED  BY <1>2, <1>3, Zenon DEF Moves

LEMMA MovesOn ==
    ASSUME ProxyTypeOK,
           NEW pc \in {"found", "sleep", "read"}, listener' = [listener EXCEPT !.pc = pc],
           pc = "found" => listener.at # End /\ listener.id = listener.for
    PROVE  Moves
    BY DEF ProxyTypeOK, Listener, Moves

LEMMA ListenerMoves ==
    ASSUME ProxyTypeOK, RepliesAreAddressed, ListenerThread
    PROVE  Moves
<1>0. listener.at \in Addrs \cup {End} /\ listener.for \in Ids \cup {0} /\ 0 \in Ids \cup {0}
    BY DEF ProxyTypeOK, Listener
<1>1. CASE ReadFrame
    <2>1. Head(replies) \in Ids
        BY <1>1 DEF ReadFrame, ProxyTypeOK
    <2>2. Head(replies) # 0
        BY <2>1, BoundsAssumption DEF Ids
    <2>3. listener' = At("lookup", Begin, Head(replies)) /\ replies # <<>>
        BY <1>1 DEF ReadFrame
    <2>4. Begin \in Addrs \cup {End} /\ (Begin # End => InMap(Begin))
        BY BeginIsFirst
    <2>. QED  BY <2>1, <2>2, <2>3, <2>4, MovesTo, Zenon
<1>2. CASE LookupEnds \/ mg_websocket_write \/ Crash
    BY <1>0, <1>2, MovesTo, Zenon DEF LookupEnds, mg_websocket_write, Crash
<1>3. CASE LookupFinds
    BY <1>3, MovesOn DEF LookupFinds, Matches
<1>4. CASE LookupGoesOn
    <2>1. PICK b \in EntryAfter : listener' = At("lookup", b, listener.for)
        BY <1>4 DEF LookupGoesOn
    <2>2. b \in Addrs \cup {End} /\ (b # End => InMap(b))
        BY <1>0, <1>4, <2>1, EntryAfterIsNext, Zenon DEF LookupGoesOn
    <2>3. listener.for # 0
        BY <1>4 DEF LookupGoesOn, RepliesAreAddressed
    <2>. QED  BY <1>0, <2>1, <2>2, <2>3, MovesTo, SMTT(60)
<1>5. CASE ConnectionClosed \/ ReconnectFails
    BY <1>0, <1>5, BeginIsFirst, MovesTo, Zenon DEF ConnectionClosed, ReconnectFails
<1>6. CASE CloseNext
    <2>1. PICK b \in EntryAfter : listener' = At("reset", b, 0)
        BY <1>6, Zenon DEF CloseNext
    <2>2. b \in Addrs \cup {End} /\ (b # End => InMap(b))
        BY <1>0, <1>6, <2>1, EntryAfterIsNext DEF CloseNext
    <2>. QED  BY <1>0, <2>1, <2>2, MovesTo, Zenon
<1>7. CASE ClearAll \/ Reconnect
    BY <1>7, MovesOn DEF ClearAll, Reconnect
<1>. QED  BY <1>1, <1>2, <1>3, <1>4, <1>5, <1>6, <1>7, Zenon DEF ListenerThread, ListenerStep, id_to_conn


----------------------------------------------------------------------------
(* The steps keep the invariant.                                           *)

LEMMA NextDeletes ==
    ASSUME Inv, [ProxyNext]_vars
    PROVE  DeletesAreDoomed'
<1>inv. /\ ProxyTypeOK /\ IdsAreGiven /\ DeletesAreDoomed /\ EntriesAreSockets /\ LinkIsFresh
        /\ NoCarryOver /\ ServerForgetsTheGone /\ RepliesAreAddressed /\ NoReplyStolen
        /\ PassedAreClosed /\ MuteIsClosed
    BY SMTT(60) DEF Inv
<1>. USE <1>inv
<1>1. ASSUME NEW a \in Addrs, onNewConnection(a)
      PROVE  DeletesAreDoomed'
    <2>1. \A n \in Posted : events[n].to \in Addrs
        BY EventsTyped, Zenon
    <2>. QED  BY <1>1, <2>1, NewSocket DEF DeletesAreDoomed, Posted
<1>2. ASSUME NEW a \in Addrs, Touched(a)
      PROVE  DeletesAreDoomed'
    <2>1. \A n \in Posted : events[n].to \in Addrs
        BY EventsTyped
    <2>2. \A b \in Addrs : socket'[b] # NoSocket => socket'[b].state \in {"open", "closing", "doomed"}
        BY NextTypes, ZenonT(60) DEF ProxyTypeOK, Socket
    <2>. QED  BY <1>2, <2>1, <2>2, TouchedIsSame DEF DeletesAreDoomed, Posted, Same, Listed
<1>3. ASSUME NEW a \in Addrs, onWebsocketDisconnected(a)
      PROVE  DeletesAreDoomed'
    <2>1. \A n \in Posted : events[n].to \in Addrs
        BY EventsTyped
    <2>2. \A n \in Posted : events[n].do = "delete" => events[n].to # a
        BY <1>3, SocketDoomed, ZenonT(60) DEF DeletesAreDoomed, Listed
    <2>. DEFINE e == [do |-> "delete", to |-> a, for |-> 0]
    <2>3. e \in Event /\ Post(e) /\ e.do = "delete" /\ e.to = a
        BY <1>3, SocketDoomed, SMTT(60)
    <2>. HIDE DEF e
    <2>4. /\ Posted' = Posted \cup {Len(events) + 1}
          /\ \A n \in Posted : events'[n] = events[n] /\ n # Len(events) + 1
          /\ events'[Len(events) + 1] = e
        BY <2>3, EventPosted, Z3T(60)
    <2>5. \A n \in Posted' : events'[n].do = "delete" =>
            socket'[events'[n].to] # NoSocket /\ socket'[events'[n].to].state = "doomed"
        <3>1. /\ socket'[a] # NoSocket /\ socket'[a].state = "doomed"
              /\ \A b \in Addrs \ {a} : socket'[b] = socket[b]
            BY <1>3, SocketDoomed, Zenon
        <3>. QED  BY <2>1, <2>2, <2>3, <2>4, <3>1 DEF DeletesAreDoomed
    <2>6. \A m, n \in Posted' :
            events'[m].do = "delete" /\ events'[n].do = "delete" /\ events'[m].to = events'[n].to => m = n
        BY <2>2, <2>3, <2>4, SMTT(60) DEF DeletesAreDoomed
    <2>. QED  BY <2>5, <2>6 DEF DeletesAreDoomed
<1>4. CASE MainEvent
    <2>1. \A n \in Posted : events[n].to \in Addrs
        BY EventsTyped
    <2>2. \A n \in Posted' : n \in Nat /\ n + 1 \in Posted /\ n + 1 # 1 /\ events'[n] = events[n + 1]
        BY <1>4, EventsLeft DEF Posted
    <2>3. \A n \in Posted' : events'[n].do = "delete" =>
            socket[events'[n].to] # NoSocket /\ socket[events'[n].to].state = "doomed"
        BY <2>2 DEF DeletesAreDoomed
    <2>4. \A n \in Posted' : events'[n].do = "delete" =>
            socket'[events'[n].to] # NoSocket /\ socket'[events'[n].to].state = "doomed"
        <3>1. CASE events[1].do = "delete"
            <4>1. \A n \in Posted' : events'[n].do = "delete" => events'[n].to # events[1].to
                BY <1>4, <2>2, <3>1, EventsLeft DEF DeletesAreDoomed
            <4>. QED  BY <1>4, <2>1, <2>2, <2>3, <3>1, <4>1, EventHandled, Z3T(60)
        <3>2. CASE events[1].do # "delete"
            <4>1. \A b \in Addrs : socket[b] # NoSocket /\ socket[b].state = "doomed" =>
                    socket'[b] # NoSocket /\ socket'[b].state = "doomed"
                BY <1>4, <3>2, EventHandled, ZenonT(60) DEF Same, Listed
            <4>. QED  BY <2>1, <2>2, <2>3, <4>1, Z3T(60)
        <3>. QED  BY <3>1, <3>2, Z3T(60)
    <2>. QED  BY <2>2, <2>4, Z3T(60) DEF DeletesAreDoomed, Posted
<1>5. CASE ListenerThread
    <2>1. UNCHANGED socket
        BY <1>5, ListenerEffect, Z3T(60)
    <2>2. CASE UNCHANGED events
        BY <2>1, <2>2, ZenonT(60) DEF DeletesAreDoomed, Posted
    <2>3. ASSUME NEW e \in Event, e.do \in {"write", "close"}, Post(e)
          PROVE  DeletesAreDoomed'
        BY <2>1, <2>3, EventPosted DEF DeletesAreDoomed
    <2>. QED  BY <1>5, <2>2, <2>3, ListenerEffect
<1>6. ASSUME NEW a \in Addrs, onWebsocketMessageReceived(a)
      PROVE  DeletesAreDoomed'
    BY <1>6, Zenon DEF onWebsocketMessageReceived, clients, DeletesAreDoomed, Posted
<1>7. CASE LinkLost \/ (\E i \in Ids : Reply(i)) \/ UNCHANGED vars
    BY <1>7, Zenon DEF LinkLost, Reply, vars, clients, DeletesAreDoomed, Posted
<1>. QED  BY <1>1, <1>2, <1>3, <1>4, <1>5, <1>6, <1>7, Z3T(60) DEF ProxyNext, Touched, ListenerThread

LEMMA NextEntries ==
    ASSUME Inv, [ProxyNext]_vars
    PROVE  EntriesAreSockets'
<1>inv. /\ ProxyTypeOK /\ IdsAreGiven /\ DeletesAreDoomed /\ EntriesAreSockets /\ LinkIsFresh
        /\ NoCarryOver /\ ServerForgetsTheGone /\ RepliesAreAddressed /\ NoReplyStolen
        /\ PassedAreClosed /\ MuteIsClosed
    BY DEF Inv
<1>. USE <1>inv
<1>1. ASSUME NEW a \in Addrs, onNewConnection(a)
      PROVE  EntriesAreSockets'
    BY <1>1, NewSocket, ZenonT(60) DEF EntriesAreSockets, InMap, Listed
<1>2. ASSUME NEW a \in Addrs, Touched(a)
      PROVE  EntriesAreSockets'
    BY <1>2, TouchedIsSame DEF EntriesAreSockets, InMap, Same, Listed
<1>3. ASSUME NEW a \in Addrs, onWebsocketDisconnected(a)
      PROVE  EntriesAreSockets'
    BY <1>3, SocketDoomed, ZenonT(60) DEF EntriesAreSockets, InMap, Listed
<1>4. CASE MainEvent
    <2>1. CASE events[1].do = "delete"
        <3>1. ~InMap(events[1].to)
            BY <1>4, <2>1, EventsLeft, EventsTyped DEF DeletesAreDoomed, EntriesAreSockets, Listed
        <3>. QED  BY <1>4, <2>1, <3>1, EventHandled, Z3T(60) DEF EntriesAreSockets, InMap, Listed
    <2>2. CASE events[1].do # "delete"
        BY <1>4, <2>2, EventHandled, ZenonT(120) DEF EntriesAreSockets, InMap, Same, Listed
    <2>. QED  BY <2>1, <2>2
<1>5. CASE ListenerThread
    BY <1>5, ListenerEffect DEF EntriesAreSockets, InMap, Listed
<1>6. ASSUME NEW a \in Addrs, onWebsocketMessageReceived(a)
      PROVE  EntriesAreSockets'
    BY <1>6 DEF onWebsocketMessageReceived, clients, EntriesAreSockets, InMap, Listed
<1>7. CASE LinkLost \/ (\E i \in Ids : Reply(i)) \/ UNCHANGED vars
    BY <1>7 DEF LinkLost, Reply, vars, clients, EntriesAreSockets, InMap, Listed
<1>. QED  BY <1>1, <1>2, <1>3, <1>4, <1>5, <1>6, <1>7, Z3T(60) DEF ProxyNext, Touched, ListenerThread

LEMMA LaterId == \A i \in Ids \cup {0} : \A n \in Nat : i <= n => i <= n + 1
    BY DEF Ids

LEMMA NextIds ==
    ASSUME Inv, [ProxyNext]_vars
    PROVE  IdsAreGiven'
<1>inv. /\ ProxyTypeOK /\ IdsAreGiven /\ DeletesAreDoomed /\ EntriesAreSockets /\ LinkIsFresh
        /\ NoCarryOver /\ ServerForgetsTheGone /\ RepliesAreAddressed /\ NoReplyStolen
        /\ PassedAreClosed /\ MuteIsClosed
    BY DEF Inv
<1>. USE <1>inv
<1>0. lastId \in Nat /\ lastId' \in Nat
    BY NextTypes DEF ProxyTypeOK
<1>1. ASSUME NEW a \in Addrs, onNewConnection(a)
      PROVE  IdsAreGiven'
    <2>1. \A b \in Addrs : socket[b] # NoSocket => socket[b].id \in Nat
        BY DEF ProxyTypeOK, Socket, Ids
    <2>2. Ids \subseteq Nat
        BY DEF Ids
    <2>3. \A n \in Posted : events[n].for \in Nat
        BY EventsTyped, Z3T(60) DEF Ids
    <2>4. /\ lastId' = lastId + 1
          /\ UNCHANGED <<known, spoken, earlier, replies, events, listener, misdelivered>>
        BY <1>1, NewSocket, Z3T(60) DEF server
    <2>5. \A b \in Addrs : socket'[b] # NoSocket => socket'[b].id <= lastId'
        BY <1>0, <1>1, <2>1, NewSocket, Z3T(60) DEF IdsAreGiven
    <2>6. \A b, c \in Addrs :
            socket'[b] # NoSocket /\ socket'[c] # NoSocket /\ socket'[b].id = socket'[c].id => b = c
        BY <1>0, <1>1, <2>1, NewSocket, SMTT(60) DEF IdsAreGiven
    <2>7. \A i \in known \cup spoken \cup earlier : i <= lastId'
        <3>1. \A i \in known \cup spoken \cup earlier : i \in Nat
            BY <2>2 DEF ProxyTypeOK
        <3>. QED  BY <1>0, <2>4, <3>1 DEF IdsAreGiven
    <2>8. \A n \in 1..Len(replies) : replies[n] <= lastId'
        <3>. SUFFICES ASSUME NEW n \in 1..Len(replies)
                      PROVE  replies[n] <= lastId'
            OBVIOUS
        <3>1. replies[n] \in Ids
            BY DEF ProxyTypeOK
        <3>2. replies[n] <= lastId
            BY Zenon DEF IdsAreGiven
        <3>. QED  BY <1>0, <2>4, <3>1, <3>2, LaterId, Zenon
    <2>9. \A n \in Posted : events[n].for <= lastId'
        BY <1>0, <2>3, <2>4 DEF IdsAreGiven
    <2>10. listener.id <= lastId' /\ listener.for <= lastId'
        <3>1. listener.id \in Ids \cup {0} /\ listener.for \in Ids \cup {0}
            BY Zenon DEF ProxyTypeOK, Listener
        <3>2. listener.id <= lastId /\ listener.for <= lastId
            BY Zenon DEF IdsAreGiven
        <3>. QED  BY <1>0, <2>4, <3>1, <3>2, LaterId, Zenon
    <2>11. \A m \in misdelivered : m[1] <= lastId'
        <3>1. \A m \in misdelivered : m[1] \in Nat
            BY <2>2, Zenon DEF ProxyTypeOK
        <3>. QED  BY <1>0, <2>4, <3>1 DEF IdsAreGiven
    <2>. QED  BY <2>4, <2>5, <2>6, <2>7, <2>8, <2>9, <2>10, <2>11, ZenonT(60) DEF IdsAreGiven, Posted
<1>2. ASSUME NEW a \in Addrs, Touched(a)
      PROVE  IdsAreGiven'
    BY <1>2, TouchedIsSame, ZenonT(60) DEF IdsAreGiven, Same, Posted, server
<1>3. ASSUME NEW a \in Addrs, onWebsocketDisconnected(a)
      PROVE  IdsAreGiven'
    <2>1. \A i \in Forgotten(a) : i <= lastId
        BY <1>3, SocketDoomed DEF Forgotten, EntriesAreSockets, IdsAreGiven, Listed, onWebsocketDisconnected
    <2>. DEFINE e == [do |-> "delete", to |-> a, for |-> 0]
    <2>2. e \in Event /\ Post(e) /\ e.for = 0
        BY <1>3, SocketDoomed, ZenonT(60)
    <2>. HIDE DEF e
    <2>3. \A n \in Posted' : events'[n].for <= lastId
        BY <1>0, <2>2, EventPosted DEF IdsAreGiven
    <2>4. \A b \in Addrs : socket'[b] # NoSocket => socket[b] # NoSocket /\ socket'[b].id = socket[b].id
        BY <1>3, SocketDoomed, Zenon DEF Listed
    <2>5. UNCHANGED <<lastId, earlier, replies, listener, misdelivered>>
        BY <1>3, SocketDoomed, Zenon
    <2>6. \A i \in known' \cup spoken' : i <= lastId
        BY <1>3, <2>1, Z3T(60) DEF onWebsocketDisconnected, IdsAreGiven
    <2>. QED  BY <2>3, <2>4, <2>5, <2>6 DEF IdsAreGiven
<1>4. CASE MainEvent
    <2>1. events[1].for <= lastId
        BY <1>4, EventsLeft, Zenon DEF IdsAreGiven
    <2>2. \A n \in Posted' : events'[n].for <= lastId
        BY <1>4, EventsLeft, Z3T(60) DEF IdsAreGiven
    <2>3. \A m \in misdelivered' : m[1] <= lastId
        BY <1>4, <2>1, EventHandled, Z3T(60) DEF IdsAreGiven
    <2>4. \A a \in Addrs : socket'[a] # NoSocket => socket[a] # NoSocket /\ socket'[a].id = socket[a].id
        BY <1>4, EventHandled, Z3T(60) DEF Same
    <2>5. UNCHANGED <<lastId, known, spoken, earlier, replies, listener>>
        BY <1>4, EventHandled, Zenon DEF server
    <2>. QED  BY <2>2, <2>3, <2>4, <2>5, Z3T(60) DEF IdsAreGiven
<1>6. ASSUME NEW a \in Addrs, onWebsocketMessageReceived(a)
      PROVE  IdsAreGiven'
    <2>1. connections[a] <= lastId
        BY <1>6, Z3T(60) DEF onWebsocketMessageReceived, EntriesAreSockets, IdsAreGiven, Listed
    <2>. QED  BY <1>6, <2>1, ZenonT(60) DEF onWebsocketMessageReceived, clients, IdsAreGiven, Posted
<1>7. CASE LinkLost
    <2>1. \A n \in 1..Len(replies') : replies'[n] <= lastId
        <3>1. CASE replies' = replies
            BY <3>1, Z3T(60) DEF IdsAreGiven
        <3>2. CASE replies' = <<>>
            BY <3>2, Z3T(60)
        <3>. QED  BY <1>7, <3>1, <3>2, ZenonT(60) DEF LinkLost
    <2>. QED  BY <1>7, <2>1, Zenon DEF LinkLost, clients, IdsAreGiven, Posted
<1>8. ASSUME NEW i \in Ids, Reply(i)
      PROVE  IdsAreGiven'
    <2>1. i <= lastId
        BY <1>8, ZenonT(60) DEF Reply, IdsAreGiven
    <2>2. \A n \in 1..Len(replies') : replies'[n] <= lastId
        BY <1>8, <2>1, Z3T(60) DEF Reply, IdsAreGiven, ProxyTypeOK
    <2>. QED  BY <1>8, <2>2, ZenonT(60) DEF Reply, clients, IdsAreGiven, Posted
<1>9. CASE UNCHANGED vars
    BY <1>9, Z3T(60) DEF vars, clients, server, IdsAreGiven, Posted
<1>10. CASE ListenerThread
    <2>1. UNCHANGED <<socket, lastId, known, spoken, earlier, misdelivered>>
        BY <1>10, ListenerEffect, Z3T(60)
    <2>2. \A n \in 1..Len(replies') : replies'[n] <= lastId
        <3>1. CASE ReadFrame
            BY <3>1 DEF ReadFrame, ProxyTypeOK, IdsAreGiven
        <3>2. CASE UNCHANGED replies
            BY <3>2, Zenon DEF IdsAreGiven
        <3>. QED  BY <1>10, <3>1, <3>2, Z3T(60) DEF ListenerThread, ListenerStep, id_to_conn, LookupEnds, LookupFinds,
                LookupGoesOn, mg_websocket_write, ConnectionClosed, CloseNext, ClearAll, Crash, Reconnect,
                ReconnectFails, server
    <2>3. \A a \in Addrs : InMap(a) => connections[a] <= lastId
        BY ZenonT(60) DEF EntriesAreSockets, IdsAreGiven, Listed
    <2>4. replies # <<>> => Head(replies) <= lastId
        BY Z3T(60) DEF ProxyTypeOK, IdsAreGiven
    <2>5. listener'.id <= lastId /\ listener'.for <= lastId
        BY <1>0, <1>10, <2>3, <2>4, ListenerMoves, SMTT(60) DEF Moves, IdsAreGiven
    <2>6. \A n \in Posted' : events'[n].for <= lastId
        <3>1. CASE UNCHANGED events
            BY <3>1 DEF IdsAreGiven, Posted
        <3>2. CASE mg_websocket_write
            <4>. DEFINE e == [do |-> "write", to |-> listener.at, for |-> listener.for]
            <4>1. e \in Event /\ Post(e) /\ e.for = listener.for
                BY <3>2, Zenon DEF mg_websocket_write, RepliesAreAddressed, ProxyTypeOK, Listener, Event
            <4>. HIDE DEF e
            <4>. QED  BY <4>1, EventPosted, ZenonT(60) DEF IdsAreGiven
        <3>3. CASE CloseNext
            <4>. DEFINE e == [do |-> "close", to |-> listener.at, for |-> 0]
            <4>1. e \in Event /\ Post(e) /\ e.for = 0
                BY <3>3, Zenon DEF CloseNext, ProxyTypeOK, Listener, Event
            <4>. HIDE DEF e
            <4>. QED  BY <1>0, <4>1, EventPosted, Z3T(60) DEF IdsAreGiven
        <3>. QED  BY <1>10, <3>1, <3>2, <3>3, Z3T(60) DEF ListenerThread, ListenerStep, id_to_conn, LookupEnds,
                LookupFinds, LookupGoesOn, ReadFrame, ConnectionClosed, ClearAll, Crash, Reconnect, ReconnectFails
    <2>. QED  BY <2>1, <2>2, <2>5, <2>6, Zenon DEF IdsAreGiven
<1>. QED  BY <1>1, <1>2, <1>3, <1>4, <1>6, <1>7, <1>8, <1>9, <1>10, Z3T(60) DEF ProxyNext, Touched, ListenerThread

\* Nothing of an earlier link is in the map, nor known, on a new one.
LEMMA NextLink ==
    ASSUME Inv, [ProxyNext]_vars
    PROVE  LinkIsFresh'
<1>inv. /\ ProxyTypeOK /\ IdsAreGiven /\ DeletesAreDoomed /\ EntriesAreSockets /\ LinkIsFresh
        /\ NoCarryOver /\ ServerForgetsTheGone /\ RepliesAreAddressed /\ NoReplyStolen
        /\ PassedAreClosed /\ MuteIsClosed
    BY DEF Inv
<1>. USE <1>inv
<1>0. 0 \notin earlier
    BY SMTT(60) DEF ProxyTypeOK, Ids
<1>1. ASSUME NEW a \in Addrs, onNewConnection(a)
      PROVE  LinkIsFresh'
    <2>1. lastId + 1 \notin earlier
        BY DEF ProxyTypeOK, IdsAreGiven, Ids
    <2>. QED  BY <1>1, <2>1, NewSocket, Z3T(60) DEF LinkIsFresh, server
<1>2. ASSUME NEW a \in Addrs, Touched(a)
      PROVE  LinkIsFresh'
    BY <1>2, TouchedIsSame, ZenonT(60) DEF LinkIsFresh, server
<1>3. ASSUME NEW a \in Addrs, onWebsocketDisconnected(a)
      PROVE  LinkIsFresh'
    <2>1. known' \subseteq known
        BY <1>3 DEF onWebsocketDisconnected
    <2>2. \A b \in Addrs : connections'[b] \in {0, connections[b]}
        BY <1>3, SocketDoomed, Zenon
    <2>3. UNCHANGED <<link, earlier, listener>>
        BY <1>3, SocketDoomed, ZenonT(60)
    <2>. QED  BY <1>0, <2>1, <2>2, <2>3, SMTT(60) DEF LinkIsFresh
<1>4. CASE MainEvent
    BY <1>4, EventHandled, Z3T(60) DEF LinkIsFresh, server
<1>5. ASSUME NEW a \in Addrs, onWebsocketMessageReceived(a)
      PROVE  LinkIsFresh'
    BY <1>5, Zenon DEF onWebsocketMessageReceived, clients, LinkIsFresh
<1>6. CASE LinkLost \/ (\E i \in Ids : Reply(i)) \/ UNCHANGED vars
    BY <1>6, ZenonT(60) DEF LinkLost, Reply, vars, clients, server, LinkIsFresh
<1>7. CASE ReadFrame \/ id_to_conn \/ mg_websocket_write \/ Crash
    BY <1>7, Z3T(60) DEF ReadFrame, id_to_conn, LookupEnds, LookupFinds, LookupGoesOn, mg_websocket_write, Crash, At,
                clients, server, LinkIsFresh, ProxyTypeOK, Listener
<1>8. CASE ConnectionClosed \/ CloseNext \/ ReconnectFails
    BY <1>8 DEF ConnectionClosed, CloseNext, ReconnectFails, At, clients, server, LinkIsFresh
<1>9. CASE ClearAll
    <2>1. \A a \in Addrs : connections'[a] = 0
        BY <1>9 DEF ClearAll, Cleared
    <2>. QED  BY <1>0, <1>9, <2>1, SMTT(60) DEF ClearAll, server, LinkIsFresh
<1>10. CASE Reconnect
    BY <1>10, Zenon DEF Reconnect, clients, LinkIsFresh, ProxyTypeOK, Listener
<1>. QED  BY <1>1, <1>2, <1>3, <1>4, <1>5, <1>6, <1>7, <1>8, <1>9, <1>10, Z3T(60) DEF ProxyNext, Touched, ListenerStep

LEMMA NextCarryOver ==
    ASSUME Inv, [ProxyNext]_vars
    PROVE  NoCarryOver'
<1>inv. /\ ProxyTypeOK /\ IdsAreGiven /\ DeletesAreDoomed /\ EntriesAreSockets /\ LinkIsFresh
        /\ NoCarryOver /\ ServerForgetsTheGone /\ RepliesAreAddressed /\ NoReplyStolen
        /\ PassedAreClosed /\ MuteIsClosed
    BY DEF Inv
<1>. USE <1>inv
<1>1. ASSUME NEW a \in Addrs, onWebsocketMessageReceived(a) \/ onWebsocketDisconnected(a)
      PROVE  NoCarryOver'
    BY <1>1, SMTT(60) DEF onWebsocketMessageReceived, onWebsocketDisconnected, Forgotten, LinkIsFresh, NoCarryOver
<1>2. CASE LinkLost
    BY <1>2 DEF LinkLost, NoCarryOver
<1>3. CASE UNCHANGED <<spoken, earlier>>
    BY <1>3, Z3T(60) DEF NoCarryOver
<1>4. ASSUME NEW a \in Addrs, onNewConnection(a) \/ Touched(a)
      PROVE  NoCarryOver'
    <2>1. CASE onNewConnection(a)
        BY <1>3, <2>1, Zenon DEF onNewConnection, server
    <2>2. CASE Touched(a)
        <3>1. UNCHANGED server
            BY <2>2, TouchedIsSame, Zenon
        <3>. QED  BY <1>3, <3>1, Zenon DEF server
    <2>. QED  BY <1>4, <2>1, <2>2, Zenon
<1>5. CASE MainEvent \/ ListenerThread
    BY <1>3, <1>5, EventHandled, ListenerEffect, Zenon DEF server
<1>6. CASE (\E i \in Ids : Reply(i)) \/ UNCHANGED vars
    BY <1>3, <1>6, ZenonT(60) DEF Reply, vars, server
<1>. QED  BY <1>1, <1>2, <1>4, <1>5, <1>6, ZenonT(60) DEF ProxyNext, Touched, ListenerThread

LEMMA NextForgets ==
    ASSUME Inv, [ProxyNext]_vars
    PROVE  ServerForgetsTheGone'
<1>inv. /\ ProxyTypeOK /\ IdsAreGiven /\ DeletesAreDoomed /\ EntriesAreSockets /\ LinkIsFresh
        /\ NoCarryOver /\ ServerForgetsTheGone /\ RepliesAreAddressed /\ NoReplyStolen
        /\ PassedAreClosed /\ MuteIsClosed
    BY DEF Inv
<1>. USE <1>inv
<1>0. 0 \notin known
    BY DEF ProxyTypeOK, Ids
<1>1. ASSUME NEW a \in Addrs, onNewConnection(a)
      PROVE  ServerForgetsTheGone'
    <2>1. /\ connections[a] = 0 /\ known' = known
          /\ \A b \in Addrs \ {a} : connections'[b] = connections[b]
        BY <1>1, NewSocket, ZenonT(60) DEF server
    <2>2. ASSUME NEW i \in known
          PROVE  \E b \in Addrs : connections'[b] = i
        <3>1. PICK b \in Addrs : connections[b] = i
            BY ZenonT(60) DEF ServerForgetsTheGone
        <3>2. b # a
            BY <1>0, <2>1, <3>1, ZenonT(60)
        <3>. QED  BY <2>1, <3>1, <3>2, ZenonT(60)
    <2>. QED  BY <2>1, <2>2, ZenonT(60) DEF ServerForgetsTheGone
<1>2. ASSUME NEW a \in Addrs, onWebsocketDisconnected(a)
      PROVE  ServerForgetsTheGone'
    <2>. SUFFICES ASSUME NEW i \in known'
                  PROVE  \E b \in Addrs : connections'[b] = i
        BY DEF ServerForgetsTheGone
    <2>1. i \in known /\ i \notin Forgotten(a)
        BY <1>2, Zenon DEF onWebsocketDisconnected
    <2>2. PICK b \in Addrs : connections[b] = i
        BY <2>1, Zenon DEF ServerForgetsTheGone
    <2>3. b # a
        BY <1>0, <2>1, <2>2, Z3T(60) DEF Forgotten, InMap, LinkIsFresh
    <2>. QED  BY <1>2, <2>2, <2>3, SocketDoomed, ZenonT(60)
<1>3. ASSUME NEW a \in Addrs, onWebsocketMessageReceived(a)
      PROVE  ServerForgetsTheGone'
    BY <1>3, Zenon DEF onWebsocketMessageReceived, clients, ServerForgetsTheGone
<1>4. CASE LinkLost
    BY <1>4 DEF LinkLost, ServerForgetsTheGone
<1>5. CASE ClearAll
    BY <1>5 DEF ClearAll, server, LinkIsFresh, ServerForgetsTheGone
<1>6. CASE UNCHANGED <<connections, known>>
    BY <1>6 DEF ServerForgetsTheGone
<1>7. ASSUME NEW a \in Addrs, Touched(a)
      PROVE  ServerForgetsTheGone'
    BY <1>6, <1>7, TouchedIsSame DEF server
<1>8. CASE MainEvent
    BY <1>6, <1>8, EventHandled, ZenonT(60) DEF server
<1>9. CASE (\E i \in Ids : Reply(i)) \/ UNCHANGED vars
    BY <1>6, <1>9, Z3T(60) DEF Reply, vars, clients, server
<1>10. CASE ReadFrame \/ id_to_conn \/ mg_websocket_write \/ ConnectionClosed \/ CloseNext \/ Crash
              \/ Reconnect \/ ReconnectFails
    BY <1>6, <1>10, Zenon DEF ReadFrame, id_to_conn, LookupEnds, LookupFinds, LookupGoesOn, mg_websocket_write,
                ConnectionClosed, CloseNext, Crash, Reconnect, ReconnectFails, clients, server
<1>. QED  BY <1>1, <1>2, <1>3, <1>4, <1>5, <1>7, <1>8, <1>9, <1>10, Z3T(60) DEF ProxyNext, Touched, ListenerStep

LEMMA NextReplies ==
    ASSUME Inv, [ProxyNext]_vars
    PROVE  RepliesAreAddressed'
<1>inv. /\ ProxyTypeOK /\ IdsAreGiven /\ DeletesAreDoomed /\ EntriesAreSockets /\ LinkIsFresh
        /\ NoCarryOver /\ ServerForgetsTheGone /\ RepliesAreAddressed /\ NoReplyStolen
        /\ PassedAreClosed /\ MuteIsClosed
    BY DEF Inv
<1>. USE <1>inv
<1>1. ASSUME NEW a \in Addrs, onNewConnection(a)
      PROVE  RepliesAreAddressed'
    <2>1. /\ socket'[a].id = lastId + 1
          /\ \A b \in Addrs \ {a} : socket'[b] = socket[b]
          /\ UNCHANGED <<events, listener>>
        BY <1>1, NewSocket, Zenon
    <2>2. \A i \in Ids \cup {0} : i <= lastId => i # lastId + 1
        BY Z3T(60) DEF ProxyTypeOK, Ids
    <2>3. \A n \in Posted : events[n].for # lastId + 1
        BY <2>2, EventsTyped, Z3T(60) DEF IdsAreGiven
    <2>4. listener.id # lastId + 1
        BY <2>2, Z3T(60) DEF IdsAreGiven, ProxyTypeOK, Listener
    <2>. QED  BY <2>1, <2>3, <2>4, Z3T(60) DEF RepliesAreAddressed, Listed, Posted
<1>2. ASSUME NEW a \in Addrs, Touched(a)
      PROVE  RepliesAreAddressed'
    BY <1>2, TouchedIsSame DEF RepliesAreAddressed, Same, Listed, Posted
<1>3. ASSUME NEW a \in Addrs, onWebsocketDisconnected(a)
      PROVE  RepliesAreAddressed'
    <2>. DEFINE e == [do |-> "delete", to |-> a, for |-> 0]
    <2>1. e \in Event /\ Post(e) /\ e.do = "delete"
        BY <1>3, SocketDoomed, Zenon
    <2>. HIDE DEF e
    <2>2. /\ Posted' = Posted \cup {Len(events) + 1}
          /\ \A n \in Posted : events'[n] = events[n]
          /\ events'[Len(events) + 1] = e
        BY <2>1, EventPosted
    <2>3. \A b \in Addrs : Listed(b)' => Listed(b) /\ socket'[b] = socket[b]
        BY <1>3, SocketDoomed, Zenon DEF Listed
    <2>4. UNCHANGED listener
        BY <1>3, SocketDoomed, Zenon
    <2>5. ASSUME NEW n \in Posted', events'[n].do = "write"
          PROVE  /\ events'[n].for # 0
                 /\ \A b \in Addrs : Listed(b)' /\ socket'[b].id = events'[n].for => b = events'[n].to
        <3>1. n \in Posted /\ events'[n] = events[n]
            <4>1. n # Len(events) + 1
                BY <2>1, <2>2, <2>5, ZenonT(60)
            <4>. QED  BY <2>2, <4>1, ZenonT(60)
        <3>. QED  BY <2>3, <2>5, <3>1, ZenonT(60) DEF RepliesAreAddressed
    <2>6. listener.at # End =>
            \A b \in Addrs : Listed(b)' /\ socket'[b].id = listener.id => b = listener.at
        BY <2>3, ZenonT(60) DEF RepliesAreAddressed
    <2>. QED  BY <2>4, <2>5, <2>6, ZenonT(60) DEF RepliesAreAddressed
<1>4. CASE MainEvent
    <2>1. \A n \in Posted' : n + 1 \in Posted /\ events'[n] = events[n + 1]
        BY <1>4, EventsLeft
    <2>2. \A b \in Addrs : Listed(b)' => Listed(b) /\ socket'[b].id = socket[b].id
        BY <1>4, EventHandled, Zenon DEF Same, Listed
    <2>3. UNCHANGED listener
        BY <1>4, EventHandled, Zenon
    <2>4. ASSUME NEW n \in Posted', events'[n].do = "write"
          PROVE  /\ events'[n].for # 0
                 /\ \A b \in Addrs : Listed(b)' /\ socket'[b].id = events'[n].for => b = events'[n].to
        <3>. DEFINE m == n + 1
        <3>1. m \in Posted /\ events'[n] = events[m]
            BY <2>1, Zenon
        <3>. HIDE DEF m
        <3>2. /\ events[m].for # 0
              /\ \A b \in Addrs : Listed(b) /\ socket[b].id = events[m].for => b = events[m].to
            BY <2>4, <3>1, Zenon DEF RepliesAreAddressed
        <3>. QED  BY <2>2, <3>1, <3>2, Zenon
    <2>. QED  BY <2>2, <2>3, <2>4, ZenonT(60) DEF RepliesAreAddressed
<1>5. ASSUME NEW a \in Addrs, onWebsocketMessageReceived(a)
      PROVE  RepliesAreAddressed'
    BY <1>5, Zenon DEF onWebsocketMessageReceived, clients, RepliesAreAddressed, Listed, Posted
<1>6. CASE LinkLost \/ (\E i \in Ids : Reply(i)) \/ UNCHANGED vars
    BY <1>6, ZenonT(60) DEF LinkLost, Reply, vars, clients, RepliesAreAddressed, Listed, Posted
<1>7. CASE ListenerThread
    <2>1. UNCHANGED socket
        BY <1>7, ListenerEffect
    <2>2. \A a, b \in Addrs : InMap(a) /\ Listed(b) /\ socket[b].id = connections[a] => b = a
        BY ZenonT(60) DEF EntriesAreSockets, IdsAreGiven, Listed
    <2>3. listener'.at # End =>
            /\ listener'.id # 0
            /\ \A b \in Addrs : Listed(b) /\ socket[b].id = listener'.id => b = listener'.at
        BY <1>7, <2>2, ListenerMoves, Zenon DEF Moves, RepliesAreAddressed, InMap
    <2>4. /\ listener'.pc = "lookup" => listener'.for # 0
          /\ listener'.pc = "found" => listener'.at # End /\ listener'.id = listener'.for
        BY <1>7, ListenerMoves, Zenon DEF Moves
    <2>5. \A n \in Posted' : events'[n].do = "write" =>
            /\ events'[n].for # 0
            /\ \A b \in Addrs : Listed(b) /\ socket[b].id = events'[n].for => b = events'[n].to
        <3>1. CASE UNCHANGED events
            BY <3>1, ZenonT(60) DEF RepliesAreAddressed, Posted
        <3>2. CASE mg_websocket_write
            <4>. DEFINE e == [do |-> "write", to |-> listener.at, for |-> listener.for]
            <4>1. e \in Event /\ Post(e) /\ e.to = listener.at /\ e.for = listener.for
                BY <3>2, ZenonT(60) DEF mg_websocket_write, RepliesAreAddressed, ProxyTypeOK, Listener, Event
            <4>. HIDE DEF e
            <4>2. listener.at # End /\ listener.id = listener.for
                BY <3>2, Z3T(60) DEF mg_websocket_write, RepliesAreAddressed
            <4>3. /\ Posted' = Posted \cup {Len(events) + 1}
                  /\ \A n \in Posted : events'[n] = events[n]
                  /\ events'[Len(events) + 1] = e
                BY <4>1, EventPosted, Z3T(60)
            <4>. QED  BY <4>1, <4>2, <4>3 DEF RepliesAreAddressed
        <3>3. CASE CloseNext
            <4>. DEFINE e == [do |-> "close", to |-> listener.at, for |-> 0]
            <4>1. e \in Event /\ Post(e) /\ e.do = "close"
                BY <3>3, ZenonT(60) DEF CloseNext, ProxyTypeOK, Listener, Event
            <4>. HIDE DEF e
            <4>. QED  BY <4>1, EventPosted, Z3T(60) DEF RepliesAreAddressed
        <3>. QED  BY <1>7, <3>1, <3>2, <3>3, Zenon DEF ListenerThread, ListenerStep, id_to_conn, LookupEnds,
                LookupFinds, LookupGoesOn, ReadFrame, ConnectionClosed, ClearAll, Crash, Reconnect, ReconnectFails
    <2>. QED  BY <2>1, <2>3, <2>4, <2>5, Zenon DEF RepliesAreAddressed, Listed
<1>. QED  BY <1>1, <1>2, <1>3, <1>4, <1>5, <1>6, <1>7, Z3T(60) DEF ProxyNext, Touched, ListenerThread

LEMMA NextStolen ==
    ASSUME Inv, [ProxyNext]_vars
    PROVE  NoReplyStolen'
<1>inv. /\ ProxyTypeOK /\ IdsAreGiven /\ DeletesAreDoomed /\ EntriesAreSockets /\ LinkIsFresh
        /\ NoCarryOver /\ ServerForgetsTheGone /\ RepliesAreAddressed /\ NoReplyStolen
        /\ PassedAreClosed /\ MuteIsClosed
    BY DEF Inv
<1>. USE <1>inv
<1>1. ASSUME NEW a \in Addrs, onNewConnection(a)
      PROVE  NoReplyStolen'
    <2>1. /\ socket'[a].id = lastId + 1
          /\ \A b \in Addrs \ {a} : socket'[b] = socket[b]
          /\ UNCHANGED misdelivered
        BY <1>1, NewSocket, Zenon
    <2>2. \A i \in Ids \cup {0} : i <= lastId => i # lastId + 1
        BY DEF ProxyTypeOK, Ids
    <2>3. \A m \in misdelivered : m[1] \in Ids
        BY Zenon DEF ProxyTypeOK
    <2>4. \A m \in misdelivered : m[1] # lastId + 1
        BY <2>2, <2>3, Zenon DEF IdsAreGiven
    <2>. QED  BY <2>1, <2>4, ZenonT(60) DEF NoReplyStolen, Listed
<1>2. CASE MainEvent
    <2>1. \A b \in Addrs : Listed(b)' => Listed(b) /\ socket'[b].id = socket[b].id
        BY <1>2, EventHandled, Zenon DEF Same, Listed
    <2>2. \A m \in misdelivered' : ~\E b \in Addrs : Listed(b) /\ socket[b].id = m[1]
        <3>1. CASE misdelivered' = misdelivered
            BY <3>1, Z3T(60) DEF NoReplyStolen
        <3>2. CASE misdelivered' # misdelivered
            <4>1. /\ events[1].do = "write" /\ socket[events[1].to].id # events[1].for
                  /\ misdelivered' = misdelivered \cup {<<events[1].for, socket[events[1].to].id>>}
                BY <1>2, <3>2, EventHandled
            <4>2. \A b \in Addrs : Listed(b) /\ socket[b].id = events[1].for => b = events[1].to
                BY <1>2, <4>1, EventsLeft, Zenon DEF RepliesAreAddressed
            <4>. QED  BY <4>1, <4>2, Z3T(60) DEF NoReplyStolen
        <3>. QED  BY <3>1, <3>2, Zenon
    <2>. QED  BY <2>1, <2>2, Zenon DEF NoReplyStolen
<1>3. ASSUME \A b \in Addrs : Listed(b)' => Listed(b) /\ socket'[b].id = socket[b].id,
             UNCHANGED misdelivered
      PROVE  NoReplyStolen'
    BY <1>3, ZenonT(60) DEF NoReplyStolen
<1>4. ASSUME NEW a \in Addrs, Touched(a)
      PROVE  NoReplyStolen'
    BY <1>3, <1>4, TouchedIsSame DEF Same, Listed
<1>5. ASSUME NEW a \in Addrs, onWebsocketDisconnected(a)
      PROVE  NoReplyStolen'
    BY <1>3, <1>5, SocketDoomed, ZenonT(60) DEF Listed
<1>6. ASSUME NEW a \in Addrs, onWebsocketMessageReceived(a)
      PROVE  NoReplyStolen'
    BY <1>3, <1>6, Z3T(60) DEF onWebsocketMessageReceived, clients, Listed
<1>7. CASE LinkLost \/ (\E i \in Ids : Reply(i)) \/ UNCHANGED vars
    BY <1>3, <1>7, Z3T(60) DEF LinkLost, Reply, vars, clients, Listed
<1>8. CASE ListenerThread
    BY <1>3, <1>8, ListenerEffect, Zenon DEF Listed
<1>. QED  BY <1>1, <1>2, <1>4, <1>5, <1>6, <1>7, <1>8, Z3T(60) DEF ProxyNext, Touched, ListenerThread

\* A closing that was posted stays posted until it is handled, and then the
\* socket is not open.
LEMMA PostKeepsClosings ==
    ASSUME ProxyTypeOK, NEW e \in Event, Post(e)
    PROVE  /\ \A a \in Addrs : ToBeClosed(a) => ToBeClosed(a)'
           /\ e.do = "close" => ToBeClosed(e.to)'
    BY EventPosted, Zenon DEF ToBeClosed

LEMMA ClosingHandled ==
    ASSUME ProxyTypeOK, MainEvent, NEW a \in Addrs, ToBeClosed(a), Listed(a)', socket'[a].state = "open"
    PROVE  ToBeClosed(a)'
<1>1. PICK n \in Posted : events[n].do = "close" /\ events[n].to = a
    BY Zenon DEF ToBeClosed
<1>2. n # 1
    <2>. SUFFICES ASSUME n = 1 PROVE FALSE
        OBVIOUS
    <2>1. Same(a) /\ (Listed(a) => socket'[a].state = "closing")
        BY <1>1, EventHandled, Zenon
    <2>. QED  BY <2>1, Zenon DEF Same
<1>3. n - 1 \in Posted' /\ events'[n - 1] = events[n]
    BY <1>2, EventsLeft, Zenon
<1>. QED  BY <1>1, <1>3, Zenon DEF ToBeClosed

\* What the steps of the others leave: the clients that are open were so
\* before, unless they are new, and their closings are still posted.
LEMMA OthersKeepClosings ==
    ASSUME Inv, [ProxyNext]_vars, ~ListenerThread, NEW a \in Addrs, Listed(a)', socket'[a].state = "open"
    PROVE  \/ onNewConnection(a)
           \/ /\ Listed(a) /\ socket[a].state = "open" /\ socket'[a].late = socket[a].late
              /\ InMap(a)' <=> InMap(a)
              /\ UNCHANGED <<listener, wild>>
              /\ ToBeClosed(a) => ToBeClosed(a)'
<1>inv. /\ ProxyTypeOK /\ IdsAreGiven /\ DeletesAreDoomed /\ EntriesAreSockets /\ LinkIsFresh
        /\ NoCarryOver /\ ServerForgetsTheGone /\ RepliesAreAddressed /\ NoReplyStolen
        /\ PassedAreClosed /\ MuteIsClosed
    BY DEF Inv
<1>. USE <1>inv
<1>1. ASSUME NEW b \in Addrs, onNewConnection(b), b # a
      PROVE  /\ socket'[a] = socket[a] /\ connections'[a] = connections[a]
             /\ UNCHANGED <<events, listener, wild>>
    BY <1>1, NewSocket, ZenonT(60)
<1>2. ASSUME NEW b \in Addrs, Touched(b)
      PROVE  Same(a) /\ UNCHANGED <<connections, events, listener, wild>>
    BY <1>2, TouchedIsSame, Zenon
<1>3. ASSUME NEW b \in Addrs, onWebsocketDisconnected(b)
      PROVE  /\ socket'[a] = socket[a] /\ connections'[a] = connections[a]
             /\ UNCHANGED <<listener, wild>>
             /\ ToBeClosed(a) => ToBeClosed(a)'
    <2>1. a # b
        BY <1>3, SocketDoomed, ZenonT(60) DEF Listed
    <2>. DEFINE e == [do |-> "delete", to |-> b, for |-> 0]
    <2>2. e \in Event /\ Post(e)
        BY <1>3, SocketDoomed, ZenonT(60)
    <2>. HIDE DEF e
    <2>3. ToBeClosed(a) => ToBeClosed(a)'
        BY <2>2, PostKeepsClosings, Z3T(60)
    <2>. QED  BY <1>3, <2>1, <2>3, SocketDoomed, Zenon
<1>4. CASE MainEvent
    <2>1. ToBeClosed(a) => ToBeClosed(a)'
        BY <1>4, ClosingHandled
    <2>2. UNCHANGED <<connections, listener, wild>>
        BY <1>4, EventHandled, Zenon
    <2>3. Same(a) \/ socket'[a] = socket[a]
        BY <1>4, EventHandled, ZenonT(60) DEF Listed
    <2>4. Listed(a) /\ socket[a].state = "open" /\ socket'[a].late = socket[a].late
        BY <2>3 DEF Same, Listed
    <2>. QED  BY <2>1, <2>2, <2>4, ZenonT(60) DEF InMap
<1>5. CASE \/ \E b \in Addrs : onWebsocketMessageReceived(b)
           \/ LinkLost \/ (\E i \in Ids : Reply(i)) \/ UNCHANGED vars
    BY <1>5, Zenon DEF onWebsocketMessageReceived, LinkLost, Reply, vars, clients, Listed, InMap, ToBeClosed, Posted
<1>6. ASSUME NEW b \in Addrs, onNewConnection(b), b # a
      PROVE  /\ Listed(a) /\ socket[a].state = "open" /\ socket'[a].late = socket[a].late
             /\ InMap(a)' <=> InMap(a)
             /\ UNCHANGED <<listener, wild>>
             /\ ToBeClosed(a) => ToBeClosed(a)'
    BY <1>1, <1>6, ZenonT(60) DEF Listed, InMap, ToBeClosed, Posted
<1>7. ASSUME NEW b \in Addrs, Touched(b)
      PROVE  /\ Listed(a) /\ socket[a].state = "open" /\ socket'[a].late = socket[a].late
             /\ InMap(a)' <=> InMap(a)
             /\ UNCHANGED <<listener, wild>>
             /\ ToBeClosed(a) => ToBeClosed(a)'
    BY <1>2, <1>7 DEF Same, Listed, InMap, ToBeClosed, Posted
<1>8. ASSUME NEW b \in Addrs, onWebsocketDisconnected(b)
      PROVE  /\ Listed(a) /\ socket[a].state = "open" /\ socket'[a].late = socket[a].late
             /\ InMap(a)' <=> InMap(a)
             /\ UNCHANGED <<listener, wild>>
             /\ ToBeClosed(a) => ToBeClosed(a)'
    BY <1>3, <1>8, Zenon DEF Listed, InMap
<1>. QED  BY <1>4, <1>5, <1>6, <1>7, <1>8, ZenonT(60) DEF ProxyNext, Touched, ListenerThread

\* The listener's steps keep the closings and never take back wild.
LEMMA ListenerKeepsClosings ==
    ASSUME ProxyTypeOK, RepliesAreAddressed, ListenerThread
    PROVE  /\ \A a \in Addrs : ToBeClosed(a) => ToBeClosed(a)'
           /\ wild => wild'
<1>1. \A a \in Addrs : ToBeClosed(a) => ToBeClosed(a)'
    <2>1. CASE UNCHANGED events
        BY <2>1 DEF ToBeClosed, Posted
    <2>. QED  BY <2>1, ListenerEffect, PostKeepsClosings, Zenon
<1>2. wild => wild'
    BY ZenonT(60) DEF ListenerThread, ListenerStep, ReadFrame, id_to_conn, LookupEnds, LookupFinds, LookupGoesOn,
           mg_websocket_write, ConnectionClosed, CloseNext, ClearAll, Crash, Reconnect, ReconnectFails
<1>. QED  BY <1>1, <1>2, Z3T(60)

LEMMA NextPassed ==
    ASSUME Inv, [ProxyNext]_vars
    PROVE  PassedAreClosed'
<1>inv. /\ ProxyTypeOK /\ IdsAreGiven /\ DeletesAreDoomed /\ EntriesAreSockets /\ LinkIsFresh
        /\ NoCarryOver /\ ServerForgetsTheGone /\ RepliesAreAddressed /\ NoReplyStolen
        /\ PassedAreClosed /\ MuteIsClosed
    BY DEF Inv
<1>. USE <1>inv
<1>. SUFFICES ASSUME listener'.pc = "reset", ~wild', NEW a \in Addrs,
                     Listed(a)', socket'[a].state = "open", ~socket'[a].late,
                     listener'.at = End \/ a < listener'.at
              PROVE  ToBeClosed(a)'
    BY Zenon DEF PassedAreClosed
<1>1. CASE ~ListenerThread
    <2>1. CASE onNewConnection(a)
        BY <2>1, NewSocket, Z3T(60)
    <2>2. CASE ~onNewConnection(a)
        <3>1. /\ Listed(a) /\ socket[a].state = "open" /\ ~socket[a].late
              /\ UNCHANGED <<listener, wild>>
              /\ ToBeClosed(a) => ToBeClosed(a)'
            BY <1>1, <2>2, OthersKeepClosings, ZenonT(60)
        <3>. QED  BY <3>1 DEF PassedAreClosed
    <2>. QED  BY <2>1, <2>2, Z3T(60)
<1>2. CASE ListenerThread
    <2>1. /\ Listed(a) /\ socket[a].state = "open" /\ ~socket[a].late /\ ~wild
          /\ ToBeClosed(a) => ToBeClosed(a)'
        BY <1>2, ListenerEffect, ListenerKeepsClosings, Z3T(60) DEF Listed
    <2>2. ~InMap(a) => ToBeClosed(a)
        BY <2>1, Z3T(60) DEF MuteIsClosed, ToBeClosed, Posted
    <2>3. CASE ConnectionClosed \/ ReconnectFails
        <3>1. listener'.at = Begin
            <4>1. listener' = At("reset", Begin, 0)
                BY <2>3, ZenonT(60) DEF ConnectionClosed, ReconnectFails
            <4>. DEFINE b == Begin
            <4>2. listener' = At("reset", b, 0)
                BY <4>1, Z3T(60)
            <4>. HIDE DEF b
            <4>3. listener'.at = b
                BY <4>2, Zenon DEF At
            <4>. QED  BY <4>3 DEF b
        <3>2. ~InMap(a)
            BY <3>1, BeginIsFirst, AddrsAssumption, Z3T(60)
        <3>. QED  BY <2>1, <2>2, <3>2, Z3T(60)
    <2>4. CASE CloseNext
        <3>1. PICK b \in EntryAfter : listener' = At("reset", b, 0)
            BY <2>4, Zenon DEF CloseNext
        <3>2. listener'.at = b /\ listener.at \in Addrs /\ listener.pc = "reset"
            BY <2>4, <3>1, Zenon DEF CloseNext, At, ProxyTypeOK, Listener
        <3>3. ~Stale
            BY <2>4, Zenon DEF CloseNext
        <3>4. CASE InMap(a)
            <4>1. ~(a > listener.at)
                <5>1. b \in Addrs \cup {End} /\ (a > listener.at => b # End /\ b <= a)
                    BY <3>2, <3>3, <3>4, EntryAfterIsNext, Zenon
                <5>2. a \in Nat /\ (b # End => b \in Nat)
                    BY <5>1, AddrsAssumption, Zenon
                <5>3. b = End \/ a < b
                    BY <3>2, Z3T(60)
                <5>. QED  BY <5>1, <5>2, <5>3, SMTT(60)
            <4>2. CASE a = listener.at
                <5>. DEFINE e == [do |-> "close", to |-> a, for |-> 0]
                <5>1. e \in Event /\ Post(e) /\ e.do = "close" /\ e.to = a
                    BY <2>4, <4>2, ZenonT(60) DEF CloseNext, Event
                <5>. HIDE DEF e
                <5>. QED  BY <5>1, PostKeepsClosings
            <4>3. CASE a < listener.at
                BY <2>1, <3>2, <4>3, Z3T(60) DEF PassedAreClosed
            <4>4. a > listener.at \/ a = listener.at \/ a < listener.at
                <5>. DEFINE at == listener.at
                <5>1. a \in Nat /\ at \in Nat
                    BY <3>2, AddrsAssumption, Zenon
                <5>. HIDE DEF at
                <5>2. a > at \/ a = at \/ a < at
                    BY <5>1, SMTT(60)
                <5>. QED  BY <5>2 DEF at
            <4>. QED  BY <4>1, <4>2, <4>3, <4>4, ZenonT(60)
        <3>. QED  BY <2>1, <2>2, <3>4, Zenon
    <2>5. CASE ReadFrame \/ id_to_conn \/ mg_websocket_write \/ ClearAll \/ Crash \/ Reconnect
        BY <2>5, SMTT(60) DEF ReadFrame, id_to_conn, LookupEnds, LookupFinds, LookupGoesOn, mg_websocket_write, ClearAll,
                    Crash, Reconnect, At, ProxyTypeOK, Listener
    <2>. QED  BY <1>2, <2>3, <2>4, <2>5, Z3T(60) DEF ListenerThread, ListenerStep
<1>. QED  BY <1>1, <1>2, Z3T(60)

LEMMA NextMute ==
    ASSUME Inv, [ProxyNext]_vars
    PROVE  MuteIsClosed'
<1>inv. /\ ProxyTypeOK /\ IdsAreGiven /\ DeletesAreDoomed /\ EntriesAreSockets /\ LinkIsFresh
        /\ NoCarryOver /\ ServerForgetsTheGone /\ RepliesAreAddressed /\ NoReplyStolen
        /\ PassedAreClosed /\ MuteIsClosed
    BY DEF Inv
<1>. USE <1>inv
<1>. SUFFICES ASSUME NEW a \in Addrs, Listed(a)', socket'[a].state = "open", ~InMap(a)',
                     ~socket'[a].late, ~wild'
              PROVE  ToBeClosed(a)'
    BY ZenonT(60) DEF MuteIsClosed, ToBeClosed, Posted
<1>1. CASE ~ListenerThread
    <2>1. ~onNewConnection(a)
        BY NewSocket DEF InMap, ProxyTypeOK
    <2>2. /\ Listed(a) /\ socket[a].state = "open" /\ ~socket[a].late /\ ~InMap(a)
          /\ UNCHANGED wild
          /\ ToBeClosed(a) => ToBeClosed(a)'
        BY <1>1, <2>1, OthersKeepClosings, ZenonT(60)
    <2>. QED  BY <2>2, Z3T(60) DEF MuteIsClosed, ToBeClosed, Posted
<1>2. CASE ListenerThread
    <2>1. /\ Listed(a) /\ socket[a].state = "open" /\ ~socket[a].late /\ ~wild
          /\ ToBeClosed(a) => ToBeClosed(a)'
        BY <1>2, ListenerEffect, ListenerKeepsClosings, Zenon DEF Listed
    <2>2. ~InMap(a) => ToBeClosed(a)
        BY <2>1, Zenon DEF MuteIsClosed, ToBeClosed, Posted
    <2>3. CASE ClearAll
        BY <2>1, <2>3, Z3T(60) DEF ClearAll, PassedAreClosed
    <2>4. CASE UNCHANGED connections
        BY <2>1, <2>2, <2>4, Zenon DEF InMap
    <2>. QED  BY <1>2, <2>3, <2>4, Z3T(60) DEF ListenerThread, ListenerStep, id_to_conn, LookupEnds, LookupFinds,
            LookupGoesOn, ReadFrame, mg_websocket_write, ConnectionClosed, CloseNext, Crash, Reconnect,
            ReconnectFails, clients
<1>. QED  BY <1>1, <1>2, Z3T(60)

LEMMA InitInv == ProxyInit => Inv
<1>. SUFFICES ASSUME ProxyInit PROVE Inv
    OBVIOUS
<1>1. ProxyTypeOK
    BY InitTypes, Z3T(60)
<1>2. /\ \A a \in Addrs : socket[a] = NoSocket /\ connections[a] = 0
      /\ events = <<>> /\ Posted = {} /\ replies = <<>>
      /\ listener.at = End /\ listener.id = 0 /\ listener.for = 0
      /\ listener.pc = IF link = "up" THEN "read" ELSE "reset"
    BY SMTT(60) DEF ProxyInit, At, Posted
<1>3. IdsAreGiven
    BY <1>2, Z3T(60) DEF ProxyInit, IdsAreGiven
<1>4. DeletesAreDoomed /\ EntriesAreSockets
    BY <1>2, ZenonT(60) DEF DeletesAreDoomed, EntriesAreSockets, InMap
<1>5. LinkIsFresh /\ NoCarryOver /\ ServerForgetsTheGone
    BY <1>2, Z3T(60) DEF ProxyInit, LinkIsFresh, NoCarryOver, ServerForgetsTheGone
<1>6. RepliesAreAddressed /\ NoReplyStolen
    BY <1>2, Z3T(60) DEF ProxyInit, RepliesAreAddressed, NoReplyStolen
<1>7. PassedAreClosed /\ MuteIsClosed
    BY <1>2, Z3T(60) DEF PassedAreClosed, MuteIsClosed, Listed
<1>. QED  BY <1>1, <1>3, <1>4, <1>5, <1>6, <1>7, Zenon DEF Inv

LEMMA NextInv == Inv /\ [ProxyNext]_vars => Inv'
<1>. SUFFICES ASSUME Inv, [ProxyNext]_vars PROVE Inv'
    OBVIOUS
<1>1. ProxyTypeOK'
    BY NextTypes DEF Inv
<1>. QED  BY <1>1, NextDeletes, NextEntries, NextIds, NextLink, NextCarryOver, NextForgets, NextReplies,
            NextStolen, NextPassed, NextMute, SMTT(60) DEF Inv

LEMMA InvHolds == ProxySpec => []Inv
    BY InitInv, NextInv, PTL DEF ProxySpec

----------------------------------------------------------------------------
(* The theorems.                                                           *)

\* The map only ever names sockets that are listed, under their own ids
\* (add_connection, remove_connection): no address is used again while an
\* entry for it is left.
THEOREM MapNamesSockets == ProxySpec => []EntriesAreSockets
    BY InvHolds, PTL DEF Inv

\* A client that is gone is forgotten by the server, whenever it went: the
\* frame under its id, or the loss of the link, is never missed
\* (websocket_disconnect_callback).
THEOREM ServerForgets == ProxySpec => []ServerForgetsTheGone
    BY InvHolds, PTL DEF Inv

\* An id used on a connection to the server was never used on an earlier one
\* (TRM_response_listener, remove_all_connections).
THEOREM IdsEndWithTheLink == ProxySpec => []NoCarryOver
    BY InvHolds, PTL DEF Inv

\* Although the listener looks the address up without a lock, and the write
\* is done later, a reply goes astray only when its client is gone
\* (id_to_conn, onWebsocketHasDataToWrite).
THEOREM RepliesNotStolen == ProxySpec => []NoReplyStolen
    BY InvHolds, PTL DEF Inv

\* A reset of the clients that reads no erased entry leaves none behind that
\* was there when it began (remove_all_connections).
THEOREM ResetLeavesNobody == ProxySpec => []MuteIsClosed
    BY InvHolds, PTL DEF Inv
============================================================================
