------------------------------- MODULE Proxy -------------------------------
(***************************************************************************)
(* The WebSocket proxy, which carries the remote clients over one          *)
(* connection to the TRM server.  The Qt main thread owns the web sockets; *)
(* a listener thread reads the replies of the server and resets everything *)
(* when the server is lost.  They share the map connections, and the       *)
(* listener posts events to the main thread.  AutoLock() declares a        *)
(* function and takes no lock, so a loop over the map may be interrupted   *)
(* between two entries.                                                    *)
(***************************************************************************)
EXTENDS Integers, Sequences, FiniteSets, FiniteSetsExt

CONSTANTS
    Addrs,       \* addresses a QWebSocket may get, reused after its deletion
    MaxClients,  \* bound: clients accepted
    MaxLinks,    \* bound: connections made to the server
    MaxReplies,  \* bound: replies of the server on their way to a client
    PingLimit,   \* the timeouts after which PingPongTask closes the socket
    NoSocket,    \* no object at an address
    End          \* the end iterator of the map

ASSUME AddrsAssumption == Addrs \subseteq Nat /\ End \notin Addrs

ASSUME BoundsAssumption ==
    /\ MaxClients \in Nat
    /\ {MaxLinks, PingLimit} \subseteq Nat \ {0}

VARIABLES
    socket,       \* the QWebSocket at each address, with its ping-pong task
    connections,  \* the map of main.cpp, 0 for an address that is not in it
    lastId,       \* the counter of get_connection_id
    events,       \* posted to the main thread, first in first out
    link,         \* the connection to the server: "up", "lost" or "down"
    links,        \* how many of them were made
    known,        \* the client ids the server has in its map
    spoken,       \* the ids that were used on this link
    earlier,      \* the ids that were used on earlier links
    replies,      \* ids of the replies not yet read
    listener,     \* where the listener thread is
    wild,         \* an iterator was used after its entry was erased
    misdelivered  \* pairs of the client a reply was for and the one that got it

clients == <<socket, connections, lastId>>
server == <<link, links, known, spoken, earlier, replies>>
vars == <<clients, events, server, listener, wild, misdelivered>>

Ids == 1..MaxClients

\* A socket is in the QList, and has a ping-pong task, until it is doomed; late
\* records that it was accepted while the listener was resetting the others.
Socket == [id : Ids, state : {"open", "closing", "doomed"}, silent : BOOLEAN,
           retry : 0..PingLimit, late : BOOLEAN]

ASSUME NoSocketAssumption == NoSocket \notin Socket

Event == [do : {"write", "close", "delete"}, to : Addrs, for : Ids \cup {0}]

Listener == [pc : {"read", "lookup", "found", "reset", "sleep", "crashed"},
             at : Addrs \cup {End}, id : Ids \cup {0}, for : Ids \cup {0}]

\* The listener holds the iterator at, the id in the entry it points to, and
\* the id of the reply it is about.
At(pc, a, for) ==
    [pc |-> pc, at |-> a, id |-> IF a = End THEN 0 ELSE connections[a], for |-> for]

\* The types of the two threads' data (connection_ct_t, QList<QWebSocket *>).
ProxyTypeOK ==
    /\ socket \in [Addrs -> Socket \cup {NoSocket}]
    /\ connections \in [Addrs -> Ids \cup {0}]
    /\ lastId \in 0..MaxClients
    /\ events \in Seq(Event)
    /\ link \in {"up", "lost", "down"}
    /\ links \in 0..MaxLinks
    /\ known \subseteq spoken /\ spoken \subseteq Ids /\ earlier \subseteq Ids
    /\ replies \in Seq(Ids)
    /\ listener \in Listener
    /\ wild \in BOOLEAN
    /\ misdelivered \subseteq Ids \X Ids

Running == listener.pc # "crashed"

InMap(a) == connections[a] # 0

\* QList<QWebSocket *> connections of WebSocketProxy
Listed(a) == socket[a] # NoSocket /\ socket[a].state # "doomed"

Post(e) == events' = Append(events, e)

\* The iteration over a std::map ordered by address, at the entry after a.
After(a) ==
    LET later == {b \in Addrs : b > a /\ InMap(b)}
    IN  IF later = {} THEN End ELSE Min(later)

Begin == IF \A a \in Addrs : ~InMap(a) THEN End ELSE Min({a \in Addrs : InMap(a)})

\* main connects before it starts the listener, which begins with the reset
\* when that failed.
ProxyInit ==
    /\ socket = [a \in Addrs |-> NoSocket]
    /\ connections = [a \in Addrs |-> 0]
    /\ lastId = 0
    /\ events = <<>>
    /\ link \in {"up", "down"}
    /\ links = IF link = "up" THEN 1 ELSE 0
    /\ known = {} /\ spoken = {} /\ earlier = {}
    /\ replies = <<>>
    /\ listener = At(IF link = "up" THEN "read" ELSE "reset", End, 0)
    /\ wild = FALSE
    /\ misdelivered = {}

----------------------------------------------------------------------------
\* The main thread.

\* WebSocketProxy::onNewConnection and add_connection: a map that already has
\* the address keeps the id it has.
onNewConnection(a) ==
    /\ Running
    /\ socket[a] = NoSocket
    /\ lastId < MaxClients
    /\ lastId' = lastId + 1
    /\ socket' = [socket EXCEPT ![a] = [id |-> lastId', state |-> "open", silent |-> FALSE, retry |-> 0,
                                             late |-> listener.pc = "reset"]]
    /\ connections' = [connections EXCEPT ![a] = IF InMap(a) THEN @ ELSE lastId']
    /\ UNCHANGED <<events, server, listener, wild, misdelivered>>

\* websocket_data_callback: without an id the message is dropped, and what is
\* written to a server that is gone is lost.
onWebsocketMessageReceived(a) ==
    /\ Running
    /\ Listed(a) /\ socket[a].state = "open" /\ ~socket[a].silent
    /\ InMap(a) /\ link = "up"
    /\ known' = known \cup {connections[a]}
    /\ spoken' = spoken \cup {connections[a]}
    /\ UNCHANGED <<clients, events, link, links, earlier, replies, listener, wild, misdelivered>>

\* The client closes its side, or stops answering without closing it.
PeerClose(a) ==
    /\ Running
    /\ Listed(a) /\ socket[a].state = "open"
    /\ socket' = [socket EXCEPT ![a].state = "closing"]
    /\ UNCHANGED <<connections, lastId, events, server, listener, wild, misdelivered>>

PeerSilent(a) ==
    /\ Running
    /\ Listed(a) /\ socket[a].state = "open" /\ ~socket[a].silent
    /\ socket' = [socket EXCEPT ![a].silent = TRUE]
    /\ UNCHANGED <<connections, lastId, events, server, listener, wild, misdelivered>>

\* Variant: only the event is written, not the empty frame.
ForgottenWithEventOnly(a) == {}

\* The id the server forgets, if it can be told.
Forgotten(a) == {i \in {connections[a]} : InMap(a) /\ link = "up"}

\* Variant: the entry stays in the map.
NothingRemoved(a) == connections

remove_connection(a) == [connections EXCEPT ![a] = 0]

\* websocket_disconnect_callback: the event and the empty frame are written
\* under the client's id, by which the server knows it and then forgets it.
onWebsocketDisconnected(a) ==
    /\ Running
    /\ Listed(a) /\ socket[a].state = "closing"
    /\ socket' = [socket EXCEPT ![a].state = "doomed"]
    /\ Post([do |-> "delete", to |-> a, for |-> 0])
    /\ known' = known \ Forgotten(a)
    /\ spoken' = spoken \cup Forgotten(a)
    /\ connections' = remove_connection(a)
    /\ UNCHANGED <<lastId, link, links, earlier, replies, listener, wild, misdelivered>>

\* The timer of the ping-pong task runs until the limit is reached.
MayTimeOut(a) == Listed(a) /\ socket[a].retry < PingLimit

\* Variant: the limit is never reached.
AfterTimeoutsAlways(a, n) == socket[a].state

AfterTimeouts(a, n) == IF n < PingLimit THEN socket[a].state ELSE "closing"

\* PingPongTask::onTimeout pings again, and at the limit closes the socket
\* and does not start its timer again; onPong starts the count afresh.
onTimeout(a) ==
    /\ Running
    /\ MayTimeOut(a)
    /\ socket' = [socket EXCEPT ![a].retry = @ + 1,
                               ![a].state = AfterTimeouts(a, socket[a].retry + 1)]
    /\ UNCHANGED <<connections, lastId, events, server, listener, wild, misdelivered>>

onPong(a) ==
    /\ Running
    /\ Listed(a) /\ socket[a].state = "open" /\ ~socket[a].silent
    /\ socket' = [socket EXCEPT ![a].retry = 0]
    /\ UNCHANGED <<connections, lastId, events, server, listener, wild, misdelivered>>

\* The posted events: a write or a close for an address that is not listed
\* does nothing.
onWebsocketHasDataToWrite(e) ==
    /\ e.do = "write"
    /\ misdelivered' = IF Listed(e.to) /\ socket[e.to].id # e.for
                         THEN misdelivered \cup {<<e.for, socket[e.to].id>>}
                         ELSE misdelivered
    /\ UNCHANGED socket

onRemoveConnection(e) ==
    /\ e.do = "close"
    /\ socket' = IF Listed(e.to) THEN [socket EXCEPT ![e.to].state = "closing"] ELSE socket
    /\ UNCHANGED misdelivered

DeferredDelete(e) ==
    /\ e.do = "delete"
    /\ socket' = [socket EXCEPT ![e.to] = NoSocket]
    /\ UNCHANGED misdelivered

MainEvent ==
    /\ Running
    /\ events # <<>>
    /\ \/ onWebsocketHasDataToWrite(Head(events))
       \/ onRemoveConnection(Head(events))
       \/ DeferredDelete(Head(events))
    /\ events' = Tail(events)
    /\ UNCHANGED <<connections, lastId, server, listener, wild>>

----------------------------------------------------------------------------
\* The server: it answers clients it knows, and may go away.
InFlight ==
    Len(replies) + Len(SelectSeq(events, LAMBDA e : e.do = "write"))
        + (IF listener.pc \in {"lookup", "found"} THEN 1 ELSE 0)

Reply(i) ==
    /\ Running
    /\ link = "up" /\ i \in known
    /\ InFlight < MaxReplies
    /\ replies' = Append(replies, i)
    /\ UNCHANGED <<clients, events, link, links, known, spoken, earlier, listener, wild, misdelivered>>

LinkLost ==
    /\ Running
    /\ link = "up"
    /\ link' = "lost"
    /\ known' = {}
    /\ spoken' = {}
    /\ earlier' = earlier \cup spoken
    /\ replies' \in {replies, <<>>}
    /\ UNCHANGED <<clients, events, links, listener, wild, misdelivered>>

----------------------------------------------------------------------------
\* The listener thread, TRM_response_listener.
ReadFrame ==
    /\ listener.pc = "read"
    /\ replies # <<>>
    /\ listener' = At("lookup", Begin, Head(replies))
    /\ replies' = Tail(replies)
    /\ UNCHANGED <<clients, events, link, links, known, spoken, earlier, wild, misdelivered>>

\* The entry the iterator is at was erased: its memory may still read as it
\* did, and the iterator goes on to any later entry, or the process dies.
Stale == listener.at # End /\ connections[listener.at] # listener.id

StaleNext == {End} \cup {b \in Addrs : b > listener.at /\ InMap(b)}

\* Variant: the loop stops after an entry.
NoEntryAfter == {End}

\* Where the iterator may be after the entry it is at.
EntryAfter == IF Stale THEN StaleNext ELSE {After(listener.at)}

Crash ==
    /\ listener.pc \in {"lookup", "reset"}
    /\ Stale
    /\ listener' = At("crashed", End, 0)
    /\ wild' = TRUE
    /\ UNCHANGED <<clients, events, server, misdelivered>>

\* id_to_conn, one entry at a time; a client that is not found may be one of
\* the TLS server's, for whom nothing of this changes.
LookupEnds ==
    /\ listener.pc = "lookup"
    /\ listener.at = End
    /\ listener' = At("read", End, 0)
    /\ UNCHANGED <<clients, events, server, wild, misdelivered>>

\* Variant: any entry will do.
MatchesAny == listener.at # End

Matches == listener.at # End /\ listener.id = listener.for

LookupFinds ==
    /\ listener.pc = "lookup"
    /\ Matches
    /\ wild' = (wild \/ Stale)
    /\ listener' = [listener EXCEPT !.pc = "found"]
    /\ UNCHANGED <<clients, events, server, misdelivered>>

LookupGoesOn ==
    /\ listener.pc = "lookup"
    /\ listener.at # End /\ ~Matches
    /\ wild' = (wild \/ Stale)
    /\ \E b \in EntryAfter : listener' = At("lookup", b, listener.for)
    /\ UNCHANGED <<clients, events, server, misdelivered>>

id_to_conn == LookupEnds \/ LookupFinds \/ LookupGoesOn

mg_websocket_write ==
    /\ listener.pc = "found"
    /\ Post([do |-> "write", to |-> listener.at, for |-> listener.for])
    /\ listener' = At("read", End, 0)
    /\ UNCHANGED <<clients, server, wild, misdelivered>>

\* read returns 0 or less: close the socket and start over.
ConnectionClosed ==
    /\ listener.pc = "read"
    /\ link = "lost" /\ replies = <<>>
    /\ link' = "down"
    /\ listener' = At("reset", Begin, 0)
    /\ UNCHANGED <<clients, events, links, known, spoken, earlier, replies, wild, misdelivered>>

\* remove_all_connections: a close is posted for each entry, and then the map
\* is cleared.
CloseNext ==
    /\ listener.pc = "reset"
    /\ listener.at # End
    /\ Post([do |-> "close", to |-> listener.at, for |-> 0])
    /\ wild' = (wild \/ Stale)
    /\ \E b \in EntryAfter : listener' = At("reset", b, 0)
    /\ UNCHANGED <<clients, server, misdelivered>>

\* Variant: the closed clients stay in the map until they disconnect.
NotCleared == connections

Cleared == [a \in Addrs |-> 0]

ClearAll ==
    /\ listener.pc = "reset"
    /\ listener.at = End
    /\ connections' = Cleared
    /\ listener' = [listener EXCEPT !.pc = "sleep"]
    /\ UNCHANGED <<socket, lastId, events, server, wild, misdelivered>>

\* sleep(10) and connect_to_trm; after a failure everything is reset again.
Reconnect ==
    /\ listener.pc = "sleep"
    /\ links < MaxLinks
    /\ link' = "up"
    /\ links' = links + 1
    /\ listener' = [listener EXCEPT !.pc = "read"]
    /\ UNCHANGED <<clients, events, known, spoken, earlier, replies, wild, misdelivered>>

ReconnectFails ==
    /\ listener.pc = "sleep"
    /\ listener' = At("reset", Begin, 0)
    /\ UNCHANGED <<clients, events, server, wild, misdelivered>>

ListenerStep ==
    \/ ReadFrame \/ id_to_conn \/ mg_websocket_write
    \/ ConnectionClosed \/ CloseNext \/ ClearAll \/ Crash

ProxyNext ==
    \/ \E a \in Addrs :
        \/ onNewConnection(a) \/ onWebsocketMessageReceived(a)
        \/ PeerClose(a) \/ PeerSilent(a) \/ onWebsocketDisconnected(a)
        \/ onTimeout(a) \/ onPong(a)
    \/ MainEvent
    \/ LinkLost \/ \E i \in Ids : Reply(i)
    \/ ListenerStep \/ Reconnect \/ ReconnectFails

ProxySpec == ProxyInit /\ [][ProxyNext]_vars

\* The event loop serves every socket in the end, be it the report that it was
\* closed or its ping-pong timer; the other steps of the two threads need no
\* fairness.
FairProxySpec ==
    /\ ProxySpec
    /\ \A a \in Addrs : WF_vars(onWebsocketDisconnected(a) \/ onTimeout(a))

----------------------------------------------------------------------------
\* An entry of the map is the id of a socket that still exists and is listed,
\* so that the listener never posts to a deleted socket that was never reused
\* (onWebsocketDisconnected, add_connection).
EntriesAreSockets ==
    \A a \in Addrs : InMap(a) => Listed(a) /\ socket[a].id = connections[a]

\* Every client the server has in its map is one the proxy can still reach, so
\* that a client that is gone does not keep its reservations
\* (websocket_disconnect_callback).
ServerForgetsTheGone == \A i \in known : \E a \in Addrs : connections[a] = i

\* No client goes on under its old id with a server that was restarted: it is
\* out of the map before the next connection is made (TRM_response_listener).
NoCarryOver == spoken \cap earlier = {}

\* A reply is given to another client only when the one it was for is gone and
\* its address in use again (onWebsocketHasDataToWrite).
NoReplyStolen ==
    \A m \in misdelivered : ~\E a \in Addrs : Listed(a) /\ socket[a].id = m[1]

\* A client that is connected and no longer in the map, whose messages are all
\* dropped, is about to be closed, unless it came while the listener was
\* resetting the others or an erased entry was read (remove_all_connections).
MuteIsClosed ==
    \A a \in Addrs : (Listed(a) /\ socket[a].state = "open" /\ ~InMap(a))
        => \/ \E n \in 1..Len(events) : events[n].do = "close" /\ events[n].to = a
           \/ socket[a].late
           \/ wild

\* A client that stops answering is disconnected (PingPongTask::onTimeout).
SilentEvicted ==
    \A i \in Ids : (\E a \in Addrs : Listed(a) /\ socket[a].id = i /\ socket[a].silent)
        ~> (~Running \/ ~\E a \in Addrs : Listed(a) /\ socket[a].id = i)
============================================================================
