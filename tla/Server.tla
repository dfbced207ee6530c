-------------------------------- MODULE Server --------------------------------
(***************************************************************************)
(* The transport of the server: the framing done by each Connection        *)
(* (src/qtapp/common/Connection.cpp), and the Server's map from clients to *)
(* connections (src/qtapp/srv/Server.cpp).                                 *)
(*                                                                         *)
(* Peers (the recorder, the proxies, which multiplex many clients) write   *)
(* frames, a header and a payload; a frame with an empty payload says that *)
(* its client is gone.  The bytes arrive in chunks.  onReadyRead runs to   *)
(* its end, deliveries included, before the event loop does anything else: *)
(* it calls itself by emitting readyRead, and each such call is a step     *)
(* made while reading names the connection.  A disconnection reaches the   *)
(* Server as a queued signal, after the socket has closed and possibly     *)
(* after the client has already come back on a new connection.             *)
(***************************************************************************)
EXTENDS Integers, Sequences

CONSTANTS
    Clients,        \* the client ids
    Recorder,       \* kRecorderClientId
    MaxConns,       \* bound: the connections ever made
    HeaderLength,   \* kHeaderLength
    Payloads,       \* payload lengths
    MaxFrames       \* bound: the frames ever sent

ASSUME RecorderAssumption == Recorder \in Clients
ASSUME MaxConnsAssumption == MaxConns \in Nat
ASSUME MaxFramesAssumption == MaxFrames \in Nat
ASSUME LengthAssumption ==
    HeaderLength \in Nat \ {0} /\ Payloads \subseteq Nat /\ 0 \in Payloads

Conns == 1 .. MaxConns
NoConn == 0     \* no connection

VARIABLES
    home,           \* the connection a client uses
    peer,           \* the peer's end of a connection: "none", "open", "closed"
    wire,           \* bytes on their way
    available,      \* bytes that wait in the server's socket
    state,          \* state of the Connection object
    expected,       \* dataLength of the state
    buffer,         \* messageByteArray
    reading,        \* the connection whose onReadyRead is running
    connections,    \* Server::connections
    connectionClientMap,
    disconnects,    \* queued disconnected signals
    holds,          \* the clients that own reservations in the Manager
    sent,           \* history: frames written to a connection
    written,        \* history: how many frames were written
    delivered       \* history: messages handed to onMessageReceived

network == <<home, peer, wire, sent, written>>
framing == <<available, state, expected, buffer, reading, delivered>>
server == <<connections, connectionClientMap, disconnects, holds>>
vars == <<network, framing, server>>

-----------------------------------------------------------------------------

\* A frame and its bytes; a byte of the header tells the whole frame, since
\* only a complete header is ever interpreted.
Frames == [client : Clients, length : Payloads, id : 1 .. MaxFrames]
Bytes(f) == [p \in 1 .. HeaderLength + f.length |-> [frame |-> f, pos |-> p]]

\* Header::deserialize accepts exactly the bytes of a header.
deserializes(bytes) ==
    /\ Len(bytes) = HeaderLength
    /\ bytes = SubSeq(Bytes(bytes[1].frame), 1, HeaderLength)

ServerInit ==
    /\ home = [c \in Clients |-> NoConn]
    /\ peer = [n \in Conns |-> "none"]
    /\ wire = [n \in Conns |-> <<>>]
    /\ sent = [n \in Conns |-> <<>>]
    /\ written = 0
    /\ available = [n \in Conns |-> <<>>]
    /\ state = [n \in Conns |-> "none"]
    /\ expected = [n \in Conns |-> HeaderLength]
    /\ buffer = [n \in Conns |-> <<>>]
    /\ reading = NoConn
    /\ delivered = [n \in Conns |-> <<>>]
    /\ connections = {}
    /\ connectionClientMap = [c \in Clients |-> NoConn]
    /\ disconnects = <<>>
    /\ holds = {}

-----------------------------------------------------------------------------
(* The peers.  What they do while onReadyRead runs is noticed only after   *)
(* it, so they act between two steps of the event loop.                    *)

\* A peer opens a connection, and the server accepts it: onNewConnection.
onNewConnection(n) ==
    /\ reading = NoConn
    /\ \A m \in Conns : peer[m] = "none" <=> m >= n
    /\ peer' = [peer EXCEPT ![n] = "open"]
    /\ state' = [state EXCEPT ![n] = "waitHeader"]
    /\ connections' = connections \cup {n}
    /\ UNCHANGED <<home, wire, sent, written, available, expected, buffer, reading,
                   delivered, connectionClientMap, disconnects, holds>>

\* Client c sends a frame.  It stays with a connection as long as that is
\* open at its end.
Send(c, n, length) ==
    /\ reading = NoConn
    /\ peer[n] = "open"
    /\ home[c] \in Conns \ {n} => peer[home[c]] = "closed"
    /\ written < MaxFrames
    /\ LET f == [client |-> c, length |-> length, id |-> written + 1]
       IN  /\ home' = [home EXCEPT ![c] = n]
           /\ wire' = [wire EXCEPT ![n] = @ \o Bytes(f)]
           /\ sent' = [sent EXCEPT ![n] = Append(@, f)]
    /\ written' = written + 1
    /\ UNCHANGED <<peer, framing, server>>

\* The peer closes its end; bytes on their way may still arrive.
PeerClose(n) ==
    /\ reading = NoConn
    /\ peer[n] = "open"
    /\ peer' = [peer EXCEPT ![n] = "closed"]
    /\ UNCHANGED <<home, wire, sent, written, framing, server>>

-----------------------------------------------------------------------------
(* Connection.                                                             *)

\* A chunk of data has arrived and the socket emits readyRead.
Arrive(n, k) ==
    /\ reading = NoConn
    /\ state[n] \in {"waitHeader", "waitPayload"}
    /\ k <= Len(wire[n])
    /\ wire' = [wire EXCEPT ![n] = SubSeq(@, k + 1, Len(@))]
    /\ available' = [available EXCEPT ![n] = @ \o SubSeq(wire[n], 1, k)]
    /\ reading' = n
    /\ UNCHANGED <<home, peer, sent, written, state, expected, buffer, delivered,
                   server>>

\* State::read: all of the expected bytes are there, and are taken.
Ready(n) == Len(available[n]) >= expected[n]
Taken(n) == SubSeq(available[n], 1, expected[n])
Left(n) == SubSeq(available[n], expected[n] + 1, Len(available[n]))

\* Variant: an empty payload waits for the next readyRead.
AgainIfBytes(n, left, length) == IF left # <<>> THEN n ELSE NoConn

\* The end of onReadyRead: emit readyRead when there is more to do.
Again(n, left, length) == IF left # <<>> \/ length = 0 THEN n ELSE NoConn

\* State::read has too few bytes and throws; WaitHeaderState::read has
\* cleared the buffer before.
NotEnoughData(n) ==
    /\ reading = n
    /\ ~Ready(n)
    /\ buffer' = IF state[n] = "waitHeader" THEN [buffer EXCEPT ![n] = <<>>]
                 ELSE buffer
    /\ reading' = NoConn
    /\ UNCHANGED <<network, available, state, expected, delivered, server>>

\* Variant: expects the header's bytes a second time.
ReadHeaderTwice(n) ==
    /\ reading = n
    /\ state[n] = "waitHeader" /\ Ready(n)
    /\ available' = [available EXCEPT ![n] = Left(n)]
    /\ buffer' = [buffer EXCEPT ![n] = Taken(n)]
    /\ state' = [state EXCEPT ![n] = "waitPayload"]
    /\ expected' = [expected EXCEPT ![n] = HeaderLength + Taken(n)[1].frame.length]
    /\ reading' = Again(n, Left(n), expected'[n])
    /\ UNCHANGED <<network, delivered, server>>

\* onReadyRead in waitHeaderState: on to the payload, whose length the
\* header tells.  Bytes that are no header are dropped, and the exception
\* ends the reading.
ReadHeader(n) ==
    /\ reading = n
    /\ state[n] = "waitHeader" /\ Ready(n)
    /\ available' = [available EXCEPT ![n] = Left(n)]
    /\ buffer' = [buffer EXCEPT ![n] = Taken(n)]
    /\ IF deserializes(Taken(n))
       THEN LET length == Taken(n)[1].frame.length
            IN  /\ state' = [state EXCEPT ![n] = "waitPayload"]
                /\ expected' = [expected EXCEPT ![n] = length]
                /\ reading' = Again(n, Left(n), length)
       ELSE reading' = NoConn /\ UNCHANGED <<state, expected>>
    /\ UNCHANGED <<network, delivered, server>>

-----------------------------------------------------------------------------
(* Server.                                                                 *)

\* Variant: leaves out the clients that own nothing.
OwnersOf(n) == {c \in holds : connectionClientMap[c] = n}

\* The clients whose messages go to connection n.
ClientsOf(n) == {c \in Clients : connectionClientMap[c] = n}

\* Variant: forgets the clients but not what they own.
ForgetOnly(clients) ==
    /\ connectionClientMap' =
           [c \in Clients |-> IF c \in clients THEN NoConn
                              ELSE connectionClientMap[c]]
    /\ UNCHANGED holds

\* Releases what the clients own and forgets their connection.
Forget(clients) ==
    /\ holds' = holds \ clients
    /\ connectionClientMap' =
           [c \in Clients |-> IF c \in clients THEN NoConn
                              ELSE connectionClientMap[c]]

\* Variant: an empty message forgets the client whatever its connection.
onMessageReceivedFromAny(n, message) ==
    LET c == message[1].frame.client
        entered == IF connectionClientMap[c] = NoConn THEN n
                   ELSE connectionClientMap[c]
    IN  /\ IF Len(message) > HeaderLength
           THEN /\ connectionClientMap' = [connectionClientMap EXCEPT ![c] = entered]
                /\ holds' \in {holds \cup {c}, holds \ {c}}
           ELSE Forget({c})
        /\ UNCHANGED <<connections, disconnects>>

\* Server::onMessageReceived.  The first message of a client enters it in
\* the map.  A request may end with the client owning reservations or not;
\* an empty message forgets the client, when the map has this connection
\* for it.
onMessageReceived(n, message) ==
    LET c == message[1].frame.client
        entered == IF connectionClientMap[c] = NoConn THEN n
                   ELSE connectionClientMap[c]
    IN  /\ IF Len(message) > HeaderLength
           THEN /\ connectionClientMap' = [connectionClientMap EXCEPT ![c] = entered]
                /\ holds' \in {holds \cup {c}, holds \ {c}}
           ELSE Forget(IF entered = n THEN {c} ELSE {})
        /\ UNCHANGED <<connections, disconnects>>

\* Variant: takes all the bytes there are for the payload.
ReadPayloadGreedily(n) ==
    /\ reading = n
    /\ state[n] = "waitPayload" /\ Ready(n)
    /\ LET message == buffer[n] \o available[n]
       IN  /\ delivered' = [delivered EXCEPT ![n] = Append(@, message)]
           /\ onMessageReceived(n, message)
    /\ available' = [available EXCEPT ![n] = <<>>]
    /\ buffer' = [buffer EXCEPT ![n] = <<>>]
    /\ state' = [state EXCEPT ![n] = "waitHeader"]
    /\ expected' = [expected EXCEPT ![n] = HeaderLength]
    /\ reading' = NoConn
    /\ UNCHANGED network

\* onReadyRead in waitPayloadState: the message is complete, the Server
\* handles it, and the next header is awaited.
ReadPayload(n) ==
    /\ reading = n
    /\ state[n] = "waitPayload" /\ Ready(n)
    /\ LET message == buffer[n] \o Taken(n)
       IN  /\ delivered' = [delivered EXCEPT ![n] = Append(@, message)]
           /\ onMessageReceived(n, message)
    /\ available' = [available EXCEPT ![n] = Left(n)]
    /\ buffer' = [buffer EXCEPT ![n] = <<>>]
    /\ state' = [state EXCEPT ![n] = "waitHeader"]
    /\ expected' = [expected EXCEPT ![n] = HeaderLength]
    /\ reading' = Again(n, Left(n), HeaderLength)
    /\ UNCHANGED network

\* Variant: the Server is not told.
onSocketDisconnectedSilently(n) ==
    /\ reading = NoConn
    /\ peer[n] = "closed" /\ state[n] \in {"waitHeader", "waitPayload"}
    /\ state' = [state EXCEPT ![n] = "idle"]
    /\ wire' = [wire EXCEPT ![n] = <<>>]
    /\ UNCHANGED <<home, peer, sent, written, available, expected, buffer, reading,
                   delivered, server>>

\* Connection::onDisconnected: the socket has closed, what has not arrived
\* is lost, and the Server is told through the queue.
onSocketDisconnected(n) ==
    /\ reading = NoConn
    /\ peer[n] = "closed" /\ state[n] \in {"waitHeader", "waitPayload"}
    /\ state' = [state EXCEPT ![n] = "idle"]
    /\ wire' = [wire EXCEPT ![n] = <<>>]
    /\ disconnects' = Append(disconnects, n)
    /\ UNCHANGED <<home, peer, sent, written, available, expected, buffer, reading,
                   delivered, connections, connectionClientMap, holds>>

\* Server::onDisconnected: every client of the connection is forgotten and
\* the connection is deleted.
onDisconnected ==
    /\ reading = NoConn
    /\ disconnects # <<>>
    /\ LET n == Head(disconnects)
       IN  /\ Forget(ClientsOf(n))
           /\ connections' = connections \ {n}
           /\ state' = [state EXCEPT ![n] = "deleted"]
           /\ available' = [available EXCEPT ![n] = <<>>]
           /\ buffer' = [buffer EXCEPT ![n] = <<>>]
    /\ disconnects' = Tail(disconnects)
    /\ UNCHANGED <<network, expected, reading, delivered>>

\* The Manager between messages, as far as the owners are concerned: a
\* client's reservations expire, or a Record that has been waiting is
\* granted to the recorder (Execute with a parent tuner), connected or not.
Managed ==
    /\ reading = NoConn
    /\ \/ \E c \in Clients : holds' = holds \ {c}
       \/ holds' = holds \cup {Recorder}
    /\ UNCHANGED <<network, framing, connections, connectionClientMap, disconnects>>

-----------------------------------------------------------------------------

ServerNext ==
    \/ \E n \in Conns : onNewConnection(n)
    \/ \E c \in Clients, n \in Conns, length \in Payloads : Send(c, n, length)
    \/ \E n \in Conns : PeerClose(n)
    \/ \E n \in Conns : \E k \in 1 .. Len(wire[n]) : Arrive(n, k)
    \/ \E n \in Conns : NotEnoughData(n)
    \/ \E n \in Conns : ReadHeader(n)
    \/ \E n \in Conns : ReadPayload(n)
    \/ \E n \in Conns : onSocketDisconnected(n)
    \/ onDisconnected
    \/ Managed

ServerSpec == ServerInit /\ [][ServerNext]_vars

\* The event loop: the running read goes on, arrived bytes are read, a
\* closed socket is noticed and a queued signal handled.
ServerFairness ==
    /\ \A n \in Conns :
           /\ WF_vars(NotEnoughData(n) \/ ReadHeader(n) \/ ReadPayload(n))
           /\ WF_vars(onSocketDisconnected(n))
    /\ WF_vars(onDisconnected)

ServerFairSpec == ServerSpec /\ ServerFairness

-----------------------------------------------------------------------------
(* Properties.                                                             *)

ServerTypeOK ==
    /\ home \in [Clients -> Conns \cup {NoConn}]
    /\ peer \in [Conns -> {"none", "open", "closed"}]
    /\ state \in [Conns -> {"none", "waitHeader", "waitPayload", "idle", "deleted"}]
    /\ expected \in [Conns -> Payloads \cup {HeaderLength}]
    /\ reading \in Conns \cup {NoConn}
    /\ connections \subseteq Conns
    /\ connectionClientMap \in [Clients -> Conns \cup {NoConn}]
    /\ holds \subseteq Clients
    /\ \A n \in Conns : sent[n] \in Seq(Frames)
    /\ written \in 0 .. MaxFrames

\* What reaches onMessageReceived is what the peer wrote: frames are handed
\* over whole, in order, none twice, however the bytes were cut into chunks
\* and whatever lengths the payloads have.
DeliveredAsSent ==
    \A n \in Conns :
        /\ Len(delivered[n]) <= Len(sent[n])
        /\ \A i \in DOMAIN delivered[n] : delivered[n][i] = Bytes(sent[n][i])

\* When onReadyRead has returned, no message that has arrived completely is
\* left in a socket, an empty one included: no further readyRead may come.
NothingLeftUnread ==
    reading = NoConn =>
        \A n \in Conns : state[n] \in {"waitHeader", "waitPayload"} =>
            Len(available[n]) < expected[n]

\* connectionClientMap never keeps a Connection that onDisconnected has
\* deleted: what getConnection returns is a live object.
NoDanglingConnection ==
    \A c \in Clients :
        connectionClientMap[c] # NoConn => connectionClientMap[c] \in connections

\* A client that owns reservations has an entry in connectionClientMap, so
\* that its disconnection will release them.  The recorder is excepted: a
\* Record that was waiting is granted to it after it has gone.
OwnersAreKnown ==
    \A c \in holds \ {Recorder} : connectionClientMap[c] # NoConn

\* onMessageReceived and onDisconnected take reservations and connection
\* away from a client only when it has said so with an empty message, or
\* when the connection the map has for it is closed by the peer: the other
\* clients of a connection, and other connections, are not affected.
OnlyTheGoneAreForgotten ==
    [][\A c \in Clients :
          (connectionClientMap[c] # NoConn /\ connectionClientMap'[c] = NoConn) =>
              LET n == connectionClientMap[c]
              IN  \/ peer[n] = "closed" /\ n \notin connections'
                  \/ \E f \in Frames : /\ f.client = c /\ f.length = 0
                                       /\ delivered'[n] = Append(delivered[n], Bytes(f))]_vars

\* A client whose connection is closed does not keep its reservations: they
\* are released, unless the client comes back.
GoneReleased ==
    \A c \in Clients \ {Recorder} :
        (home[c] # NoConn /\ peer[home[c]] = "closed") ~>
            (c \notin holds \/ peer[home[c]] = "open")

=============================================================================
