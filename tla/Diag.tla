-------------------------------- MODULE Diag --------------------------------
(***************************************************************************)
(* The diagnostic client (TRMMgr.cpp, Helper.cpp).  main and the thread    *)
(* that serves IARM calls post requests to the TRM server and poll a flag; *)
(* a reader thread receives the answers and the notifications.  They share *)
(* the socket, the flag, the text of the last message and the list of the  *)
(* devices.  HelperLock() and TRMMgrLock() declare a function and take no  *)
(* lock, so that all of it is interleaved.                                 *)
(***************************************************************************)
EXTENDS Integers, Sequences

CONSTANTS
    main, iarm, reader,  \* the threads
    Kinds,               \* the calls made, of "version", "reservations", "devices"
    MaxCalls,            \* bound: calls made, the one of main included
    MaxSockets,          \* bound: sockets that are open at a time
    MaxLosses,           \* bound: times the server goes away
    MaxNotes,            \* bound: notifications the server sends
    Tries,               \* retry_count of the posts, 5
    Polls                \* retry_count of waitForTRMResponse, 500

ASSUME DiagAssumption ==
    /\ main # iarm /\ reader \notin {main, iarm}
    /\ Kinds \subseteq {"version", "reservations", "devices"}
    /\ {MaxCalls, MaxSockets, Tries, Polls} \subseteq Nat \ {0}

VARIABLES
    trm_diag_fd,      \* the socket, 0 for -1
    is_connected,
    TrmResponseRcvd,
    responseStr,      \* what the text is about: a call, or a word
    conDeviceList,    \* the call whose answer it was made from
    thread,           \* where each thread is
    killed,           \* the process ended by a signal or an exception
    up,               \* the server listens
    losses, notes,
    sock,             \* each socket: "none", "live", "known" once a request came by it, "dead"
    shut,             \* sockets that were closed while the reader reads from them
    stream,           \* what the server sent on it and nobody has read
    asked,            \* calls with the socket they came by, not yet answered
    lastCall,         \* calls are numbered
    undisturbed,      \* calls under way that have the library to themselves
    refused,          \* calls the server has answered with an error
    together          \* two threads were in connect_to_trm at a time

shared == <<TrmResponseRcvd, responseStr, conDeviceList>>
link == <<trm_diag_fd, is_connected, together>>
server == <<up, losses, notes, sock, shut, stream, asked>>
calls == <<lastCall, undisturbed, refused>>
vars == <<shared, link, server, calls, thread, killed>>

Callers == {main, iarm}
Threads == Callers \cup {reader}
Calls == 1..MaxCalls
Sockets == 1..MaxSockets

\* A text is the number of the call it answers, or one of these.
Empty == 0
Event == -1
Garbage == -2
Partial == -3

\* What the server sends: the answer to a call, an answer whose status is not
\* kOk, an answer longer than the reader takes (MAX_PAYLOAD_LEN), or a
\* notification.
Message(what, call, kind) == [what |-> what, call |-> call, kind |-> kind]
Notification == Message("event", 0, "none")

\* A thread: its place, the tries and the polls it has left, its call and the
\* kind of it and whether it succeeds; for the reader the socket it reads from
\* and the message it handles.
ThreadAt(pc) ==
    [pc |-> pc, s |-> 0, tries |-> 0, polls |-> 0, call |-> 0,
     kind |-> "none", m |-> Notification, ok |-> FALSE]

At(t, pc) == ~killed /\ thread[t].pc = pc
Live(s) == sock[s] \in {"live", "known"}
Goto(t, pc) == thread' = [thread EXCEPT ![t].pc = pc]

\* TRMMgr.cpp registers the IARM call before it initialises the helper, and
\* the reader is started at the end of that.
DiagInit ==
    /\ trm_diag_fd = 0 /\ is_connected = FALSE /\ together = FALSE
    /\ TrmResponseRcvd = FALSE
    /\ responseStr = Empty /\ conDeviceList = Empty
    /\ thread = [t \in Threads |-> ThreadAt(CASE t = main -> "init"
                                             [] t = iarm -> "idle"
                                             [] t = reader -> "off")]
    /\ killed = FALSE
    /\ up = TRUE /\ losses = 0 /\ notes = 0
    /\ sock = [s \in Sockets |-> "none"]
    /\ shut = {}
    /\ stream = [s \in Sockets |-> <<>>]
    /\ asked = {}
    /\ lastCall = 0 /\ undisturbed = {} /\ refused = {}

----------------------------------------------------------------------------
\* connect_to_trm sleeps for five seconds once it has found that there is no
\* connection; what follows takes no time next to that and is one step.
EnterConnect(t) ==
    /\ Goto(t, "asleep")
    /\ together' = (together \/ \E u \in Threads \ {t} : thread[u].pc = "asleep")

\* A new socket, with the lowest number that is free, connects if the server
\* is up.
DialNew ==
    /\ trm_diag_fd = 0
    /\ up
    /\ \E s \in Sockets :
        /\ sock[s] = "none"
        /\ \A r \in Sockets : r < s => sock[r] # "none"
        /\ trm_diag_fd' = s
        /\ sock' = [sock EXCEPT ![s] = "live"]
    /\ is_connected' = TRUE
    /\ UNCHANGED <<shut, stream, asked>>

Reading == thread[reader].pc \in {"read", "payload"}

Gone(s) ==
    /\ sock' = [sock EXCEPT ![s] = "none"]
    /\ stream' = [stream EXCEPT ![s] = <<>>]
    /\ asked' = {a \in asked : a.on # s}

\* Variant: a failure leaves the closed socket in place.
FdKept == trm_diag_fd

FdAfterFailure == 0

\* connect fails on a new socket while the server is down, and always on one
\* that was connected before.  Closing a socket does not wake a thread that
\* reads from it.
DialFails ==
    /\ trm_diag_fd # 0 \/ ~up
    /\ trm_diag_fd' = FdAfterFailure
    /\ IF trm_diag_fd = 0
         THEN UNCHANGED <<sock, shut, stream, asked>>
         ELSE IF Reading /\ thread[reader].s = trm_diag_fd
         THEN shut' = shut \cup {trm_diag_fd} /\ UNCHANGED <<sock, stream, asked>>
         ELSE Gone(trm_diag_fd) /\ UNCHANGED shut
    /\ UNCHANGED is_connected

\* The caller of connect_to_trm looks at is_connected next; TRMMgrHelperImpl::init
\* starts the reader.
Connected(t) ==
    thread' = IF t = main /\ thread[main].call = 0
                THEN [thread EXCEPT ![main] = ThreadAt("idle"), ![reader].pc = "top"]
                ELSE IF t = reader THEN [thread EXCEPT ![t] = ThreadAt("top")]
                ELSE [thread EXCEPT ![t].pc = "post"]

connect_to_trm(t) ==
    /\ At(t, "asleep")
    /\ DialNew \/ DialFails
    /\ Connected(t)
    /\ UNCHANGED <<shared, together, up, losses, notes, calls, killed>>

init ==
    /\ At(main, "init")
    /\ IF is_connected
         THEN Connected(main) /\ UNCHANGED together
         ELSE EnterConnect(main)
    /\ UNCHANGED <<shared, trm_diag_fd, is_connected, server, calls, killed>>

----------------------------------------------------------------------------
\* The calls: getVersion, getTunerReservationsList, getConnectedDeviceIdList.

\* Nothing of another call and no notification is about.
Quiet(t) ==
    /\ \A u \in Callers \ {t} : thread[u].call = 0
    /\ asked = {}
    /\ \A s \in Sockets : stream[s] = <<>>
    /\ thread[reader].pc \notin {"copy", "decode", "rebuild"}

\* main makes one call, for the version.
Begin(t, kind) ==
    /\ At(t, "idle")
    /\ lastCall < MaxCalls
    /\ t = main => kind = "version"
    /\ lastCall' = lastCall + 1
    /\ thread' = [thread EXCEPT ![t] = [@ EXCEPT !.pc = "try", !.tries = Tries, !.call = lastCall', !.kind = kind]]
    /\ undisturbed' = IF Quiet(t) THEN {lastCall'} ELSE {}
    /\ UNCHANGED <<shared, link, server, refused, killed>>

\* Variant: the flag of the previous call is left.
FlagLeft == TrmResponseRcvd

FlagCleared == FALSE

\* A try clears the flag and the text, and url_request_post connects if it must.
Try(t) ==
    /\ At(t, "try")
    /\ TrmResponseRcvd' = FlagCleared
    /\ responseStr' = Empty
    /\ IF is_connected
         THEN Goto(t, "post") /\ UNCHANGED together
         ELSE EnterConnect(t)
    /\ UNCHANGED <<conDeviceList, trm_diag_fd, is_connected, server, calls, killed>>

\* Whatever write returns but 0 counts as success; it is -1 when there is no
\* socket.  What is written to a server that is gone is lost, or raises
\* SIGPIPE, which nothing catches.
Write(t) ==
    /\ At(t, "post")
    /\ is_connected
    /\ thread' = [thread EXCEPT ![t] = [@ EXCEPT !.pc = "wait", !.tries = 0, !.polls = Polls]]
    /\ IF trm_diag_fd # 0 /\ Live(trm_diag_fd)
         THEN /\ asked' = asked \cup {[call |-> thread[t].call, kind |-> thread[t].kind, on |-> trm_diag_fd]}
              /\ sock' = [sock EXCEPT ![trm_diag_fd] = "known"]
         ELSE UNCHANGED <<asked, sock>>
    /\ killed' \in IF trm_diag_fd # 0 /\ sock[trm_diag_fd] = "dead" THEN BOOLEAN ELSE {FALSE}
    /\ UNCHANGED <<shared, link, up, losses, notes, shut, stream, calls>>

NotPosted(t) ==
    /\ At(t, "post")
    /\ ~is_connected
    /\ thread' = [thread EXCEPT ![t] = [@ EXCEPT !.tries = thread[t].tries - 1,
                                                 !.pc = IF thread[t].tries > 1 THEN "try" ELSE "return"]]
    /\ UNCHANGED <<shared, link, server, calls, killed>>

\* Variant: the polls are not counted.
PollsKept(t) == thread[t].polls

PollsLeft(t) == thread[t].polls - 1

\* waitForTRMResponse: when the last poll is used up the wait has failed, even
\* if the flag was set during it.
Poll(t) ==
    /\ At(t, "wait")
    /\ ~TrmResponseRcvd /\ thread[t].polls > 0
    /\ thread' = [thread EXCEPT ![t].polls = PollsLeft(t)]
    /\ UNCHANGED <<shared, link, server, calls, killed>>

WaitEnds(t) ==
    /\ At(t, "wait")
    /\ TrmResponseRcvd \/ thread[t].polls = 0
    /\ thread' = [thread EXCEPT ![t] = [@ EXCEPT !.pc = "return", !.polls = 0, !.ok = thread[t].polls # 0]]
    /\ UNCHANGED <<shared, link, server, calls, killed>>

\* What the client is given: the text or the list of the devices.  A version
\* that could not be had is reported as no error, without a text.
Given(t) ==
    IF ~thread[t].ok THEN Empty
    ELSE IF thread[t].kind = "devices" THEN conDeviceList ELSE responseStr

retCode(t) == IF thread[t].ok \/ thread[t].kind = "version" THEN "TRMMgr_ERR_NONE" ELSE "TRMMgr_ERR_FAILED"

Return(t) ==
    /\ At(t, "return")
    /\ thread' = [thread EXCEPT ![t] = ThreadAt(IF t = main THEN "off" ELSE "idle")]
    /\ undisturbed' = undisturbed \ {thread[t].call}
    /\ UNCHANGED <<shared, link, server, lastCall, refused, killed>>

----------------------------------------------------------------------------
\* The reader, ProcessTRMMessage: it connects, and sleeps and tries again when
\* it could not; a read from no socket is taken for the loss of the connection.
Top ==
    /\ At(reader, "top")
    /\ IF is_connected
         THEN /\ thread' = [thread EXCEPT ![reader] = [@ EXCEPT !.pc = IF trm_diag_fd # 0 THEN "read" ELSE "top",
                                                                !.s = trm_diag_fd]]
              /\ is_connected' = (trm_diag_fd # 0)
              /\ UNCHANGED together
         ELSE EnterConnect(reader) /\ UNCHANGED is_connected
    /\ UNCHANGED <<shared, trm_diag_fd, server, calls, killed>>

\* Variant: the loss is not noticed.
StillConnected == is_connected

ConnectedAfterLoss == FALSE

BackToTop == thread' = [thread EXCEPT ![reader] = ThreadAt("top")]

\* What is left of the stream after n messages; a socket that was closed in
\* the meantime goes when the read returns.
Consume(s, n) ==
    IF s \in shut
      THEN Gone(s) /\ shut' = shut \ {s}
      ELSE /\ stream' = [stream EXCEPT ![s] = SubSeq(@, n + 1, Len(@))]
           /\ UNCHANGED <<sock, shut, asked>>

\* read returns 0 or less than a header.
ReadEnds ==
    LET s == thread[reader].s
    IN  /\ Reading /\ ~killed
        /\ sock[s] = "dead" /\ stream[s] = <<>>
        /\ is_connected' = ConnectedAfterLoss
        /\ Consume(s, 0)
        /\ BackToTop
        /\ UNCHANGED <<shared, trm_diag_fd, together, up, losses, notes, calls, killed>>

\* A frame; processBuffer clears the text, copies the new one and decodes it.
ReadFrame ==
    LET s == thread[reader].s
    IN  /\ At(reader, "read")
        /\ s = trm_diag_fd
        /\ stream[s] # <<>> /\ Head(stream[s]).what # "big"
        /\ thread' = [thread EXCEPT ![reader] = [@ EXCEPT !.pc = "copy", !.m = Head(stream[s])]]
        /\ responseStr' = Empty
        /\ Consume(s, 1)
        /\ UNCHANGED <<TrmResponseRcvd, conDeviceList, link, up, losses, notes, calls, killed>>

\* The payload is read from trm_diag_fd, which need not be the socket the
\* header came from: there is none (the length -1 then makes processBuffer
\* throw), or the thread waits on another.
ReadCrossed ==
    LET s == thread[reader].s
    IN  /\ At(reader, "read")
        /\ s # trm_diag_fd
        /\ stream[s] # <<>>
        /\ killed' = (trm_diag_fd = 0)
        /\ thread' = [thread EXCEPT ![reader] = [@ EXCEPT !.pc = "payload", !.s = trm_diag_fd]]
        /\ Consume(s, 1)
        /\ UNCHANGED <<shared, link, up, losses, notes, calls>>

\* After a payload that was not taken, or was another frame's, headers are read
\* from the middle of frames: messages are lost until the frames end with a
\* header again, or too few bytes are left for one.
ReadMisaligned ==
    LET s == thread[reader].s
    IN  /\ Reading /\ ~killed
        /\ stream[s] # <<>>
        /\ At(reader, "payload") \/ (s = trm_diag_fd /\ Head(stream[s]).what = "big")
        /\ \E n \in 1..Len(stream[s]) :
            /\ Consume(s, n)
            /\ \/ UNCHANGED is_connected
               \/ n = Len(stream[s]) /\ is_connected' = FALSE
            /\ \/ At(reader, "read") /\ UNCHANGED responseStr
               \/ (At(reader, "payload") \/ n > 1) /\ responseStr' = Garbage
        /\ BackToTop
        /\ UNCHANGED <<TrmResponseRcvd, conDeviceList, trm_diag_fd, together,
                       up, losses, notes, calls, killed>>

CopyText ==
    /\ At(reader, "copy")
    /\ responseStr' = IF thread[reader].m.what = "event" THEN Event ELSE thread[reader].m.call
    /\ Goto(reader, "decode")
    /\ UNCHANGED <<TrmResponseRcvd, conDeviceList, link, server, calls, killed>>

\* MsgProcessor: the list of the devices is rebuilt from the reservations, but
\* stays as it is after an error; an answer, an error and a notification alike
\* set the flag.
HasDevices(m) == m.what = "answer" /\ m.kind # "version"

Decode ==
    /\ At(reader, "decode")
    /\ IF HasDevices(thread[reader].m)
         THEN conDeviceList' = Partial /\ Goto(reader, "rebuild") /\ UNCHANGED TrmResponseRcvd
         ELSE TrmResponseRcvd' = TRUE /\ BackToTop /\ UNCHANGED conDeviceList
    /\ UNCHANGED <<responseStr, link, server, calls, killed>>

Rebuild ==
    /\ At(reader, "rebuild")
    /\ conDeviceList' = thread[reader].m.call
    /\ TrmResponseRcvd' = TRUE
    /\ BackToTop
    /\ UNCHANGED <<responseStr, link, server, calls, killed>>

----------------------------------------------------------------------------
\* The server answers, sends notifications, goes away and comes back.
Answer(a) ==
    /\ ~killed
    /\ asked' = asked \ {a}
    /\ \E what \in {"answer", "refusal", "big"} :
        /\ what # "answer" => a.kind # "version"
        /\ stream' = [stream EXCEPT ![a.on] = Append(@, Message(what, a.call, a.kind))]
        /\ refused' = IF what = "refusal" THEN refused \cup {a.call} ELSE refused
    /\ UNCHANGED <<shared, link, up, losses, notes, sock, shut, lastCall, undisturbed, thread, killed>>

Notify(s) ==
    /\ ~killed
    /\ sock[s] = "known"
    /\ notes < MaxNotes
    /\ notes' = notes + 1
    /\ stream' = [stream EXCEPT ![s] = Append(@, Notification)]
    /\ undisturbed' = {}
    /\ UNCHANGED <<shared, link, up, losses, sock, shut, asked, lastCall, refused, thread, killed>>

ServerStops ==
    /\ ~killed
    /\ up
    /\ losses < MaxLosses
    /\ up' = FALSE
    /\ losses' = losses + 1
    /\ sock' = [s \in Sockets |-> IF Live(s) THEN "dead" ELSE sock[s]]
    /\ asked' = {}
    /\ UNCHANGED <<shared, link, notes, shut, stream, calls, thread, killed>>

ServerStarts ==
    /\ ~killed
    /\ ~up
    /\ up' = TRUE
    /\ UNCHANGED <<shared, link, losses, notes, sock, shut, stream, asked, calls, thread, killed>>

CallStep(t) ==
    \/ Try(t) \/ Write(t) \/ NotPosted(t) \/ Poll(t) \/ WaitEnds(t) \/ Return(t)

ReaderStep ==
    \/ Top \/ ReadEnds \/ ReadFrame \/ ReadCrossed \/ ReadMisaligned
    \/ CopyText \/ Decode \/ Rebuild

ThreadStep(t) ==
    \/ connect_to_trm(t)
    \/ t = main /\ init
    \/ t \in Callers /\ CallStep(t)
    \/ t = reader /\ ReaderStep

DiagNext ==
    \/ \E t \in Threads : ThreadStep(t)
    \/ \E t \in Callers, kind \in Kinds : Begin(t, kind)
    \/ \E a \in asked : Answer(a)
    \/ \E s \in Sockets : Notify(s)
    \/ ServerStops \/ ServerStarts

DiagSpec == DiagInit /\ [][DiagNext]_vars

\* The threads run, and the server is started again.
FairDiagSpec ==
    /\ DiagSpec
    /\ \A t \in Threads : WF_vars(ThreadStep(t))
    /\ WF_vars(ServerStarts)

----------------------------------------------------------------------------
\* What a client gets is the answer to its own request, as long as no other
\* call overlaps with it, nothing of an earlier call is on its way and no
\* notification comes.  There are two exceptions, both reported as no error: a
\* version that could not be had comes without a text, and a request for the
\* devices that the server refuses gets the list an earlier call left, though
\* never one that is half made (getVersion, getConnectedDeviceIdList,
\* MsgProcessor, processBuffer, waitForTRMResponse).
RightAnswer ==
    [][\A t \in Callers : Return(t) /\ thread[t].call \in undisturbed /\ retCode(t) = "TRMMgr_ERR_NONE"
        => \/ Given(t) = thread[t].call
           \/ thread[t].kind = "version" /\ Given(t) = Empty /\ ~thread[t].ok
           \/ thread[t].kind = "devices" /\ thread[t].call \in refused /\ Given(t) # Partial]_vars

\* As long as no two threads were in connect_to_trm at a time, is_connected
\* and trm_diag_fd agree, the reader waits on the socket the requests go to
\* and no other socket is left open (connect_to_trm).
SyncWhenAlone ==
    ~together =>
        /\ is_connected => trm_diag_fd # 0
        /\ Reading => thread[reader].s = trm_diag_fd
        /\ trm_diag_fd # 0 => sock[trm_diag_fd] # "none"
        /\ \A s \in Sockets : Live(s) => s = trm_diag_fd

\* Every call returns, whatever the server does (waitForTRMResponse).
CallsReturn == \A t \in Callers : []<>(killed \/ thread[t].call = 0)

\* The reader comes back, again and again, to a read from the socket the
\* requests go to, however the server was lost (ProcessTRMMessage), unless two
\* threads were in connect_to_trm at a time (the reader may then wait for ever
\* on a socket that another thread has replaced) or the process has ended.
KeepsListening ==
    []<>(\/ together \/ killed
         \/ thread[reader].pc \in {"read", "copy", "decode", "rebuild"}
              /\ trm_diag_fd # 0 /\ Live(trm_diag_fd) /\ thread[reader].s = trm_diag_fd)
=============================================================================
