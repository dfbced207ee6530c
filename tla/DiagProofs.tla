----------------------------- MODULE DiagProofs -----------------------------
(***************************************************************************)
(* The safety properties of Diag.tla, proved for any number of calls,      *)
(* sockets, losses, notifications, tries and polls.                        *)
(***************************************************************************)
EXTENDS Diag, SequenceTheorems, TLAPS

----------------------------------------------------------------------------
(* The types.                                                              *)

CallKinds == Kinds \cup {"none"}

Messages == [what : {"answer", "refusal", "big", "event"}, call : Nat, kind : CallKinds]

Pcs == {"init", "idle", "off", "asleep", "top", "read", "payload", "copy", "decode", "rebuild",
        "try", "post", "wait", "return"}

ThreadStates ==
    [pc : Pcs, s : {0} \cup Sockets, tries : Int, polls : Int, call : Nat, kind : CallKinds,
     m : Messages, ok : BOOLEAN]

\* The reader reads from a socket, unless the read of a payload from no socket
\* has just ended the process.
DiagTypeOK ==
    /\ trm_diag_fd \in {0} \cup Sockets
    /\ is_connected \in BOOLEAN /\ together \in BOOLEAN
    /\ TrmResponseRcvd \in BOOLEAN
    /\ responseStr \in Int /\ conDeviceList \in Int
    /\ thread \in [Threads -> ThreadStates]
    /\ killed \in BOOLEAN /\ up \in BOOLEAN
    /\ sock \in [Sockets -> {"none", "live", "known", "dead"}]
    /\ shut \subseteq Sockets
    /\ stream \in [Sockets -> Seq(Messages)]
    /\ asked \subseteq [call : Nat, kind : CallKinds, on : Sockets]
    /\ lastCall \in Nat /\ undisturbed \subseteq Int
    /\ Reading /\ ~killed => thread[reader].s \in Sockets

----------------------------------------------------------------------------
(* The connection.                                                         *)

\* As long as no two threads were in connect_to_trm at a time, a thread is in
\* there only while there is no connection, and the reader reads only while
\* there is one.  So nothing is closed under it, and the one socket that is
\* not free is the one in trm_diag_fd.
Aligned ==
    /\ is_connected => trm_diag_fd # 0
    /\ Reading => is_connected /\ thread[reader].s = trm_diag_fd
    /\ trm_diag_fd # 0 => sock[trm_diag_fd] # "none"
    /\ \A s \in Sockets : sock[s] # "none" => s = trm_diag_fd
    /\ shut = {}
    /\ \A t \in Threads : thread[t].pc = "asleep" => ~is_connected
    /\ \A t, u \in Threads : thread[t].pc = "asleep" /\ thread[u].pc = "asleep" => t = u

AloneAligned == ~together => Aligned

----------------------------------------------------------------------------
(* The calls.                                                              *)

Handling == thread[reader].pc \in {"copy", "decode", "rebuild"}

NoneSent == \A s \in Sockets : stream[s] = <<>>

Nothing == asked = {} /\ NoneSent /\ ~Handling

\* A caller has a call from its first try to its return, and succeeds only at
\* the end of it.
CallsAreNumbered ==
    /\ undisturbed \subseteq {lastCall} \ {0}
    /\ \A t \in Callers :
        /\ thread[t].pc \in {"try", "post", "wait", "return"} => thread[t].call # 0
        /\ thread[t].pc = "asleep" => thread[t].call # 0 \/ t = main
        /\ thread[t].pc \in {"try", "post", "asleep", "wait", "return"} \/ thread[t].call = 0
        /\ thread[t].ok => thread[t].pc = "return"

\* The list of the devices is half made only while the reader makes it; main
\* has not started the reader before the end of its initialisation.
WholeList ==
    /\ thread[reader].pc # "rebuild" => conDeviceList # Partial
    /\ thread[main].pc = "init" \/ (thread[main].pc = "asleep" /\ thread[main].call = 0)
        => thread[reader].pc = "off"

\* What is about belongs to the call of t: one request, or one answer on its
\* way, or one in the reader's hands.
Its(t) ==
    /\ \A a \in asked : a.call = thread[t].call /\ a.kind = thread[t].kind
    /\ \A a, b \in asked : a = b
    /\ asked # {} => NoneSent /\ ~Handling
    /\ \A s \in Sockets : stream[s] # <<>> =>
        /\ Len(stream[s]) = 1
        /\ stream[s][1].call = thread[t].call /\ stream[s][1].kind = thread[t].kind
        /\ stream[s][1].what # "event"
        /\ stream[s][1].what = "refusal" => thread[t].call \in refused
        /\ ~Handling
        /\ \A r \in Sockets : stream[r] # <<>> => r = s
    /\ Handling =>
        /\ thread[reader].m.call = thread[t].call /\ thread[reader].m.kind = thread[t].kind
        /\ thread[reader].m.what \in {"answer", "refusal"}
        /\ thread[reader].m.what = "refusal" => thread[t].call \in refused
        /\ thread[reader].pc # "copy" => responseStr = thread[t].call

\* The list is that of the call of t, or one that was there before a refusal.
ListFor(t) ==
    \/ conDeviceList = thread[t].call
    \/ thread[t].call \in refused /\ conDeviceList # Partial

\* The caller of a call that is undisturbed has the library to itself: the
\* others are idle, nothing is about until it has written its request, and the
\* flag that is set while it waits is set for its answer.
Alone(t) ==
    /\ \A u \in Callers \ {t} : thread[u].call = 0
    /\ thread[t].pc \in {"try", "post", "asleep"} => Nothing
    /\ thread[t].pc \in {"post", "asleep"} => ~TrmResponseRcvd
    /\ thread[t].pc \in {"wait", "return"} => Its(t)
    /\ thread[t].pc \in {"wait", "return"} /\ TrmResponseRcvd =>
        /\ Nothing
        /\ responseStr = thread[t].call
        /\ thread[t].kind # "version" => ListFor(t)
    /\ thread[t].ok => TrmResponseRcvd

UndisturbedAlone ==
    /\ CallsAreNumbered /\ WholeList
    /\ \A t \in Callers : thread[t].call \in undisturbed => Alone(t)

DiagInv == DiagTypeOK /\ AloneAligned /\ UndisturbedAlone

----------------------------------------------------------------------------
(* The first state.                                                        *)

\* What is left of a stream after a read.
LEMMA RestOfStream ==
    ASSUME NEW q \in Seq(Messages), NEW n \in 0 .. Len(q)
    PROVE  /\ SubSeq(q, n + 1, Len(q)) \in Seq(Messages)
           /\ Len(SubSeq(q, n + 1, Len(q))) = Len(q) - n
<1>1. \A i \in n + 1 .. Len(q) : q[i] \in Messages
    OBVIOUS
<1>. QED  BY <1>1, SubSeqProperties

LEMMA ThreadAtType ==
    ASSUME NEW pc \in Pcs
    PROVE  ThreadAt(pc) \in ThreadStates
BY DEF ThreadAt, ThreadStates, Notification, Message, Messages, CallKinds

LEMMA GoneType ==
    ASSUME DiagTypeOK, NEW s \in Sockets, Gone(s)
    PROVE  /\ sock' \in [Sockets -> {"none", "live", "known", "dead"}]
           /\ stream' \in [Sockets -> Seq(Messages)]
           /\ asked' \subseteq [call : Nat, kind : CallKinds, on : Sockets]
<1>1. <<>> \in Seq(Messages)
    OBVIOUS
<1>. QED  BY <1>1 DEF DiagTypeOK, Gone

LEMMA ConsumeType ==
    ASSUME DiagTypeOK, NEW s \in Sockets, NEW n \in 0 .. Len(stream[s]), Consume(s, n)
    PROVE  /\ sock' \in [Sockets -> {"none", "live", "known", "dead"}]
           /\ stream' \in [Sockets -> Seq(Messages)]
           /\ asked' \subseteq [call : Nat, kind : CallKinds, on : Sockets]
           /\ shut' \subseteq Sockets
<1>1. CASE s \in shut
    BY <1>1, GoneType DEF Consume, DiagTypeOK
<1>2. CASE s \notin shut
    <2>1. stream[s] \in Seq(Messages)
        BY DEF DiagTypeOK
    <2>2. SubSeq(stream[s], n + 1, Len(stream[s])) \in Seq(Messages)
        BY <2>1, RestOfStream
    <2>. QED  BY <1>2, <2>2, ZenonT(60) DEF Consume, DiagTypeOK
<1>. QED  BY <1>1, <1>2

LEMMA InitType ==
    ASSUME DiagInit
    PROVE  DiagTypeOK
<1>1. thread \in [Threads -> ThreadStates]
    <2>1. \A pc \in {"init", "idle", "off"} : ThreadAt(pc) \in ThreadStates
        BY ThreadAtType DEF Pcs
    <2>. QED  BY <2>1 DEF DiagInit, Threads, Callers
<1>2. ~Reading
    BY DiagAssumption DEF DiagInit, Reading, ThreadAt, Threads, Callers
<1>3. stream \in [Sockets -> Seq(Messages)] /\ sock \in [Sockets -> {"none", "live", "known", "dead"}]
    <2>1. <<>> \in Seq(Messages)
        OBVIOUS
    <2>. QED  BY <2>1, Zenon DEF DiagInit
<1>4. responseStr \in Int /\ conDeviceList \in Int /\ lastCall \in Nat
    BY DEF DiagInit, Empty
<1>. QED  BY <1>1, <1>2, <1>3, <1>4, Zenon DEF DiagTypeOK, DiagInit

----------------------------------------------------------------------------
(* What a step does to the threads.                                        *)

\* Only thread t moves.
OnlyThread(t) ==
    /\ thread' \in [Threads -> ThreadStates]
    /\ \A u \in Threads \ {t} : thread'[u] = thread[u]

LEMMA ThreadTypes ==
    ASSUME DiagTypeOK
    PROVE  /\ thread \in [Threads -> ThreadStates]
           /\ \A t \in Threads : thread[t] \in ThreadStates
           /\ \A t \in Callers : t \in Threads /\ t # reader
           /\ reader \in Threads /\ main \in Callers /\ iarm \in Callers /\ main # iarm
BY DiagAssumption DEF DiagTypeOK, Threads, Callers

LEMMA ReplaceThread ==
    ASSUME DiagTypeOK, NEW t \in Threads, NEW w \in ThreadStates, thread' = [thread EXCEPT ![t] = w]
    PROVE  OnlyThread(t) /\ thread'[t] = w
BY ThreadTypes DEF OnlyThread

\* A thread goes on to another place.
LEMMA PcFields ==
    ASSUME NEW r \in ThreadStates, NEW pc \in Pcs, NEW w, w = [r EXCEPT !.pc = pc]
    PROVE  /\ w \in ThreadStates /\ w.pc = pc
           /\ w.s = r.s /\ w.tries = r.tries /\ w.polls = r.polls
           /\ w.call = r.call /\ w.kind = r.kind /\ w.m = r.m /\ w.ok = r.ok
BY DEF ThreadStates

LEMMA GotoThread ==
    ASSUME DiagTypeOK, NEW t \in Threads, NEW pc \in Pcs, thread' = [thread EXCEPT ![t].pc = pc]
    PROVE  /\ OnlyThread(t) /\ thread'[t].pc = pc
           /\ thread'[t].s = thread[t].s /\ thread'[t].call = thread[t].call
           /\ thread'[t].kind = thread[t].kind /\ thread'[t].m = thread[t].m
           /\ thread'[t].ok = thread[t].ok
<1>. DEFINE w == [thread[t] EXCEPT !.pc = pc]
<1>1. thread[t] \in ThreadStates
    BY ThreadTypes, Zenon
<1>2. thread' = [thread EXCEPT ![t] = w]
    BY Zenon
<1>. HIDE DEF w
<1>3. w = [thread[t] EXCEPT !.pc = pc]
    BY DEF w
<1>4. /\ w \in ThreadStates /\ w.pc = pc
      /\ w.s = thread[t].s /\ w.call = thread[t].call /\ w.kind = thread[t].kind
      /\ w.m = thread[t].m /\ w.ok = thread[t].ok
    BY <1>1, <1>3, PcFields
<1>5. OnlyThread(t) /\ thread'[t] = w
    BY <1>2, <1>4, ReplaceThread, Zenon
<1>. QED  BY <1>4, <1>5, Zenon

\* w is a thread at pc, with the call of r.
SameCall(w, r, pc) ==
    w \in ThreadStates /\ w.pc = pc /\ w.call = r.call /\ w.kind = r.kind /\ w.ok = r.ok

\* A call is begun: w is a thread about to try call c.
NewCall(w, r, c) == w \in ThreadStates /\ w.pc = "try" /\ w.call = c /\ w.ok = r.ok

\* The wait of r is over, with success or without.
WaitOver(w, r, ok) ==
    w \in ThreadStates /\ w.pc = "return" /\ w.call = r.call /\ w.kind = r.kind /\ w.ok = ok

\* w is the reader at pc with socket s; with message m.
ReaderOn(w, pc, s) == w \in ThreadStates /\ w.pc = pc /\ w.s = s
ReaderWith(w, pc, m) == w \in ThreadStates /\ w.pc = pc /\ w.m = m

LEMMA BeginFields ==
    ASSUME NEW r \in ThreadStates, NEW n \in Int, NEW c \in Nat, NEW k \in CallKinds,
           NEW w, w = [r EXCEPT !.pc = "try", !.tries = n, !.call = c, !.kind = k]
    PROVE  NewCall(w, r, c)
<1>. DEFINE a == [r EXCEPT !.pc = "try"]
            b == [a EXCEPT !.tries = n]
            d == [b EXCEPT !.call = c]
            e == [d EXCEPT !.kind = k]
<1>0. w = e
    BY Zenon
<1>1. a \in ThreadStates /\ a.pc = "try" /\ a.ok = r.ok
    BY DEF ThreadStates, Pcs
<1>. HIDE DEF a
<1>2. b \in ThreadStates /\ b.pc = "try" /\ b.ok = r.ok
    BY <1>1 DEF ThreadStates
<1>. HIDE DEF b
<1>3. d \in ThreadStates /\ d.pc = "try" /\ d.ok = r.ok /\ d.call = c
    BY <1>2 DEF ThreadStates
<1>. HIDE DEF d
<1>4. e \in ThreadStates /\ e.pc = "try" /\ e.ok = r.ok /\ e.call = c /\ e.kind = k
    BY <1>3 DEF ThreadStates
<1>. HIDE DEF e
<1>. QED  BY <1>0, <1>4, Zenon DEF NewCall

LEMMA WriteFields ==
    ASSUME NEW r \in ThreadStates, NEW n \in Int,
           NEW w, w = [r EXCEPT !.pc = "wait", !.tries = 0, !.polls = n]
    PROVE  SameCall(w, r, "wait")
<1>. DEFINE a == [r EXCEPT !.pc = "wait"]
            b == [a EXCEPT !.tries = 0]
            d == [b EXCEPT !.polls = n]
<1>0. w = d
    BY Zenon
<1>1. a \in ThreadStates /\ a.pc = "wait" /\ a.call = r.call /\ a.kind = r.kind /\ a.ok = r.ok
    BY DEF ThreadStates, Pcs
<1>. HIDE DEF a
<1>2. b \in ThreadStates /\ b.pc = "wait" /\ b.call = r.call /\ b.kind = r.kind /\ b.ok = r.ok
    BY <1>1 DEF ThreadStates
<1>. HIDE DEF b
<1>3. d \in ThreadStates /\ d.pc = "wait" /\ d.call = r.call /\ d.kind = r.kind /\ d.ok = r.ok
    BY <1>2 DEF ThreadStates
<1>. HIDE DEF d
<1>. QED  BY <1>0, <1>3, Zenon DEF SameCall

LEMMA NotPostedFields ==
    ASSUME NEW r \in ThreadStates, NEW n \in Int, NEW pc \in Pcs,
           NEW w, w = [r EXCEPT !.tries = n, !.pc = pc]
    PROVE  SameCall(w, r, pc)
<1>. DEFINE a == [r EXCEPT !.tries = n]
            b == [a EXCEPT !.pc = pc]
<1>0. w = b
    BY Zenon
<1>1. a \in ThreadStates /\ a.call = r.call /\ a.kind = r.kind /\ a.ok = r.ok
    BY DEF ThreadStates
<1>. HIDE DEF a
<1>2. b \in ThreadStates /\ b.pc = pc /\ b.call = r.call /\ b.kind = r.kind /\ b.ok = r.ok
    BY <1>1 DEF ThreadStates
<1>. HIDE DEF b
<1>. QED  BY <1>0, <1>2, Zenon DEF SameCall

LEMMA WaitEndsFields ==
    ASSUME NEW r \in ThreadStates, NEW ok \in BOOLEAN,
           NEW w, w = [r EXCEPT !.pc = "return", !.polls = 0, !.ok = ok]
    PROVE  WaitOver(w, r, ok)
<1>. DEFINE a == [r EXCEPT !.pc = "return"]
            b == [a EXCEPT !.polls = 0]
            d == [b EXCEPT !.ok = ok]
<1>0. w = d
    BY Zenon
<1>1. a \in ThreadStates /\ a.pc = "return" /\ a.call = r.call /\ a.kind = r.kind
    BY DEF ThreadStates, Pcs
<1>. HIDE DEF a
<1>2. b \in ThreadStates /\ b.pc = "return" /\ b.call = r.call /\ b.kind = r.kind
    BY <1>1 DEF ThreadStates
<1>. HIDE DEF b
<1>3. d \in ThreadStates /\ d.pc = "return" /\ d.call = r.call /\ d.kind = r.kind /\ d.ok = ok
    BY <1>2 DEF ThreadStates
<1>. HIDE DEF d
<1>. QED  BY <1>0, <1>3, Zenon DEF WaitOver

LEMMA ReadFields ==
    ASSUME NEW r \in ThreadStates, NEW pc \in Pcs, NEW s \in {0} \cup Sockets,
           NEW w, w = [r EXCEPT !.pc = pc, !.s = s]
    PROVE  ReaderOn(w, pc, s)
<1>. DEFINE a == [r EXCEPT !.pc = pc]
            b == [a EXCEPT !.s = s]
<1>0. w = b
    BY Zenon
<1>1. a \in ThreadStates /\ a.pc = pc
    BY DEF ThreadStates
<1>. HIDE DEF a
<1>2. b \in ThreadStates /\ b.pc = pc /\ b.s = s
    BY <1>1 DEF ThreadStates
<1>. HIDE DEF b
<1>. QED  BY <1>0, <1>2, Zenon DEF ReaderOn

LEMMA CopyFields ==
    ASSUME NEW r \in ThreadStates, NEW m \in Messages,
           NEW w, w = [r EXCEPT !.pc = "copy", !.m = m]
    PROVE  ReaderWith(w, "copy", m)
<1>. DEFINE a == [r EXCEPT !.pc = "copy"]
            b == [a EXCEPT !.m = m]
<1>0. w = b
    BY Zenon
<1>1. a \in ThreadStates /\ a.pc = "copy"
    BY DEF ThreadStates, Pcs
<1>. HIDE DEF a
<1>2. b \in ThreadStates /\ b.pc = "copy" /\ b.m = m
    BY <1>1 DEF ThreadStates
<1>. HIDE DEF b
<1>. QED  BY <1>0, <1>2, Zenon DEF ReaderWith

\* The steps of a caller: where it goes, and that its call stays its own.
LEMMA CallerThread ==
    ASSUME DiagTypeOK, NEW t \in Callers
    PROVE  /\ Try(t) => /\ OnlyThread(t) /\ thread'[t].pc \in {"post", "asleep"}
                        /\ thread'[t].call = thread[t].call /\ thread'[t].kind = thread[t].kind
                        /\ thread'[t].ok = thread[t].ok
                        /\ thread'[t].pc = "asleep" => ~is_connected /\ EnterConnect(t)
           /\ Write(t) => /\ OnlyThread(t) /\ thread'[t].pc = "wait"
                          /\ thread'[t].call = thread[t].call /\ thread'[t].kind = thread[t].kind
                          /\ thread'[t].ok = thread[t].ok
           /\ NotPosted(t) => /\ OnlyThread(t) /\ thread'[t].pc \in {"try", "return"}
                              /\ thread'[t].call = thread[t].call /\ thread'[t].kind = thread[t].kind
                              /\ thread'[t].ok = thread[t].ok
           /\ Poll(t) => /\ OnlyThread(t) /\ thread'[t].pc = "wait"
                         /\ thread'[t].call = thread[t].call /\ thread'[t].kind = thread[t].kind
                         /\ thread'[t].ok = thread[t].ok
           /\ WaitEnds(t) => /\ OnlyThread(t) /\ thread'[t].pc = "return"
                             /\ thread'[t].call = thread[t].call /\ thread'[t].kind = thread[t].kind
                             /\ thread'[t].ok => TrmResponseRcvd
           /\ Return(t) => /\ OnlyThread(t) /\ thread'[t].pc \in {"idle", "off"}
                           /\ thread'[t].call = 0 /\ ~thread'[t].ok
           /\ \A kind \in Kinds : Begin(t, kind) =>
                  /\ OnlyThread(t) /\ thread'[t].pc = "try"
                  /\ thread'[t].call = lastCall' /\ thread'[t].ok = thread[t].ok
<1>t. t \in Threads /\ thread[t] \in ThreadStates
    BY ThreadTypes, Zenon
<1>1. ASSUME Try(t)
      PROVE  /\ OnlyThread(t) /\ thread'[t].pc \in {"post", "asleep"}
             /\ thread'[t].call = thread[t].call /\ thread'[t].kind = thread[t].kind
             /\ thread'[t].ok = thread[t].ok
             /\ thread'[t].pc = "asleep" => ~is_connected /\ EnterConnect(t)
    <2>1. CASE is_connected
        <3>1. thread' = [thread EXCEPT ![t].pc = "post"] /\ "post" \in Pcs
            BY <1>1, <2>1 DEF Try, Goto, Pcs
        <3>. QED  BY <1>t, <3>1, GotoThread, Zenon
    <2>2. CASE ~is_connected
        <3>1. thread' = [thread EXCEPT ![t].pc = "asleep"] /\ "asleep" \in Pcs /\ EnterConnect(t)
            BY <1>1, <2>2 DEF Try, Goto, EnterConnect, Pcs
        <3>. QED  BY <1>t, <2>2, <3>1, GotoThread, Zenon
    <2>. QED  BY <2>1, <2>2
<1>2. ASSUME Write(t)
      PROVE  /\ OnlyThread(t) /\ thread'[t].pc = "wait"
             /\ thread'[t].call = thread[t].call /\ thread'[t].kind = thread[t].kind
             /\ thread'[t].ok = thread[t].ok
    <2>. DEFINE w == [thread[t] EXCEPT !.pc = "wait", !.tries = 0, !.polls = Polls]
    <2>1. thread' = [thread EXCEPT ![t] = w]
        BY <1>2, Zenon DEF Write
    <2>2. Polls \in Int
        BY DiagAssumption
    <2>w. w = [thread[t] EXCEPT !.pc = "wait", !.tries = 0, !.polls = Polls]
        OBVIOUS
    <2>. HIDE DEF w
    <2>3. SameCall(w, thread[t], "wait")
        BY <1>t, <2>w, <2>2, WriteFields, Zenon
    <2>. QED  BY <1>t, <2>1, <2>3, ReplaceThread, Zenon DEF SameCall, NewCall
<1>3. ASSUME NotPosted(t)
      PROVE  /\ OnlyThread(t) /\ thread'[t].pc \in {"try", "return"}
             /\ thread'[t].call = thread[t].call /\ thread'[t].kind = thread[t].kind
             /\ thread'[t].ok = thread[t].ok
    <2>. DEFINE n == thread[t].tries - 1
                pc == IF thread[t].tries > 1 THEN "try" ELSE "return"
                w == [thread[t] EXCEPT !.tries = n, !.pc = pc]
    <2>1. thread' = [thread EXCEPT ![t] = w]
        BY <1>3, Zenon DEF NotPosted
    <2>2. n \in Int /\ pc \in Pcs /\ pc \in {"try", "return"}
        BY <1>t DEF Pcs, ThreadStates
    <2>. HIDE DEF n, pc
    <2>w. w = [thread[t] EXCEPT !.tries = n, !.pc = pc]
        OBVIOUS
    <2>. HIDE DEF w
    <2>3. SameCall(w, thread[t], pc)
        BY <1>t, <2>w, <2>2, NotPostedFields, Zenon
    <2>. QED  BY <1>t, <2>1, <2>2, <2>3, ReplaceThread, Zenon DEF SameCall, WaitOver
<1>4. ASSUME Poll(t)
      PROVE  /\ OnlyThread(t) /\ thread'[t].pc = "wait"
             /\ thread'[t].call = thread[t].call /\ thread'[t].kind = thread[t].kind
             /\ thread'[t].ok = thread[t].ok
    BY <1>4, <1>t, ThreadTypes DEF Poll, PollsLeft, OnlyThread, At, ThreadStates
<1>5. ASSUME WaitEnds(t)
      PROVE  /\ OnlyThread(t) /\ thread'[t].pc = "return"
             /\ thread'[t].call = thread[t].call /\ thread'[t].kind = thread[t].kind
             /\ thread'[t].ok => TrmResponseRcvd
    <2>. DEFINE ok == thread[t].polls # 0
                w == [thread[t] EXCEPT !.pc = "return", !.polls = 0, !.ok = ok]
    <2>1. thread' = [thread EXCEPT ![t] = w]
        BY <1>5, Zenon DEF WaitEnds
    <2>2. ok \in BOOLEAN /\ (ok => TrmResponseRcvd)
        BY <1>5, Zenon DEF WaitEnds
    <2>. HIDE DEF ok
    <2>w. w = [thread[t] EXCEPT !.pc = "return", !.polls = 0, !.ok = ok]
        OBVIOUS
    <2>. HIDE DEF w
    <2>3. WaitOver(w, thread[t], ok)
        BY <1>t, <2>w, <2>2, WaitEndsFields, Zenon
    <2>. QED  BY <1>t, <2>1, <2>2, <2>3, ReplaceThread, Zenon DEF SameCall, WaitOver
<1>6. ASSUME Return(t)
      PROVE  /\ OnlyThread(t) /\ thread'[t].pc \in {"idle", "off"}
             /\ thread'[t].call = 0 /\ ~thread'[t].ok
    <2>1. PICK pc \in {"idle", "off"} : thread' = [thread EXCEPT ![t] = ThreadAt(pc)]
        BY <1>6, Zenon DEF Return
    <2>2. /\ ThreadAt(pc) \in ThreadStates /\ ThreadAt(pc).pc = pc
          /\ ThreadAt(pc).call = 0 /\ ~ThreadAt(pc).ok
        BY ThreadAtType, ZenonT(60) DEF Pcs, ThreadAt
    <2>3. OnlyThread(t) /\ thread'[t] = ThreadAt(pc)
        BY <1>t, <2>1, <2>2, ReplaceThread, Zenon
    <2>. QED  BY <2>1, <2>2, <2>3, Zenon
<1>7. ASSUME NEW kind \in Kinds, Begin(t, kind)
      PROVE  /\ OnlyThread(t) /\ thread'[t].pc = "try"
             /\ thread'[t].call = lastCall' /\ thread'[t].ok = thread[t].ok
    <2>. DEFINE w == [thread[t] EXCEPT !.pc = "try", !.tries = Tries, !.call = lastCall', !.kind = kind]
    <2>1. thread' = [thread EXCEPT ![t] = w]
        BY <1>7, Zenon DEF Begin
    <2>2. Tries \in Int /\ lastCall' \in Nat /\ kind \in CallKinds
        BY <1>7, DiagAssumption DEF Begin, DiagTypeOK, CallKinds
    <2>w. w = [thread[t] EXCEPT !.pc = "try", !.tries = Tries, !.call = lastCall', !.kind = kind]
        OBVIOUS
    <2>. HIDE DEF w
    <2>3. NewCall(w, thread[t], lastCall')
        BY <1>t, <2>w, <2>2, BeginFields, Zenon
    <2>. QED  BY <1>t, <2>1, <2>3, ReplaceThread, Zenon DEF SameCall, NewCall
<1>. QED  BY <1>1, <1>2, <1>3, <1>4, <1>5, <1>6, <1>7, Zenon

\* The steps of the reader.
LEMMA ReaderThread ==
    ASSUME DiagTypeOK
    PROVE  /\ Top => /\ OnlyThread(reader)
                     /\ is_connected => /\ thread'[reader].pc = IF trm_diag_fd # 0 THEN "read" ELSE "top"
                                        /\ thread'[reader].s = trm_diag_fd
                     /\ ~is_connected => thread'[reader].pc = "asleep" /\ EnterConnect(reader)
           /\ BackToTop => OnlyThread(reader) /\ thread'[reader].pc = "top"
           /\ ReadFrame => /\ OnlyThread(reader) /\ thread'[reader].pc = "copy"
                           /\ thread'[reader].m = Head(stream[thread[reader].s])
           /\ ReadCrossed => /\ OnlyThread(reader) /\ thread'[reader].pc = "payload"
                             /\ thread'[reader].s = trm_diag_fd
           /\ \A pc \in Pcs : Goto(reader, pc) =>
                  /\ OnlyThread(reader) /\ thread'[reader].pc = pc /\ thread'[reader].m = thread[reader].m
<1>t. reader \in Threads /\ thread[reader] \in ThreadStates
    BY ThreadTypes, Zenon
<1>1. ASSUME NEW pc \in Pcs, Goto(reader, pc)
      PROVE  OnlyThread(reader) /\ thread'[reader].pc = pc /\ thread'[reader].m = thread[reader].m
    <2>1. thread' = [thread EXCEPT ![reader].pc = pc]
        BY <1>1, Zenon DEF Goto
    <2>. QED  BY <1>t, <2>1, GotoThread, Zenon
<1>2. ASSUME BackToTop
      PROVE  OnlyThread(reader) /\ thread'[reader].pc = "top"
    <2>1. ThreadAt("top") \in ThreadStates /\ ThreadAt("top").pc = "top"
        BY ThreadAtType DEF Pcs, ThreadAt
    <2>2. OnlyThread(reader) /\ thread'[reader] = ThreadAt("top")
        BY <1>t, <1>2, <2>1, ReplaceThread, Zenon DEF BackToTop
    <2>. QED  BY <2>1, <2>2, Zenon
<1>3. ASSUME Top, ~is_connected
      PROVE  OnlyThread(reader) /\ thread'[reader].pc = "asleep" /\ EnterConnect(reader)
    <2>1. Goto(reader, "asleep") /\ EnterConnect(reader)
        BY <1>3, Zenon DEF Top, EnterConnect
    <2>2. "asleep" \in Pcs
        BY DEF Pcs
    <2>. QED  BY <1>1, <2>1, <2>2, Zenon
<1>4. ASSUME NEW pc \in Pcs, trm_diag_fd \in {0} \cup Sockets,
             thread' = [thread EXCEPT ![reader] = [@ EXCEPT !.pc = pc, !.s = trm_diag_fd]]
      PROVE  OnlyThread(reader) /\ thread'[reader].pc = pc /\ thread'[reader].s = trm_diag_fd
    <2>. DEFINE w == [thread[reader] EXCEPT !.pc = pc, !.s = trm_diag_fd]
    <2>1. thread' = [thread EXCEPT ![reader] = w]
        BY <1>4, Zenon
    <2>w. w = [thread[reader] EXCEPT !.pc = pc, !.s = trm_diag_fd]
        OBVIOUS
    <2>. HIDE DEF w
    <2>2. ReaderOn(w, pc, trm_diag_fd)
        BY <1>t, <1>4, <2>w, ReadFields, Zenon
    <2>. QED  BY <1>t, <2>1, <2>2, ReplaceThread, Zenon DEF ReaderOn
<1>fd. trm_diag_fd \in {0} \cup Sockets
    BY Zenon DEF DiagTypeOK
<1>5. ASSUME Top, is_connected
      PROVE  /\ OnlyThread(reader)
             /\ thread'[reader].pc = IF trm_diag_fd # 0 THEN "read" ELSE "top"
             /\ thread'[reader].s = trm_diag_fd
    <2>. DEFINE pc == IF trm_diag_fd # 0 THEN "read" ELSE "top"
    <2>1. thread' = [thread EXCEPT ![reader] = [@ EXCEPT !.pc = pc, !.s = trm_diag_fd]]
        BY <1>5, Zenon DEF Top
    <2>2. pc \in Pcs
        BY DEF Pcs
    <2>. HIDE DEF pc
    <2>3. OnlyThread(reader) /\ thread'[reader].pc = pc /\ thread'[reader].s = trm_diag_fd
        BY <1>fd, <1>4, <2>1, <2>2, Zenon
    <2>. QED  BY <2>3, Zenon DEF pc
<1>6. ASSUME ReadCrossed
      PROVE  OnlyThread(reader) /\ thread'[reader].pc = "payload" /\ thread'[reader].s = trm_diag_fd
    <2>1. thread' = [thread EXCEPT ![reader] = [@ EXCEPT !.pc = "payload", !.s = trm_diag_fd]]
        BY <1>6, Zenon DEF ReadCrossed
    <2>2. "payload" \in Pcs
        BY DEF Pcs
    <2>. QED  BY <1>fd, <1>4, <2>1, <2>2, Zenon
<1>7. ASSUME ReadFrame
      PROVE  /\ OnlyThread(reader) /\ thread'[reader].pc = "copy"
             /\ thread'[reader].m = Head(stream[thread[reader].s])
    <2>. DEFINE h == Head(stream[thread[reader].s])
                w == [thread[reader] EXCEPT !.pc = "copy", !.m = h]
    <2>1. thread' = [thread EXCEPT ![reader] = w]
        BY <1>7, Zenon DEF ReadFrame
    <2>2. h \in Messages
        BY <1>7 DEF ReadFrame, At, Reading, DiagTypeOK
    <2>. HIDE DEF h
    <2>w. w = [thread[reader] EXCEPT !.pc = "copy", !.m = h]
        OBVIOUS
    <2>. HIDE DEF w
    <2>3. ReaderWith(w, "copy", h)
        BY <1>t, <2>w, <2>2, CopyFields, Zenon
    <2>. QED  BY <1>t, <2>1, <2>3, ReplaceThread, Zenon DEF h, ReaderWith
<1>. QED  BY <1>1, <1>2, <1>3, <1>5, <1>6, <1>7, Zenon DEF Top

\* A caller or the reader leaves connect_to_trm; at the end of its
\* initialisation main starts the reader.
LEMMA ConnectedThread ==
    ASSUME DiagTypeOK, NEW t \in Threads, Connected(t)
    PROVE  /\ thread' \in [Threads -> ThreadStates]
           /\ t = main /\ thread[main].call = 0 =>
                /\ thread'[main] = ThreadAt("idle") /\ thread'[reader].pc = "top"
                /\ \A u \in Threads \ {main, reader} : thread'[u] = thread[u]
           /\ t = reader => OnlyThread(t) /\ thread'[t].pc = "top"
           /\ t # reader /\ ~(t = main /\ thread[main].call = 0) =>
                /\ OnlyThread(t) /\ thread'[t].pc = "post"
                /\ thread'[t].call = thread[t].call /\ thread'[t].kind = thread[t].kind
                /\ thread'[t].ok = thread[t].ok
<1>t. thread \in [Threads -> ThreadStates] /\ main \in Threads /\ reader \in Threads /\ reader # main
    BY ThreadTypes, Zenon
<1>1. CASE t = main /\ thread[main].call = 0
    <2>1. ThreadAt("idle") \in ThreadStates
        BY ThreadAtType DEF Pcs
    <2>2. thread' = [thread EXCEPT ![main] = ThreadAt("idle"), ![reader].pc = "top"]
        BY <1>1, Zenon DEF Connected
    <2>3. thread' \in [Threads -> ThreadStates]
        BY <1>t, <2>1, <2>2 DEF ThreadStates, Pcs
    <2>4. /\ thread'[main] = ThreadAt("idle") /\ thread'[reader].pc = "top"
          /\ \A u \in Threads \ {main, reader} : thread'[u] = thread[u]
        BY <1>t, <2>2 DEF ThreadStates
    <2>. QED  BY <1>t, <1>1, <2>3, <2>4, Zenon
<1>2. CASE ~(t = main /\ thread[main].call = 0) /\ t = reader
    <2>1. BackToTop
        BY <1>2, Zenon DEF Connected, BackToTop
    <2>. QED  BY <1>2, <2>1, ReaderThread, Zenon DEF OnlyThread
<1>3. CASE ~(t = main /\ thread[main].call = 0) /\ t # reader
    <2>1. thread' = [thread EXCEPT ![t].pc = "post"]
        BY <1>3, Zenon DEF Connected
    <2>2. "post" \in Pcs
        BY DEF Pcs
    <2>. QED  BY <1>3, <2>1, <2>2, GotoThread, Zenon DEF OnlyThread
<1>. QED  BY <1>1, <1>2, <1>3, Zenon

----------------------------------------------------------------------------
(* The types are kept.                                                     *)

LEMMA ConnectType ==
    ASSUME DiagTypeOK, NEW t \in Threads, connect_to_trm(t)
    PROVE  DiagTypeOK'
<1>1. /\ thread' \in [Threads -> ThreadStates]
      /\ Reading' => Reading /\ thread'[reader] = thread[reader]
    <2>1. Connected(t) /\ reader \in Threads
        BY ThreadTypes, Zenon DEF connect_to_trm
    <2>2. thread' \in [Threads -> ThreadStates]
          /\ (thread'[reader].pc = "top" \/ thread'[reader] = thread[reader])
        BY <2>1, ConnectedThread, Zenon DEF OnlyThread
    <2>. QED  BY <2>2 DEF Reading
<1>2. /\ trm_diag_fd' \in {0} \cup Sockets
      /\ is_connected' \in BOOLEAN
      /\ sock' \in [Sockets -> {"none", "live", "known", "dead"}]
      /\ shut' \subseteq Sockets
      /\ stream' \in [Sockets -> Seq(Messages)]
      /\ asked' \subseteq [call : Nat, kind : CallKinds, on : Sockets]
    <2>1. CASE DialNew
        <3>1. is_connected' = TRUE /\ UNCHANGED <<shut, stream, asked>>
            BY <2>1, Zenon DEF DialNew
        <3>2. PICK s \in Sockets : trm_diag_fd' = s /\ sock' = [sock EXCEPT ![s] = "live"]
            BY <2>1, Zenon DEF DialNew
        <3>3. sock' \in [Sockets -> {"none", "live", "known", "dead"}]
            BY <3>2 DEF DiagTypeOK
        <3>. QED  BY <3>1, <3>2, <3>3, Zenon DEF DiagTypeOK
    <2>2. CASE DialFails
        <3>1. trm_diag_fd' \in {0} \cup Sockets /\ UNCHANGED is_connected
            BY <2>2 DEF DialFails, FdAfterFailure
        <3>2. CASE trm_diag_fd = 0
            BY <2>2, <3>1, <3>2, Zenon DEF DialFails, DiagTypeOK
        <3>3. CASE trm_diag_fd # 0 /\ Reading /\ thread[reader].s = trm_diag_fd
            <4>1. shut' = shut \cup {trm_diag_fd} /\ UNCHANGED <<sock, stream, asked>>
                BY <2>2, <3>3, Zenon DEF DialFails
            <4>2. shut' \subseteq Sockets
                BY <3>3, <4>1 DEF DiagTypeOK
            <4>. QED  BY <3>1, <4>1, <4>2, Zenon DEF DiagTypeOK
        <3>4. CASE trm_diag_fd # 0 /\ ~(Reading /\ thread[reader].s = trm_diag_fd)
            <4>1. Gone(trm_diag_fd) /\ UNCHANGED shut
                BY <2>2, <3>4, Zenon DEF DialFails
            <4>2. trm_diag_fd \in Sockets
                BY <3>4 DEF DiagTypeOK
            <4>3. is_connected' \in BOOLEAN /\ shut' \subseteq Sockets
                BY <3>1, <4>1, Zenon DEF DiagTypeOK
            <4>. QED  BY <3>1, <4>1, <4>2, <4>3, GoneType
        <3>. QED  BY <3>2, <3>3, <3>4
    <2>. QED  BY <2>1, <2>2, Zenon DEF connect_to_trm
<1>3. UNCHANGED <<shared, together, up, calls, killed>>
    BY Zenon DEF connect_to_trm
<1>4. Reading' /\ ~killed' => thread'[reader].s \in Sockets
    BY <1>1, <1>3, Zenon DEF DiagTypeOK
<1>. QED  BY <1>1, <1>2, <1>3, <1>4, Zenon DEF DiagTypeOK, shared, calls

\* A caller's steps leave the reader alone.
LEMMA CallerType ==
    ASSUME DiagTypeOK, NEW t \in Callers, CallStep(t) \/ \E kind \in Kinds : Begin(t, kind)
    PROVE  DiagTypeOK'
<1>t. thread \in [Threads -> ThreadStates] /\ t \in Threads /\ reader \in Threads /\ reader # t
    BY DiagAssumption, Zenon DEF DiagTypeOK, Threads, Callers
<1>1. /\ thread' \in [Threads -> ThreadStates]
      /\ thread'[reader] = thread[reader]
    BY <1>t, CallerThread, Zenon DEF CallStep, OnlyThread
<1>2. /\ UNCHANGED <<trm_diag_fd, is_connected, up, shut, stream, conDeviceList>>
      /\ ~killed
    BY Zenon DEF CallStep, Try, Write, NotPosted, Poll, WaitEnds, Return, Begin, At, shared, link, server
<1>3. /\ together' \in BOOLEAN /\ TrmResponseRcvd' \in BOOLEAN /\ killed' \in BOOLEAN
    <2>1. CASE Try(t)
        BY <2>1, Zenon DEF Try, FlagCleared, EnterConnect, DiagTypeOK
    <2>2. CASE Write(t)
        BY <2>2, Zenon DEF Write, DiagTypeOK, shared, link
    <2>3. CASE ~Try(t) /\ ~Write(t)
        BY <2>3, Zenon DEF CallStep, NotPosted, Poll, WaitEnds, Return, Begin, DiagTypeOK, shared, link
    <2>. QED  BY <2>1, <2>2, <2>3
<1>4. /\ responseStr' \in Int /\ lastCall' \in Nat /\ undisturbed' \subseteq Int
      /\ sock' \in [Sockets -> {"none", "live", "known", "dead"}]
      /\ asked' \subseteq [call : Nat, kind : CallKinds, on : Sockets]
    <2>1. CASE Try(t)
        BY <2>1 DEF Try, Empty, DiagTypeOK, server, calls
    <2>2. CASE Write(t)
        <3>1. CASE trm_diag_fd # 0 /\ Live(trm_diag_fd)
            <4>1. trm_diag_fd \in Sockets
                BY <3>1 DEF DiagTypeOK
            <4>. DEFINE a == [call |-> thread[t].call, kind |-> thread[t].kind, on |-> trm_diag_fd]
            <4>2. a \in [call : Nat, kind : CallKinds, on : Sockets]
                BY <1>t, <4>1 DEF ThreadStates
            <4>3. asked' = asked \cup {a} /\ sock' = [sock EXCEPT ![trm_diag_fd] = "known"]
                BY <2>2, <3>1, Zenon DEF Write
            <4>. HIDE DEF a
            <4>4. UNCHANGED <<responseStr, lastCall, undisturbed>>
                BY <2>2, Zenon DEF Write, shared, calls
            <4>. QED  BY <4>1, <4>2, <4>3, <4>4, SMTT(60) DEF DiagTypeOK
        <3>2. CASE ~(trm_diag_fd # 0 /\ Live(trm_diag_fd))
            BY <2>2, <3>2 DEF Write, DiagTypeOK, shared, calls
        <3>. QED  BY <3>1, <3>2
    <2>3. CASE Return(t)
        BY <2>3, Zenon DEF Return, DiagTypeOK, shared, server
    <2>4. ASSUME NEW kind \in Kinds, Begin(t, kind)
          PROVE  /\ responseStr' \in Int /\ lastCall' \in Nat /\ undisturbed' \subseteq Int
                 /\ sock' \in [Sockets -> {"none", "live", "known", "dead"}]
                 /\ asked' \subseteq [call : Nat, kind : CallKinds, on : Sockets]
        <3>1. lastCall' = lastCall + 1 /\ undisturbed' \subseteq {lastCall'}
              /\ UNCHANGED <<responseStr, sock, asked>>
            BY <2>4, Zenon DEF Begin, shared, server
        <3>. QED  BY <3>1 DEF DiagTypeOK
    <2>5. CASE NotPosted(t) \/ Poll(t) \/ WaitEnds(t)
        BY <2>5, Zenon DEF NotPosted, Poll, WaitEnds, DiagTypeOK, shared, server, calls
    <2>. QED  BY <2>1, <2>2, <2>3, <2>4, <2>5, Zenon DEF CallStep
<1>5. Reading' /\ ~killed' => thread'[reader].s \in Sockets
    BY <1>1, <1>2, Zenon DEF Reading, DiagTypeOK
<1>. QED  BY <1>1, <1>2, <1>3, <1>4, <1>5, Zenon DEF DiagTypeOK

LEMMA ReaderType ==
    ASSUME DiagTypeOK, ReaderStep
    PROVE  DiagTypeOK'
<1>t. thread \in [Threads -> ThreadStates] /\ reader \in Threads
    BY ThreadTypes, Zenon
<1>top. BackToTop => thread' \in [Threads -> ThreadStates] /\ ~Reading'
    <2>1. BackToTop => thread' \in [Threads -> ThreadStates] /\ thread'[reader].pc = "top"
        BY ReaderThread, Zenon DEF OnlyThread
    <2>. QED  BY <2>1 DEF Reading
<1>1. CASE Top
    <2>1. thread' \in [Threads -> ThreadStates] /\ (Reading' => thread'[reader].s \in Sockets)
        <3>1. thread' \in [Threads -> ThreadStates]
            BY <1>1, ReaderThread, Zenon DEF OnlyThread
        <3>2. thread'[reader].pc \in {"read", "payload"} => trm_diag_fd # 0 /\ thread'[reader].s = trm_diag_fd
            <4>1. CASE is_connected /\ trm_diag_fd # 0
                BY <1>1, <4>1, ReaderThread, Zenon
            <4>2. CASE is_connected /\ trm_diag_fd = 0
                <5>1. thread'[reader].pc = "top"
                    BY <1>1, <4>2, ReaderThread, Zenon
                <5>. QED  BY <5>1
            <4>3. CASE ~is_connected
                <5>1. thread'[reader].pc = "asleep"
                    BY <1>1, <4>3, ReaderThread, Zenon
                <5>. QED  BY <5>1
            <4>. QED  BY <4>1, <4>2, <4>3, Zenon
        <3>. QED  BY <3>1, <3>2 DEF Reading, DiagTypeOK
    <2>2. is_connected' \in BOOLEAN /\ together' \in BOOLEAN
        BY <1>1, Zenon DEF Top, EnterConnect, DiagTypeOK
    <2>. QED  BY <1>1, <2>1, <2>2, Zenon DEF Top, DiagTypeOK, shared, server, calls
<1>2. CASE ReadEnds
    <2>. DEFINE s == thread[reader].s
    <2>1. s \in Sockets /\ 0 \in 0 .. Len(stream[s]) /\ Consume(s, 0)
        BY <1>2 DEF ReadEnds, DiagTypeOK
    <2>2. thread' \in [Threads -> ThreadStates] /\ ~Reading'
        BY <1>top, <1>2, Zenon DEF ReadEnds
    <2>. HIDE DEF s
    <2>3. is_connected' = FALSE
        BY <1>2, Zenon DEF ReadEnds, ConnectedAfterLoss
    <2>. QED  BY <1>2, <2>1, <2>2, <2>3, ConsumeType, Zenon DEF ReadEnds, DiagTypeOK, shared, calls
<1>3. CASE ReadFrame
    <2>. DEFINE s == thread[reader].s
    <2>1. s \in Sockets /\ 1 \in 0 .. Len(stream[s]) /\ Consume(s, 1) /\ Head(stream[s]) \in Messages
        BY <1>3 DEF ReadFrame, At, Reading, DiagTypeOK
    <2>. HIDE DEF s
    <2>3. thread' \in [Threads -> ThreadStates] /\ ~Reading'
        <3>1. thread' \in [Threads -> ThreadStates] /\ thread'[reader].pc = "copy"
            BY <1>3, ReaderThread, Zenon DEF OnlyThread
        <3>. QED  BY <3>1 DEF Reading
    <2>4. responseStr' \in Int
        BY <1>3 DEF ReadFrame, Empty
    <2>. QED  BY <1>3, <2>1, <2>3, <2>4, ConsumeType, Zenon DEF ReadFrame, DiagTypeOK, link, calls
<1>4. CASE ReadCrossed
    <2>. DEFINE s == thread[reader].s
    <2>1. s \in Sockets /\ 1 \in 0 .. Len(stream[s]) /\ Consume(s, 1)
        BY <1>4 DEF ReadCrossed, At, Reading, DiagTypeOK
    <2>. HIDE DEF s
    <2>2. thread' \in [Threads -> ThreadStates] /\ thread'[reader].s = trm_diag_fd
        BY <1>4, ReaderThread, Zenon DEF OnlyThread
    <2>3. killed' \in BOOLEAN /\ (~killed' => trm_diag_fd # 0)
        BY <1>4, Zenon DEF ReadCrossed
    <2>4. ~killed' => thread'[reader].s \in Sockets
        BY <2>2, <2>3 DEF DiagTypeOK
    <2>. QED  BY <1>4, <2>1, <2>2, <2>3, <2>4, ConsumeType, Zenon
              DEF ReadCrossed, DiagTypeOK, shared, link, calls
<1>5. CASE ReadMisaligned
    <2>. DEFINE s == thread[reader].s
    <2>1. s \in Sockets
        BY <1>5 DEF ReadMisaligned, DiagTypeOK
    <2>2. PICK n \in 1 .. Len(stream[s]) :
              /\ Consume(s, n)
              /\ UNCHANGED is_connected \/ is_connected' = FALSE
              /\ UNCHANGED responseStr \/ responseStr' = Garbage
        BY <1>5, Zenon DEF ReadMisaligned
    <2>3. thread' \in [Threads -> ThreadStates] /\ ~Reading'
        BY <1>top, <1>5, Zenon DEF ReadMisaligned
    <2>4. n \in 0 .. Len(stream[s]) /\ responseStr' \in Int
        BY <2>1, <2>2 DEF Garbage, DiagTypeOK
    <2>. HIDE DEF s
    <2>. QED  BY <1>5, <2>1, <2>2, <2>3, <2>4, ConsumeType, ZenonT(60) DEF ReadMisaligned, DiagTypeOK, calls
<1>6. CASE CopyText
    <2>1. thread' \in [Threads -> ThreadStates] /\ ~Reading' /\ responseStr' \in Int
        BY <1>t, <1>6 DEF CopyText, Goto, Reading, ThreadStates, Pcs, Event, Messages
    <2>. QED  BY <1>6, <2>1, Zenon DEF CopyText, DiagTypeOK, link, server, calls
<1>7. CASE Decode
    <2>1. thread' \in [Threads -> ThreadStates] /\ ~Reading' /\ conDeviceList' \in Int
        <3>1. CASE HasDevices(thread[reader].m)
            <4>1. conDeviceList' = Partial /\ Goto(reader, "rebuild") /\ "rebuild" \in Pcs
                BY <1>7, <3>1 DEF Decode, Pcs
            <4>2. thread' \in [Threads -> ThreadStates] /\ thread'[reader].pc = "rebuild"
                BY <4>1, ReaderThread, Zenon DEF OnlyThread
            <4>. QED  BY <4>1, <4>2 DEF Reading, Partial
        <3>2. CASE ~HasDevices(thread[reader].m)
            BY <1>top, <1>7, <3>2, Zenon DEF Decode, DiagTypeOK
        <3>. QED  BY <3>1, <3>2
    <2>. QED  BY <1>7, <2>1, Zenon DEF Decode, DiagTypeOK, link, server, calls
<1>8. CASE Rebuild
    <2>1. thread' \in [Threads -> ThreadStates] /\ ~Reading' /\ conDeviceList' \in Int
        BY <1>t, <1>top, <1>8 DEF Rebuild, ThreadStates, Messages
    <2>. QED  BY <1>8, <2>1, Zenon DEF Rebuild, DiagTypeOK, link, server, calls
<1>. QED  BY <1>1, <1>2, <1>3, <1>4, <1>5, <1>6, <1>7, <1>8, Zenon DEF ReaderStep

LEMMA ServerType ==
    ASSUME DiagTypeOK,
           (\E a \in asked : Answer(a)) \/ (\E s \in Sockets : Notify(s)) \/ ServerStops \/ ServerStarts
    PROVE  DiagTypeOK'
<1>1. ASSUME NEW a \in asked, Answer(a)
      PROVE  DiagTypeOK'
    <2>1. a \in [call : Nat, kind : CallKinds, on : Sockets]
        BY Zenon DEF DiagTypeOK
    <2>2. PICK what \in {"answer", "refusal", "big"} :
              stream' = [stream EXCEPT ![a.on] = Append(@, Message(what, a.call, a.kind))]
        BY <1>1, Zenon DEF Answer
    <2>3. Message(what, a.call, a.kind) \in Messages
        BY <2>1, SMTT(60) DEF Message, Messages
    <2>4. stream' \in [Sockets -> Seq(Messages)] /\ asked' \subseteq [call : Nat, kind : CallKinds, on : Sockets]
        BY <1>1, <2>1, <2>2, <2>3 DEF Answer, DiagTypeOK
    <2>. QED  BY <1>1, <2>4, Zenon DEF Answer, DiagTypeOK, Reading, shared, link, calls
<1>2. ASSUME NEW s \in Sockets, Notify(s)
      PROVE  DiagTypeOK'
    <2>1. Notification \in Messages
        BY DEF Notification, Message, Messages, CallKinds
    <2>2. stream' \in [Sockets -> Seq(Messages)] /\ undisturbed' \subseteq Int
        BY <1>2, <2>1 DEF Notify, DiagTypeOK
    <2>. QED  BY <1>2, <2>2, Zenon DEF Notify, DiagTypeOK, Reading, shared, link
<1>3. CASE ServerStops
    <2>1. /\ sock' \in [Sockets -> {"none", "live", "known", "dead"}]
          /\ asked' \subseteq [call : Nat, kind : CallKinds, on : Sockets]
        BY <1>3 DEF ServerStops, DiagTypeOK
    <2>. QED  BY <1>3, <2>1, Zenon DEF ServerStops, DiagTypeOK, Reading, shared, link, calls
<1>4. CASE ServerStarts
    BY <1>4, Zenon DEF ServerStarts, DiagTypeOK, Reading, shared, link, calls
<1>. QED  BY <1>1, <1>2, <1>3, <1>4, Zenon

\* init is a step of main that either starts the reader or goes to sleep.
LEMMA InitStep ==
    ASSUME DiagTypeOK, init
    PROVE  /\ is_connected => Connected(main) /\ UNCHANGED together
           /\ ~is_connected => EnterConnect(main) /\ OnlyThread(main) /\ thread'[main].pc = "asleep"
                               /\ thread'[main].call = thread[main].call
                               /\ thread'[main].ok = thread[main].ok
           /\ UNCHANGED <<shared, trm_diag_fd, is_connected, server, calls, killed>>
<1>1. main \in Threads /\ "asleep" \in Pcs
    BY ThreadTypes DEF Pcs
<1>2. ~is_connected => EnterConnect(main) /\ thread' = [thread EXCEPT ![main].pc = "asleep"]
    BY Zenon DEF init, EnterConnect, Goto
<1>. QED  BY <1>1, <1>2, GotoThread, Zenon DEF init

LEMMA TypeStep ==
    ASSUME DiagTypeOK, DiagNext
    PROVE  DiagTypeOK'
<1>1. CASE init
    <2>1. UNCHANGED <<shared, trm_diag_fd, is_connected, server, calls, killed>>
        BY <1>1, InitStep, Zenon
    <2>2. together' \in BOOLEAN
        BY <1>1, Zenon DEF init, EnterConnect, DiagTypeOK
    <2>t. main \in Threads /\ reader \in Threads /\ reader # main
        BY ThreadTypes, Zenon
    <2>3. /\ thread' \in [Threads -> ThreadStates]
          /\ thread'[reader] = thread[reader] \/ thread'[reader].pc \in {"top", "asleep"}
        <3>1. CASE is_connected
            BY <1>1, <2>t, <3>1, InitStep, ConnectedThread, Zenon DEF OnlyThread
        <3>2. CASE ~is_connected
            BY <1>1, <2>t, <3>2, InitStep, Zenon DEF OnlyThread
        <3>. QED  BY <3>1, <3>2
    <2>4. Reading' => Reading /\ thread'[reader] = thread[reader]
        BY <2>3 DEF Reading
    <2>. QED  BY <2>1, <2>2, <2>3, <2>4, Zenon DEF DiagTypeOK, shared, server, calls
<1>2. ASSUME NEW t \in Threads, ThreadStep(t), ~init
      PROVE  DiagTypeOK'
    BY <1>2, ConnectType, CallerType, ReaderType, Zenon DEF ThreadStep
<1>3. ASSUME NEW t \in Callers, NEW kind \in Kinds, Begin(t, kind)
      PROVE  DiagTypeOK'
    BY <1>3, CallerType, Zenon
<1>4. CASE (\E a \in asked : Answer(a)) \/ (\E s \in Sockets : Notify(s)) \/ ServerStops \/ ServerStarts
    BY <1>4, ServerType, Zenon
<1>. QED  BY <1>1, <1>2, <1>3, <1>4, Zenon DEF DiagNext

----------------------------------------------------------------------------
(* The connection stays aligned.                                           *)

\* A step that connects and closes nothing, and after which nobody has begun
\* to read or to sleep.
LEMMA AlignedFrame ==
    ASSUME DiagTypeOK, Aligned, UNCHANGED <<trm_diag_fd, is_connected, shut>>,
           \A s \in Sockets : sock'[s] = "none" <=> sock[s] = "none",
           Reading' => Reading /\ thread'[reader].s = thread[reader].s,
           \A t \in Threads : thread'[t].pc = "asleep" => thread[t].pc = "asleep"
    PROVE  Aligned'
<1>1. trm_diag_fd # 0 => trm_diag_fd \in Sockets
    BY DEF DiagTypeOK
<1>. QED  BY <1>1, Zenon DEF Aligned

\* A thread enters connect_to_trm, and no other is in there.
LEMMA AlignedSleep ==
    ASSUME DiagTypeOK, Aligned, NEW t \in Threads, OnlyThread(t), thread'[t].pc = "asleep", EnterConnect(t),
           ~together', ~is_connected, UNCHANGED <<trm_diag_fd, is_connected, shut, sock>>
    PROVE  Aligned'
<1>1. \A u \in Threads \ {t} : thread'[u].pc # "asleep"
    BY Zenon DEF EnterConnect, OnlyThread
<1>2. reader \in Threads
    BY ThreadTypes, Zenon
<1>3. ~Reading'
    <2>1. ~Reading
        BY Zenon DEF Aligned
    <2>2. thread'[reader] = thread[reader] \/ thread'[reader].pc = "asleep"
        BY <1>2, Zenon DEF OnlyThread
    <2>. QED  BY <2>1, <2>2 DEF Reading
<1>. QED  BY <1>1, <1>3, Zenon DEF Aligned

LEMMA AlignedConnect ==
    ASSUME DiagTypeOK, Aligned, NEW t \in Threads, connect_to_trm(t)
    PROVE  Aligned'
<1>t. reader \in Threads /\ main \in Threads /\ main # reader
    BY ThreadTypes, Zenon
<1>s. 0 \notin Sockets
    BY DEF Sockets
<1>0. thread[t].pc = "asleep" /\ ~is_connected /\ ~Reading
    BY Zenon DEF connect_to_trm, At, Aligned
<1>1. /\ thread'[reader].pc = "top" \/ thread'[reader] = thread[reader]
      /\ \A u \in Threads : thread'[u].pc # "asleep"
    <2>0. Connected(t)
        BY Zenon DEF connect_to_trm
    <2>1. \A u \in Threads \ {t} : thread[u].pc # "asleep"
        BY <1>0, Zenon DEF Aligned
    <2>2. CASE t = main /\ thread[main].call = 0
        <3>1. /\ thread'[main] = ThreadAt("idle") /\ thread'[reader].pc = "top"
              /\ \A u \in Threads \ {main, reader} : thread'[u] = thread[u]
            BY <2>0, <2>2, ConnectedThread, Zenon
        <3>2. thread'[main].pc # "asleep" /\ thread'[reader].pc # "asleep"
            BY <3>1 DEF ThreadAt
        <3>. QED  BY <2>1, <2>2, <3>1, <3>2, Zenon
    <2>3. CASE ~(t = main /\ thread[main].call = 0)
        <3>1. OnlyThread(t) /\ thread'[t].pc \in {"top", "post"} /\ (t = reader => thread'[t].pc = "top")
            BY <2>0, <2>3, ConnectedThread, Zenon
        <3>2. thread'[t].pc # "asleep"
            BY <3>1
        <3>. QED  BY <1>t, <2>1, <3>1, <3>2, Zenon DEF OnlyThread
    <2>. QED  BY <2>2, <2>3
<1>2. ~Reading'
    BY <1>0, <1>1 DEF Reading
<1>3. CASE DialNew
    <2>1. PICK s \in Sockets : trm_diag_fd' = s /\ sock' = [sock EXCEPT ![s] = "live"]
        BY <1>3, Zenon DEF DialNew
    <2>2. trm_diag_fd = 0 /\ is_connected' /\ shut' = {}
        BY <1>3, Zenon DEF DialNew, Aligned
    <2>3. \A r \in Sockets : sock[r] = "none"
        BY <1>s, <2>2, Zenon DEF Aligned
    <2>4. sock'[s] # "none" /\ \A r \in Sockets : sock'[r] # "none" => r = s
        BY <2>1, <2>3 DEF DiagTypeOK
    <2>5. s # 0
        BY <1>s, Zenon
    <2>. QED  BY <1>1, <1>2, <2>1, <2>2, <2>4, <2>5, Zenon DEF Aligned
<1>4. CASE DialFails
    <2>1. trm_diag_fd' = 0 /\ ~is_connected'
        BY <1>0, <1>4, Zenon DEF DialFails, FdAfterFailure
    <2>2. shut' = {} /\ \A r \in Sockets : sock'[r] = "none"
        <3>1. CASE trm_diag_fd = 0
            <4>1. UNCHANGED <<shut, sock>>
                BY <1>4, <3>1, Zenon DEF DialFails
            <4>. QED  BY <1>s, <3>1, <4>1, Zenon DEF Aligned
        <3>2. CASE trm_diag_fd # 0
            <4>1. shut' = shut /\ sock' = [sock EXCEPT ![trm_diag_fd] = "none"]
                BY <1>0, <1>4, <3>2, Zenon DEF DialFails, Gone
            <4>. QED  BY <4>1 DEF Aligned, DiagTypeOK
        <3>. QED  BY <3>1, <3>2
    <2>. QED  BY <1>1, <1>2, <2>1, <2>2, Zenon DEF Aligned
<1>. QED  BY <1>3, <1>4, Zenon DEF connect_to_trm

LEMMA AlignedCaller ==
    ASSUME DiagTypeOK, Aligned, NEW t \in Callers, CallStep(t) \/ \E kind \in Kinds : Begin(t, kind),
           ~together'
    PROVE  Aligned'
<1>t. t \in Threads /\ reader \in Threads /\ reader # t
    BY ThreadTypes, Zenon
<1>1. CASE thread'[t].pc = "asleep" /\ Try(t)
    <2>1. OnlyThread(t) /\ EnterConnect(t) /\ ~is_connected
        BY <1>1, CallerThread, Zenon
    <2>2. UNCHANGED <<trm_diag_fd, is_connected, shut, sock>>
        BY <1>1, Zenon DEF Try, server
    <2>. QED  BY <1>t, <1>1, <2>1, <2>2, AlignedSleep, Zenon
<1>2. CASE ~(thread'[t].pc = "asleep" /\ Try(t))
    <2>1. OnlyThread(t) /\ thread'[t].pc # "asleep"
        <3>1. CASE Try(t)
            BY <1>2, <3>1, CallerThread, Zenon
        <3>2. CASE ~Try(t)
            <4>1. OnlyThread(t) /\ thread'[t].pc \in {"wait", "try", "return", "idle", "off"}
                BY <3>2, CallerThread, Zenon DEF CallStep
            <4>. QED  BY <4>1
        <3>. QED  BY <3>1, <3>2
    <2>2. UNCHANGED <<trm_diag_fd, is_connected, shut>>
        BY Zenon DEF CallStep, Try, Write, NotPosted, Poll, WaitEnds, Return, Begin, link, server
    <2>3. \A s \in Sockets : sock'[s] = "none" <=> sock[s] = "none"
        <3>1. CASE Write(t) /\ trm_diag_fd # 0 /\ Live(trm_diag_fd)
            <4>1. sock' = [sock EXCEPT ![trm_diag_fd] = "known"]
                BY <3>1, Zenon DEF Write
            <4>2. sock[trm_diag_fd] \in {"live", "known"}
                BY <3>1, Zenon DEF Live
            <4>. QED  BY <4>1, <4>2 DEF DiagTypeOK
        <3>2. CASE ~(Write(t) /\ trm_diag_fd # 0 /\ Live(trm_diag_fd))
            <4>1. sock' = sock
                BY <3>2, Zenon DEF CallStep, Try, Write, NotPosted, Poll, WaitEnds, Return, Begin, server
            <4>. QED  BY <4>1
        <3>. QED  BY <3>1, <3>2
    <2>4. thread'[reader] = thread[reader] /\ \A u \in Threads : thread'[u].pc = "asleep" => thread[u].pc = "asleep"
        BY <1>t, <2>1, Zenon DEF OnlyThread
    <2>5. Reading' => Reading /\ thread'[reader].s = thread[reader].s
        BY <2>4, Zenon DEF Reading
    <2>. QED  BY <2>2, <2>3, <2>4, <2>5, AlignedFrame, Zenon
<1>. QED  BY <1>1, <1>2

LEMMA AlignedReader ==
    ASSUME DiagTypeOK, Aligned, ReaderStep, ~together'
    PROVE  Aligned'
<1>t. reader \in Threads
    BY ThreadTypes, Zenon
<1>0. Reading => is_connected /\ thread[reader].s = trm_diag_fd /\ trm_diag_fd \notin shut
                 /\ \A u \in Threads : thread[u].pc # "asleep"
    BY Zenon DEF Aligned
<1>1. CASE Top /\ is_connected
    <2>1. trm_diag_fd # 0 /\ UNCHANGED <<trm_diag_fd, sock, shut>> /\ is_connected' = TRUE
        BY <1>1, Zenon DEF Top, Aligned, server
    <2>2. OnlyThread(reader) /\ thread'[reader].pc = "read" /\ thread'[reader].s = trm_diag_fd
        BY <1>1, <2>1, ReaderThread, Zenon
    <2>3. \A u \in Threads : thread'[u].pc # "asleep"
        <3>1. "read" # "asleep"
            OBVIOUS
        <3>. QED  BY <1>1, <2>2, <3>1, Zenon DEF OnlyThread, Aligned
    <2>. QED  BY <1>1, <2>1, <2>2, <2>3, Zenon DEF Aligned
<1>2. CASE Top /\ ~is_connected
    <2>1. OnlyThread(reader) /\ thread'[reader].pc = "asleep" /\ EnterConnect(reader)
        BY <1>2, ReaderThread, Zenon
    <2>2. UNCHANGED <<trm_diag_fd, is_connected, shut, sock>>
        BY <1>2, Zenon DEF Top, server
    <2>. QED  BY <1>t, <1>2, <2>1, <2>2, AlignedSleep, Zenon
<1>3. CASE ReadEnds \/ ReadMisaligned
    <2>1. OnlyThread(reader) /\ thread'[reader].pc = "top"
        BY <1>3, ReaderThread, Zenon DEF ReadEnds, ReadMisaligned
    <2>2. Reading /\ \E n \in Int : Consume(thread[reader].s, n)
        <3>1. 0 \in Int /\ \A n \in 1 .. Len(stream[thread[reader].s]) : n \in Int
            OBVIOUS
        <3>. QED  BY <1>3, <3>1, Zenon DEF ReadEnds, ReadMisaligned
    <2>3. UNCHANGED <<trm_diag_fd, sock, shut>>
        BY <1>0, <1>3, <2>2, Zenon DEF ReadEnds, ReadMisaligned, Consume
    <2>4. is_connected' => is_connected
        BY <1>3, Zenon DEF ReadEnds, ReadMisaligned, ConnectedAfterLoss
    <2>5. ~Reading' /\ \A u \in Threads : thread'[u].pc # "asleep"
        <3>1. thread'[reader].pc # "asleep" /\ ~Reading'
            BY <2>1 DEF Reading
        <3>. QED  BY <1>0, <2>1, <2>2, <3>1, Zenon DEF OnlyThread
    <2>. QED  BY <2>3, <2>4, <2>5, Zenon DEF Aligned
<1>4. CASE ReadFrame
    <2>1. OnlyThread(reader) /\ thread'[reader].pc = "copy"
        BY <1>4, ReaderThread, Zenon
    <2>2. Reading
        BY <1>4 DEF ReadFrame, At, Reading
    <2>3. UNCHANGED <<trm_diag_fd, is_connected, sock, shut>>
        BY <1>0, <1>4, <2>2, Zenon DEF ReadFrame, Consume, link
    <2>4. ~Reading' /\ \A u \in Threads : thread'[u].pc # "asleep"
        <3>1. thread'[reader].pc # "asleep" /\ ~Reading'
            BY <2>1 DEF Reading
        <3>. QED  BY <1>0, <2>1, <2>2, <3>1, Zenon DEF OnlyThread
    <2>. QED  BY <2>3, <2>4, AlignedFrame, Zenon
<1>5. ~ReadCrossed
    <2>1. ReadCrossed => Reading
        BY DEF ReadCrossed, At, Reading
    <2>. QED  BY <1>0, <2>1, Zenon DEF ReadCrossed
<1>6. CASE CopyText \/ Decode \/ Rebuild
    <2>1. OnlyThread(reader) /\ thread'[reader].pc \in {"decode", "rebuild", "top"}
        <3>1. "decode" \in Pcs /\ "rebuild" \in Pcs
            BY DEF Pcs
        <3>. QED  BY <1>6, <3>1, ReaderThread, Zenon DEF CopyText, Decode, Rebuild
    <2>2. UNCHANGED <<trm_diag_fd, is_connected, sock, shut>>
        BY <1>6, Zenon DEF CopyText, Decode, Rebuild, link, server
    <2>3. thread'[reader].pc # "asleep" /\ ~Reading'
        BY <2>1 DEF Reading
    <2>4. \A u \in Threads : thread'[u].pc = "asleep" => thread[u].pc = "asleep"
        BY <2>1, <2>3, Zenon DEF OnlyThread
    <2>. QED  BY <2>2, <2>3, <2>4, AlignedFrame, Zenon
<1>. QED  BY <1>1, <1>2, <1>3, <1>4, <1>5, <1>6, Zenon DEF ReaderStep

LEMMA AlignedStep ==
    ASSUME DiagTypeOK, AloneAligned, DiagNext
    PROVE  AloneAligned'
<1>. SUFFICES ASSUME ~together' PROVE Aligned'
    BY Zenon DEF AloneAligned
<1>0. Aligned
    <2>1. together => together'
        BY ZenonT(60) DEF DiagNext, ThreadStep, CallStep, ReaderStep, connect_to_trm, init, EnterConnect, Try, Write,
            NotPosted, Poll, WaitEnds, Return, Top, ReadEnds, ReadFrame, ReadCrossed, ReadMisaligned, CopyText,
            Decode, Rebuild, Begin, Answer, Notify, ServerStops, ServerStarts, link
    <2>. QED  BY <2>1, Zenon DEF AloneAligned
<1>1. CASE init
    <2>t. main \in Threads /\ reader \in Threads /\ reader # main
        BY ThreadTypes, Zenon
    <2>1. UNCHANGED <<trm_diag_fd, is_connected, shut, sock>>
        BY <1>1, InitStep, Zenon DEF server
    <2>2. CASE is_connected
        <3>0. Connected(main) /\ \A u \in Threads : thread[u].pc # "asleep"
            BY <1>0, <1>1, <2>2, InitStep, Zenon DEF Aligned
        <3>1. /\ thread'[reader] = thread[reader] \/ thread'[reader].pc = "top"
              /\ \A u \in Threads \ {main, reader} : thread'[u] = thread[u]
              /\ thread'[main] = ThreadAt("idle") \/ thread'[main].pc = "post"
            BY <2>t, <3>0, ConnectedThread, Zenon DEF OnlyThread
        <3>2. thread'[main].pc # "asleep" /\ thread'[reader].pc # "asleep"
            BY <2>t, <3>0, <3>1 DEF ThreadAt
        <3>3. Reading' => Reading /\ thread'[reader].s = thread[reader].s
            BY <3>1 DEF Reading
        <3>4. \A u \in Threads : thread'[u].pc = "asleep" => thread[u].pc = "asleep"
            BY <3>0, <3>1, <3>2, Zenon
        <3>. QED  BY <1>0, <2>1, <3>3, <3>4, AlignedFrame, Zenon
    <2>3. CASE ~is_connected
        BY <1>0, <1>1, <2>t, <2>1, <2>3, InitStep, AlignedSleep, Zenon
    <2>. QED  BY <2>2, <2>3
<1>2. ASSUME NEW t \in Threads, ThreadStep(t), ~init
      PROVE  Aligned'
    BY <1>0, <1>2, AlignedConnect, AlignedCaller, AlignedReader, Zenon DEF ThreadStep
<1>3. ASSUME NEW t \in Callers, NEW kind \in Kinds, Begin(t, kind)
      PROVE  Aligned'
    BY <1>0, <1>3, AlignedCaller, Zenon
<1>4. CASE (\E a \in asked : Answer(a)) \/ (\E s \in Sockets : Notify(s)) \/ ServerStops \/ ServerStarts
    <2>1. UNCHANGED <<trm_diag_fd, is_connected, shut, thread>>
        BY <1>4, Zenon DEF Answer, Notify, ServerStops, ServerStarts, link
    <2>2. \A s \in Sockets : sock'[s] = "none" <=> sock[s] = "none"
        <3>1. CASE ServerStops
            BY <3>1 DEF ServerStops, DiagTypeOK, Live
        <3>2. CASE ~ServerStops
            <4>1. sock' = sock
                BY <1>4, <3>2, Zenon DEF Answer, Notify, ServerStarts
            <4>. QED  BY <4>1
        <3>. QED  BY <3>1, <3>2
    <2>3. Reading' => Reading /\ thread'[reader].s = thread[reader].s
        BY <2>1, Zenon DEF Reading
    <2>4. \A u \in Threads : thread'[u].pc = "asleep" => thread[u].pc = "asleep"
        BY <2>1, Zenon
    <2>. QED  BY <1>0, <2>1, <2>2, <2>3, <2>4, AlignedFrame, Zenon
<1>. QED  BY <1>1, <1>2, <1>3, <1>4, Zenon DEF DiagNext

----------------------------------------------------------------------------
(* Calls keep their numbers.                                               *)

\* The conditions on caller t.
Numbered(t) ==
    /\ thread[t].pc \in {"try", "post", "wait", "return"} => thread[t].call # 0
    /\ thread[t].pc = "asleep" => thread[t].call # 0 \/ t = main
    /\ thread[t].pc \in {"try", "post", "asleep", "wait", "return"} \/ thread[t].call = 0
    /\ thread[t].ok => thread[t].pc = "return"

LEMMA NumberedMove ==
    ASSUME NEW t, Numbered(t), thread[t].pc # "return", thread'[t].pc \in {"try", "post", "wait", "return"},
           thread'[t].call = thread[t].call, thread[t].call # 0, thread'[t].ok = thread[t].ok
    PROVE  Numbered(t)'
BY DEF Numbered

LEMMA NumberedConnect ==
    ASSUME DiagTypeOK, \A t \in Callers : Numbered(t), NEW u \in Threads, Connected(u),
           thread[u].pc = "asleep" \/ (u = main /\ thread[u].pc = "init")
    PROVE  \A t \in Callers : Numbered(t)'
<1>t. /\ \A t \in Callers : t \in Threads /\ t # reader
      /\ main \in Callers /\ reader \in Threads
    BY ThreadTypes, Zenon
<1>1. CASE u = main /\ thread[main].call = 0
    <2>1. /\ thread'[main] = ThreadAt("idle")
          /\ \A t \in Threads \ {main, reader} : thread'[t] = thread[t]
        BY <1>1, ConnectedThread, Zenon
    <2>2. Numbered(main)'
        BY <2>1 DEF Numbered, ThreadAt
    <2>. QED  BY <1>t, <2>1, <2>2, ZenonT(60) DEF Numbered
<1>2. CASE u = reader
    <2>1. OnlyThread(u)
        BY <1>2, ConnectedThread, Zenon
    <2>. QED  BY <1>t, <1>2, <2>1, Zenon DEF Numbered, OnlyThread
<1>3. CASE u # reader /\ ~(u = main /\ thread[main].call = 0)
    <2>1. /\ OnlyThread(u) /\ thread'[u].pc = "post"
          /\ thread'[u].call = thread[u].call /\ thread'[u].ok = thread[u].ok
        BY <1>3, ConnectedThread, Zenon
    <2>2. u \in Callers
        BY <1>3, Zenon DEF Threads
    <2>3. thread[u].call # 0 /\ thread[u].pc # "return"
        <3>1. CASE thread[u].pc = "asleep"
            <4>1. "asleep" # "return"
                OBVIOUS
            <4>. QED  BY <1>3, <2>2, <3>1, <4>1, Zenon DEF Numbered
        <3>2. CASE u = main /\ thread[u].pc = "init"
            <4>1. "init" # "return"
                BY SMTT(60)
            <4>. QED  BY <1>3, <3>2, <4>1, Zenon
        <3>. QED  BY <3>1, <3>2
    <2>4. Numbered(u)'
        BY <2>1, <2>2, <2>3, NumberedMove
    <2>. QED  BY <1>t, <2>1, <2>4, ZenonT(60) DEF Numbered, OnlyThread
<1>. QED  BY <1>1, <1>2, <1>3, Zenon

LEMMA NumberedCaller ==
    ASSUME DiagTypeOK, \A t \in Callers : Numbered(t), NEW u \in Callers,
           CallStep(u) \/ \E kind \in Kinds : Begin(u, kind)
    PROVE  \A t \in Callers : Numbered(t)'
<1>t. \A t \in Callers : t \in Threads
    BY ThreadTypes, Zenon
<1>0. Numbered(u)
    OBVIOUS
<1>1. CASE Try(u)
    <2>1. /\ OnlyThread(u) /\ thread'[u].pc \in {"post", "asleep"}
          /\ thread'[u].call = thread[u].call /\ thread'[u].ok = thread[u].ok
        BY <1>1, CallerThread, Zenon
    <2>2. thread[u].pc = "try"
        BY <1>1, Zenon DEF Try, At
    <2>3. Numbered(u)'
        BY <1>0, <2>1, <2>2 DEF Numbered
    <2>. QED  BY <1>t, <2>1, <2>3, ZenonT(60) DEF OnlyThread, Numbered
<1>2. CASE Write(u) \/ NotPosted(u) \/ Poll(u)
    <2>1. /\ OnlyThread(u) /\ thread'[u].pc \in {"try", "wait", "return"}
          /\ thread'[u].call = thread[u].call /\ thread'[u].ok = thread[u].ok
        BY <1>2, CallerThread, Zenon
    <2>2. thread[u].pc \in {"post", "wait"}
        BY <1>2, ZenonT(60) DEF Write, NotPosted, Poll, At
    <2>3. Numbered(u)'
        BY <1>0, <2>1, <2>2 DEF Numbered
    <2>. QED  BY <1>t, <2>1, <2>3, ZenonT(60) DEF OnlyThread, Numbered
<1>3. CASE WaitEnds(u)
    <2>1. OnlyThread(u) /\ thread'[u].pc = "return" /\ thread'[u].call = thread[u].call
        BY <1>3, CallerThread, Zenon
    <2>2. thread[u].pc = "wait"
        BY <1>3, ZenonT(60) DEF WaitEnds, At
    <2>3. Numbered(u)'
        BY <1>0, <2>1, <2>2 DEF Numbered
    <2>. QED  BY <1>t, <2>1, <2>3, Zenon DEF OnlyThread, Numbered
<1>4. CASE Return(u)
    <2>1. OnlyThread(u) /\ thread'[u].pc \in {"idle", "off"} /\ thread'[u].call = 0 /\ ~thread'[u].ok
        BY <1>4, CallerThread, Zenon
    <2>2. Numbered(u)'
        BY <2>1 DEF Numbered
    <2>. QED  BY <1>t, <2>1, <2>2, ZenonT(60) DEF OnlyThread, Numbered
<1>5. ASSUME NEW kind \in Kinds, Begin(u, kind)
      PROVE  \A t \in Callers : Numbered(t)'
    <2>1. /\ OnlyThread(u) /\ thread'[u].pc = "try"
          /\ thread'[u].call = lastCall' /\ thread'[u].ok = thread[u].ok
        BY <1>5, CallerThread, Zenon
    <2>2. thread[u].pc = "idle" /\ lastCall' = lastCall + 1
        BY <1>5, Zenon DEF Begin, At
    <2>3. lastCall' # 0
        BY <2>2, SMTT(60) DEF DiagTypeOK
    <2>4. Numbered(u)'
        BY <1>0, <2>1, <2>2, <2>3 DEF Numbered
    <2>. QED  BY <1>t, <2>1, <2>4, ZenonT(60) DEF OnlyThread, Numbered
<1>. QED  BY <1>1, <1>2, <1>3, <1>4, <1>5, Zenon DEF CallStep

\* The other steps leave the callers where they are.
LEMMA CallersStay ==
    ASSUME DiagTypeOK,
           \/ ReaderStep
           \/ \E a \in asked : Answer(a)
           \/ \E s \in Sockets : Notify(s)
           \/ ServerStops \/ ServerStarts
    PROVE  \A t \in Callers : thread'[t] = thread[t]
<1>t. \A t \in Callers : t \in Threads /\ t # reader
    BY ThreadTypes, Zenon
<1>1. CASE ReaderStep
    <2>1. "decode" \in Pcs /\ "rebuild" \in Pcs
        BY DEF Pcs
    <2>2. OnlyThread(reader)
        <3>1. CASE Top \/ ReadFrame \/ ReadCrossed
            BY <3>1, ReaderThread, Zenon
        <3>2. CASE ReadEnds \/ ReadMisaligned \/ CopyText \/ Decode \/ Rebuild
            BY <2>1, <3>2, ReaderThread, Zenon DEF ReadEnds, ReadMisaligned, CopyText, Decode, Rebuild
        <3>. QED  BY <1>1, <3>1, <3>2, Zenon DEF ReaderStep
    <2>. QED  BY <1>t, <2>2, Zenon DEF OnlyThread
<1>2. CASE ~ReaderStep
    BY <1>2, Zenon DEF Answer, Notify, ServerStops, ServerStarts
<1>. QED  BY <1>1, <1>2

LEMMA NumberedStep ==
    ASSUME DiagTypeOK, CallsAreNumbered, DiagNext
    PROVE  CallsAreNumbered'
<1>0. \A t \in Callers : Numbered(t)
    BY Zenon DEF CallsAreNumbered, Numbered
<1>1. \A t \in Callers : Numbered(t)'
    <2>1. ASSUME NEW u \in Threads, connect_to_trm(u)
          PROVE  \A t \in Callers : Numbered(t)'
        <3>1. Connected(u) /\ thread[u].pc = "asleep"
            BY <2>1, Zenon DEF connect_to_trm, At
        <3>. QED  BY <1>0, <3>1, NumberedConnect, Zenon
    <2>2. CASE init
        <3>t. main \in Threads /\ main \in Callers /\ \A t \in Callers : t \in Threads
            BY ThreadTypes, Zenon
        <3>1. thread[main].pc = "init"
            BY <2>2, Zenon DEF init, At
        <3>2. CASE is_connected
            <4>1. Connected(main)
                BY <2>2, <3>2, InitStep, Zenon
            <4>. QED  BY <1>0, <3>t, <3>1, <4>1, NumberedConnect, Zenon
        <3>3. CASE ~is_connected
            <4>1. /\ OnlyThread(main) /\ thread'[main].pc = "asleep"
                  /\ thread'[main].call = thread[main].call /\ thread'[main].ok = thread[main].ok
                BY <2>2, <3>3, InitStep, Zenon
            <4>2. Numbered(main)'
                BY <1>0, <3>t, <3>1, <4>1, SMTT(60) DEF Numbered
            <4>. QED  BY <1>0, <3>t, <4>1, <4>2, ZenonT(60) DEF OnlyThread, Numbered
        <3>. QED  BY <3>2, <3>3
    <2>3. ASSUME NEW u \in Callers, CallStep(u) \/ \E kind \in Kinds : Begin(u, kind)
          PROVE  \A t \in Callers : Numbered(t)'
        BY <1>0, <2>3, NumberedCaller, Zenon
    <2>4. CASE \/ ReaderStep
               \/ \E a \in asked : Answer(a)
               \/ \E s \in Sockets : Notify(s)
               \/ ServerStops \/ ServerStarts
        BY <1>0, <2>4, CallersStay, Zenon DEF Numbered
    <2>. QED  BY <2>1, <2>2, <2>3, <2>4, Zenon DEF DiagNext, ThreadStep
<1>2. undisturbed' \subseteq {lastCall'} \ {0}
    <2>1. ASSUME NEW u \in Callers, NEW kind \in Kinds, Begin(u, kind)
          PROVE  undisturbed' \subseteq {lastCall'} \ {0}
        <3>1. undisturbed' \subseteq {lastCall'} /\ lastCall' = lastCall + 1
            BY <2>1, Zenon DEF Begin
        <3>2. lastCall' # 0
            BY <3>1 DEF DiagTypeOK
        <3>. QED  BY <3>1, <3>2, Zenon
    <2>2. CASE ~\E u \in Callers, kind \in Kinds : Begin(u, kind)
        <3>1. lastCall' = lastCall /\ undisturbed' \subseteq undisturbed
            BY <2>2, ZenonT(60) DEF DiagNext, ThreadStep, CallStep, ReaderStep, connect_to_trm, init, Try, Write,
                NotPosted, Poll, WaitEnds, Return, Top, ReadEnds, ReadFrame, ReadCrossed, ReadMisaligned,
                CopyText, Decode, Rebuild, Answer, Notify, ServerStops, ServerStarts, calls
        <3>. QED  BY <3>1, ZenonT(60) DEF CallsAreNumbered
    <2>. QED  BY <2>1, <2>2, Zenon
<1>. QED  BY <1>1, <1>2, Zenon DEF CallsAreNumbered, Numbered

\* Nothing is half made once the reader has gone on.
LEMMA WholeListStep ==
    ASSUME DiagTypeOK, CallsAreNumbered, WholeList, DiagNext
    PROVE  WholeList'
<1>. DEFINE Starting == thread[main].pc = "init" \/ (thread[main].pc = "asleep" /\ thread[main].call = 0)
<1>t. /\ \A u \in Callers : u \in Threads /\ u # reader
      /\ main \in Callers /\ reader \in Threads
    BY ThreadTypes, Zenon
<1>0. ASSUME UNCHANGED conDeviceList, thread'[reader] = thread[reader], Starting' => Starting
      PROVE  WholeList'
    BY <1>0, SMTT(60) DEF WholeList
<1>1. ASSUME NEW u \in Threads, Connected(u), UNCHANGED conDeviceList,
             thread[u].pc = "asleep" \/ (u = main /\ thread[u].pc = "init")
      PROVE  WholeList'
    <2>1. CASE u = main /\ thread[main].call = 0
        <3>1. thread'[main] = ThreadAt("idle") /\ thread'[reader].pc = "top"
            BY <1>1, <2>1, ConnectedThread, Zenon
        <3>2. ~Starting'
            BY <3>1 DEF ThreadAt
        <3>3. thread[reader].pc # "rebuild"
            <4>1. thread[reader].pc = "off" /\ "off" # "rebuild"
                BY <1>1, <2>1, Zenon DEF WholeList
            <4>. QED  BY <4>1, Zenon
        <3>. QED  BY <1>1, <3>2, <3>3, Zenon DEF WholeList
    <2>2. CASE u = reader
        <3>1. OnlyThread(reader) /\ thread'[main] = thread[main]
            BY <1>t, <1>1, <2>2, ConnectedThread, Zenon DEF OnlyThread
        <3>2. thread[reader].pc # "rebuild" /\ thread[reader].pc # "off"
            <4>1. thread[reader].pc = "asleep"
                BY <1>t, <1>1, <2>2, Zenon
            <4>. QED  BY <4>1
        <3>. QED  BY <1>1, <3>1, <3>2, Zenon DEF WholeList
    <2>3. CASE u # reader /\ ~(u = main /\ thread[main].call = 0)
        <3>1. OnlyThread(u) /\ thread'[u].pc = "post"
            BY <1>1, <2>3, ConnectedThread, Zenon
        <3>2. u = main => ~Starting'
            BY <3>1
        <3>3. thread'[reader] = thread[reader] /\ (u # main => thread'[main] = thread[main])
            BY <1>t, <2>3, <3>1, Zenon DEF OnlyThread
        <3>. QED  BY <1>0, <1>1, <3>2, <3>3, Zenon
    <2>. QED  BY <2>1, <2>2, <2>3, Zenon
<1>2. ASSUME NEW u \in Threads, connect_to_trm(u)
      PROVE  WholeList'
    BY <1>1, <1>2, Zenon DEF connect_to_trm, At, shared
<1>3. CASE init
    <2>1. thread[main].pc = "init" /\ UNCHANGED conDeviceList
        BY <1>3, InitStep, Zenon DEF init, At, shared
    <2>2. CASE is_connected
        BY <1>t, <1>1, <1>3, <2>1, <2>2, InitStep, Zenon
    <2>3. CASE ~is_connected
        <3>1. thread'[reader] = thread[reader]
            BY <1>t, <1>3, <2>3, InitStep, Zenon DEF OnlyThread
        <3>. QED  BY <1>0, <2>1, <3>1, Zenon
    <2>. QED  BY <2>2, <2>3
<1>4. ASSUME NEW u \in Callers, CallStep(u) \/ \E kind \in Kinds : Begin(u, kind)
      PROVE  WholeList'
    <2>1. OnlyThread(u) /\ UNCHANGED conDeviceList
        BY <1>4, CallerThread, Zenon DEF CallStep, Try, Write, NotPosted, Poll, WaitEnds, Return, Begin, shared
    <2>2. u = main => ~Starting'
        <3>1. CASE Return(u)
            <4>1. thread'[u].pc \in {"idle", "off"}
                BY <3>1, CallerThread, Zenon
            <4>. QED  BY <4>1
        <3>2. CASE ~Return(u)
            <4>1. thread'[u].pc \in {"try", "post", "asleep", "wait", "return"}
                BY <1>4, <3>2, CallerThread, ZenonT(60) DEF CallStep
            <4>2. thread'[u].pc # "init"
                BY <4>1
            <4>3. thread'[u].pc = "asleep" => Try(u)
                BY <1>4, <3>2, CallerThread, SMTT(60) DEF CallStep
            <4>4. Try(u) => thread[u].call # 0 /\ thread'[u].call = thread[u].call
                <5>1. Try(u) => thread[u].pc = "try"
                    BY Zenon DEF Try, At
                <5>. QED  BY <5>1, CallerThread, Zenon DEF CallsAreNumbered
            <4>. QED  BY <4>2, <4>3, <4>4, Zenon
        <3>. QED  BY <3>1, <3>2
    <2>3. thread'[reader] = thread[reader] /\ (u # main => thread'[main] = thread[main])
        BY <1>t, <2>1, Zenon DEF OnlyThread
    <2>. QED  BY <1>0, <2>1, <2>2, <2>3, Zenon
<1>5. CASE ReaderStep
    <2>1. thread'[main] = thread[main]
        BY <1>t, <1>5, CallersStay, Zenon
    <2>2. thread[reader].pc # "off"
        BY <1>5 DEF ReaderStep, Top, ReadEnds, ReadFrame, ReadCrossed, ReadMisaligned,
                    CopyText, Decode, Rebuild, At, Reading
    <2>3. thread'[reader].pc # "rebuild" => conDeviceList' # Partial
        <3>1. CASE Rebuild
            BY <1>t, <3>1, ThreadTypes DEF Rebuild, Partial, ThreadStates, Messages
        <3>2. CASE Decode
            <4>1. thread[reader].pc = "decode" /\ "decode" # "rebuild" /\ "rebuild" \in Pcs
                BY <3>2 DEF Decode, At, Pcs
            <4>. QED  BY <3>2, <4>1, ReaderThread, Zenon DEF Decode, WholeList
        <3>3. CASE ~Rebuild /\ ~Decode
            <4>1. UNCHANGED conDeviceList
                BY <1>5, <3>3, Zenon DEF ReaderStep, Top, ReadEnds, ReadFrame, ReadCrossed, ReadMisaligned,
                                         CopyText, shared
            <4>2. thread[reader].pc # "rebuild"
                BY <1>5, <3>3 DEF ReaderStep, Top, ReadEnds, ReadFrame, ReadCrossed, ReadMisaligned,
                                  CopyText, At, Reading
            <4>. QED  BY <4>1, <4>2, Zenon DEF WholeList
        <3>. QED  BY <3>1, <3>2, <3>3
    <2>. QED  BY <2>1, <2>2, <2>3, Zenon DEF WholeList
<1>6. CASE (\E a \in asked : Answer(a)) \/ (\E s \in Sockets : Notify(s)) \/ ServerStops \/ ServerStarts
    BY <1>0, <1>6, Zenon DEF Answer, Notify, ServerStops, ServerStarts, shared
<1>. QED  BY <1>2, <1>3, <1>4, <1>5, <1>6, ZenonT(60) DEF DiagNext, ThreadStep

----------------------------------------------------------------------------
(* An undisturbed call stays alone.                                        *)

Own(t) == thread[t].call \in undisturbed

\* The caller of an undisturbed call is somewhere between its first try and
\* its return; an answer can only be about once it has written.
LEMMA OwnIsBusy ==
    ASSUME CallsAreNumbered, NEW t \in Callers, Own(t), Alone(t)
    PROVE  /\ thread[t].call # 0
           /\ thread[t].pc \in {"try", "post", "asleep", "wait", "return"}
           /\ Nothing \/ (thread[t].pc \in {"wait", "return"} /\ Its(t) /\ ~TrmResponseRcvd)
<1>1. thread[t].call # 0
    BY Zenon DEF Own, CallsAreNumbered
<1>2. thread[t].pc \in {"try", "post", "asleep", "wait", "return"}
    BY <1>1, Zenon DEF CallsAreNumbered
<1>3. CASE thread[t].pc \in {"try", "post", "asleep"}
    BY <1>1, <1>2, <1>3, Zenon DEF Alone
<1>4. CASE thread[t].pc \in {"wait", "return"}
    BY <1>1, <1>2, <1>4, ZenonT(60) DEF Alone
<1>. QED  BY <1>2, <1>3, <1>4, Zenon

\* What is about becomes less, and the caller stays or goes on from
\* connect_to_trm to its post.
LEMMA AloneShrinks ==
    ASSUME NEW t \in Callers, Alone(t),
           thread'[t].call = thread[t].call, thread'[t].kind = thread[t].kind, thread'[t].ok = thread[t].ok,
           thread'[t].pc = thread[t].pc \/ (thread[t].pc = "asleep" /\ thread'[t].pc = "post"),
           \A u \in Callers \ {t} : thread'[u].call = 0,
           UNCHANGED shared, refused \subseteq refused',
           asked' \subseteq asked,
           \A s \in Sockets : stream'[s] = stream[s] \/ stream'[s] = <<>>,
           Handling' => Handling /\ thread'[reader] = thread[reader]
    PROVE  Alone(t)'
<1>1. Nothing => Nothing'
    BY Zenon DEF Nothing, NoneSent
<1>2. Its(t) => Its(t)'
    <2>. SUFFICES ASSUME Its(t) PROVE Its(t)'
        OBVIOUS
    <2>0. responseStr' = responseStr
        BY Zenon DEF shared
    <2>1. /\ \A a \in asked' : a.call = thread'[t].call /\ a.kind = thread'[t].kind
          /\ \A a, b \in asked' : a = b
          /\ asked' # {} => NoneSent' /\ ~Handling'
        BY Zenon DEF Its, NoneSent
    <2>2. ASSUME NEW s \in Sockets, stream'[s] # <<>>
          PROVE  /\ Len(stream'[s]) = 1
                 /\ stream'[s][1].call = thread'[t].call /\ stream'[s][1].kind = thread'[t].kind
                 /\ stream'[s][1].what # "event"
                 /\ stream'[s][1].what = "refusal" => thread'[t].call \in refused'
                 /\ ~Handling'
                 /\ \A r \in Sockets : stream'[r] # <<>> => r = s
        <3>1. stream'[s] = stream[s] /\ stream[s] # <<>>
            BY <2>2, Zenon
        <3>2. /\ Len(stream[s]) = 1
              /\ stream[s][1].call = thread[t].call /\ stream[s][1].kind = thread[t].kind
              /\ stream[s][1].what # "event"
              /\ stream[s][1].what = "refusal" => thread[t].call \in refused
              /\ ~Handling
            BY <3>1, Zenon DEF Its
        <3>3. \A r \in Sockets : stream'[r] # <<>> => r = s
            BY <3>1, Zenon DEF Its
        <3>. QED  BY <3>1, <3>2, <3>3, Zenon
    <2>3. Handling' =>
            /\ thread'[reader].m.call = thread'[t].call /\ thread'[reader].m.kind = thread'[t].kind
            /\ thread'[reader].m.what \in {"answer", "refusal"}
            /\ thread'[reader].m.what = "refusal" => thread'[t].call \in refused'
            /\ thread'[reader].pc # "copy" => responseStr' = thread'[t].call
        BY <2>0, Zenon DEF Its
    <2>. QED  BY <2>1, <2>2, <2>3, ZenonT(60) DEF Its
<1>3. UNCHANGED <<TrmResponseRcvd, responseStr, conDeviceList>>
    BY Zenon DEF shared
<1>l. ListFor(t) => ListFor(t)'
    BY <1>3, Zenon DEF ListFor
<1>4. CASE thread'[t].pc = thread[t].pc
    BY <1>1, <1>2, <1>3, <1>4, <1>l, Zenon DEF Alone
<1>5. CASE thread[t].pc = "asleep" /\ thread'[t].pc = "post"
    <2>1. Nothing' /\ ~TrmResponseRcvd'
        BY <1>1, <1>3, <1>5, ZenonT(60) DEF Alone
    <2>2. thread'[t].pc \notin {"wait", "return"}
        BY <1>5
    <2>3. ~thread'[t].ok
        BY <1>3, <2>1, Zenon DEF Alone
    <2>. QED  BY <2>1, <2>2, <2>3, Zenon DEF Alone
<1>. QED  BY <1>4, <1>5

\* What is about becomes nothing while the caller waits.
LEMMA AloneLosesAnswer ==
    ASSUME NEW t \in Callers, Alone(t), thread[t].pc \in {"wait", "return"}, ~TrmResponseRcvd,
           thread'[t] = thread[t], \A u \in Callers \ {t} : thread'[u] = thread[u],
           UNCHANGED TrmResponseRcvd, Nothing'
    PROVE  Alone(t)'
<1>1. Its(t)'
    BY Zenon DEF Its, Nothing, NoneSent
<1>2. thread'[t].pc \notin {"post", "asleep"}
    BY SMTT(60)
<1>. QED  BY <1>1, <1>2, Zenon DEF Alone

\* Closing a socket and reading from one only take from what is about.
LEMMA ConsumeShrinks ==
    ASSUME DiagTypeOK, NEW s \in Sockets, NEW n \in 0 .. Len(stream[s]), Consume(s, n)
    PROVE  /\ asked' \subseteq asked
           /\ \A r \in Sockets \ {s} : stream'[r] = stream[r]
           /\ stream'[s] = <<>> \/ Len(stream'[s]) = Len(stream[s]) - n
           /\ n = Len(stream[s]) => stream'[s] = <<>>
<1>0. stream[s] \in Seq(Messages) /\ stream \in [Sockets -> Seq(Messages)]
    BY SMTT(60) DEF DiagTypeOK
<1>1. CASE s \in shut
    BY <1>0, <1>1, SMTT(60) DEF Consume, Gone
<1>2. CASE s \notin shut
    <2>. DEFINE q == SubSeq(stream[s], n + 1, Len(stream[s]))
    <2>1. q \in Seq(Messages) /\ Len(q) = Len(stream[s]) - n
        BY <1>0, RestOfStream, SMTT(60)
    <2>2. n = Len(stream[s]) => q = <<>>
        BY <1>0, SubSeqEmpty, SMTT(60)
    <2>3. stream' = [stream EXCEPT ![s] = q] /\ asked' = asked
        BY <1>2, Zenon DEF Consume
    <2>. HIDE DEF q
    <2>. QED  BY <1>0, <2>1, <2>2, <2>3, SMTT(60)
<1>. QED  BY <1>1, <1>2, SMTT(60)

\* So does closing one in connect_to_trm.
LEMMA DialShrinks ==
    ASSUME DiagTypeOK, NEW u \in Threads, connect_to_trm(u)
    PROVE  asked' \subseteq asked /\ \A s \in Sockets : stream'[s] = stream[s] \/ stream'[s] = <<>>
<1>1. UNCHANGED <<asked, stream>> \/ Gone(trm_diag_fd)
    BY Zenon DEF connect_to_trm, DialNew, DialFails
<1>2. CASE Gone(trm_diag_fd)
    BY <1>2 DEF Gone, DiagTypeOK
<1>. QED  BY <1>1, <1>2, Zenon

\* The steps of connect_to_trm and of init, by the caller or by another thread.
LEMMA AloneConnected ==
    ASSUME DiagTypeOK, CallsAreNumbered, NEW t \in Callers, Own(t), Alone(t),
           NEW u \in Threads, Connected(u), thread[u].pc = "asleep" \/ (u = main /\ thread[u].pc = "init"),
           UNCHANGED <<shared, refused>>, asked' \subseteq asked,
           \A s \in Sockets : stream'[s] = stream[s] \/ stream'[s] = <<>>
    PROVE  Alone(t)'
<1>t. /\ \A v \in Callers : v \in Threads /\ v # reader
      /\ main \in Callers /\ reader \in Threads
    BY ThreadTypes, Zenon
<1>0. thread[t].call # 0 /\ thread[t].pc \in {"try", "post", "asleep", "wait", "return"}
    BY OwnIsBusy, Zenon
<1>1. CASE u = main /\ thread[main].call = 0
    <2>1. /\ thread'[main] = ThreadAt("idle") /\ thread'[reader].pc = "top"
          /\ \A v \in Threads \ {main, reader} : thread'[v] = thread[v]
        BY <1>1, ConnectedThread, Zenon
    <2>2. t # main /\ thread'[t] = thread[t]
        BY <1>t, <1>0, <1>1, <2>1, ZenonT(60)
    <2>3. ~Handling' /\ thread'[main].call = 0
        BY <2>1 DEF Handling, ThreadAt
    <2>4. \A v \in Callers \ {t} : thread'[v].call = 0
        BY <1>t, <2>1, <2>3, Zenon DEF Alone
    <2>. QED  BY <2>2, <2>3, <2>4, AloneShrinks, ZenonT(60)
<1>2. CASE u = reader
    <2>1. OnlyThread(reader) /\ thread'[reader].pc = "top"
        BY <1>2, ConnectedThread, ZenonT(60)
    <2>2. ~Handling'
        BY <2>1 DEF Handling
    <2>3. \A v \in Callers : thread'[v] = thread[v]
        BY <1>t, <2>1, Zenon DEF OnlyThread
    <2>4. \A v \in Callers \ {t} : thread'[v].call = 0
        BY <2>3, Zenon DEF Alone
    <2>. QED  BY <2>2, <2>3, <2>4, AloneShrinks, ZenonT(60)
<1>3. CASE u # reader /\ ~(u = main /\ thread[main].call = 0)
    <2>1. /\ OnlyThread(u) /\ thread'[u].pc = "post"
          /\ thread'[u].call = thread[u].call /\ thread'[u].kind = thread[u].kind
          /\ thread'[u].ok = thread[u].ok
        BY <1>3, ConnectedThread, Zenon
    <2>2. u \in Callers
        BY <1>3, Zenon DEF Threads
    <2>3. thread[u].call # 0
        BY <1>3, <2>2, Zenon DEF CallsAreNumbered
    <2>4. u = t
        BY <2>2, <2>3, Zenon DEF Alone
    <2>5. thread[t].pc = "asleep"
        <3>1. "init" \notin {"try", "post", "asleep", "wait", "return"}
            OBVIOUS
        <3>. QED  BY <1>0, <2>4, <3>1, Zenon
    <2>6. thread'[reader] = thread[reader] /\ \A v \in Callers \ {t} : thread'[v].call = 0
        BY <1>t, <1>3, <2>1, <2>4, ZenonT(60) DEF OnlyThread, Alone
    <2>7. Handling' => Handling
        BY <2>6, Zenon DEF Handling
    <2>. QED  BY <2>1, <2>4, <2>5, <2>6, <2>7, AloneShrinks, ZenonT(60)
<1>. QED  BY <1>1, <1>2, <1>3, Zenon

\* Another caller has no call, so that it is not in the middle of one.
LEMMA OthersRest ==
    ASSUME CallsAreNumbered, NEW t \in Callers, Alone(t), NEW u \in Callers, u # t
    PROVE  ~CallStep(u)
<1>1. thread[u].call = 0
    BY Zenon DEF Alone
<1>2. thread[u].pc \notin {"try", "post", "wait", "return"}
    BY <1>1, Zenon DEF CallsAreNumbered
<1>. QED  BY <1>2, Zenon DEF CallStep, Try, Write, NotPosted, Poll, WaitEnds, Return, At

\* The caller's own steps.
LEMMA AloneCaller ==
    ASSUME DiagTypeOK, CallsAreNumbered, NEW t \in Callers, Own(t), Alone(t), CallStep(t), Own(t)'
    PROVE  Alone(t)'
<1>t. \A v \in Callers : v \in Threads /\ v # reader
    BY ThreadTypes, Zenon
<1>r. reader \in Threads
    BY ThreadTypes, Zenon
<1>0. OnlyThread(t)
    BY CallerThread, Zenon DEF CallStep
<1>1. thread'[reader] = thread[reader] /\ \A v \in Callers \ {t} : thread'[v].call = 0
    BY <1>t, <1>r, <1>0, Zenon DEF OnlyThread, Alone
<1>2. UNCHANGED stream /\ (Handling' <=> Handling)
    BY <1>1, Zenon DEF CallStep, Try, Write, NotPosted, Poll, WaitEnds, Return, server, Handling
<1>3. CASE Try(t)
    <2>0. thread[t].pc = "try"
        BY <1>3, Zenon DEF Try, At
    <2>1. /\ thread'[t].pc \in {"post", "asleep"} /\ thread'[t].ok = thread[t].ok
        BY <1>3, CallerThread, Zenon
    <2>2. ~TrmResponseRcvd' /\ asked' = asked
        BY <1>3, Zenon DEF Try, FlagCleared, server
    <2>3. Nothing'
        BY <1>2, <2>0, <2>2, Zenon DEF Alone, Nothing, NoneSent
    <2>4. ~thread[t].ok
        <3>1. "try" # "return"
            OBVIOUS
        <3>. QED  BY <2>0, <3>1, Zenon DEF CallsAreNumbered
    <2>5. thread'[t].pc \notin {"wait", "return"}
        BY <2>1
    <2>. QED  BY <1>1, <2>1, <2>2, <2>3, <2>4, <2>5, ZenonT(60) DEF Alone
<1>4. CASE Write(t)
    <2>0. thread[t].pc = "post"
        BY <1>4, Zenon DEF Write, At
    <2>1. /\ thread'[t].pc = "wait" /\ thread'[t].ok = thread[t].ok
          /\ thread'[t].call = thread[t].call /\ thread'[t].kind = thread[t].kind
        BY <1>4, CallerThread, Zenon
    <2>2. Nothing /\ ~TrmResponseRcvd
        BY <2>0, Zenon DEF Alone
    <2>3. ~TrmResponseRcvd' /\ ~thread'[t].ok
        BY <1>4, <2>1, <2>2, Zenon DEF Write, shared, Alone
    <2>. DEFINE a == [call |-> thread[t].call, kind |-> thread[t].kind, on |-> trm_diag_fd]
    <2>4. asked' \subseteq {a}
        BY <1>4, <2>2, Zenon DEF Write, Nothing
    <2>5. a.call = thread[t].call /\ a.kind = thread[t].kind
        OBVIOUS
    <2>. HIDE DEF a
    <2>6. NoneSent' /\ ~Handling'
        BY <1>2, <2>2, Zenon DEF Nothing, NoneSent
    <2>7. Its(t)'
        BY <2>1, <2>4, <2>5, <2>6, ZenonT(60) DEF Its, NoneSent
    <2>8. thread'[t].pc \notin {"try", "post", "asleep"}
        BY <2>1
    <2>. QED  BY <1>1, <2>3, <2>7, <2>8, Zenon DEF Alone
<1>5. CASE NotPosted(t)
    <2>0. thread[t].pc = "post"
        BY <1>5, Zenon DEF NotPosted, At
    <2>1. /\ thread'[t].pc \in {"try", "return"} /\ thread'[t].ok = thread[t].ok
          /\ thread'[t].call = thread[t].call /\ thread'[t].kind = thread[t].kind
        BY <1>5, CallerThread, Zenon
    <2>2. Nothing /\ ~TrmResponseRcvd
        BY <2>0, Zenon DEF Alone
    <2>3. ~TrmResponseRcvd' /\ ~thread'[t].ok /\ asked' = asked
        BY <1>5, <2>1, <2>2, ZenonT(60) DEF NotPosted, shared, server, Alone
    <2>4. Nothing'
        BY <1>2, <2>2, <2>3, Zenon DEF Nothing, NoneSent
    <2>5. Its(t)'
        BY <2>4, Zenon DEF Its, Nothing, NoneSent
    <2>. QED  BY <1>1, <2>3, <2>4, <2>5, Zenon DEF Alone
<1>6. CASE Poll(t) \/ WaitEnds(t)
    <2>0. thread[t].pc = "wait"
        BY <1>6, Zenon DEF Poll, WaitEnds, At
    <2>1. /\ thread'[t].pc \in {"wait", "return"}
          /\ thread'[t].call = thread[t].call /\ thread'[t].kind = thread[t].kind
        BY <1>6, CallerThread, Zenon
    <2>2. UNCHANGED <<TrmResponseRcvd, responseStr, conDeviceList, asked, refused>>
        BY <1>6, Zenon DEF Poll, WaitEnds, shared, server, calls
    <2>3. thread'[t].ok => TrmResponseRcvd
        BY <1>6, CallerThread, Zenon DEF Alone
    <2>4. Nothing => Nothing'
        BY <1>2, <2>2, Zenon DEF Nothing, NoneSent
    <2>5. Its(t)
        BY <2>0, Zenon DEF Alone
    <2>6. Its(t)'
        BY <1>1, <1>2, <2>1, <2>2, <2>5, ZenonT(60) DEF Its, NoneSent
    <2>7. thread'[t].pc \notin {"try", "post", "asleep"}
        BY <2>1
    <2>8. TrmResponseRcvd =>
            /\ Nothing' /\ responseStr = thread[t].call
            /\ thread[t].kind # "version" => ListFor(t)
        BY <2>0, <2>4, Zenon DEF Alone
    <2>9. ListFor(t) => ListFor(t)'
        BY <2>1, <2>2, Zenon DEF ListFor
    <2>. QED  BY <1>1, <2>1, <2>2, <2>3, <2>6, <2>7, <2>8, <2>9, ZenonT(60) DEF Alone
<1>7. CASE Return(t)
    <2>1. thread'[t].call = 0 /\ undisturbed' \subseteq undisturbed
        BY <1>7, CallerThread, Zenon DEF Return
    <2>. QED  BY <2>1, Zenon DEF Own, CallsAreNumbered
<1>. QED  BY <1>3, <1>4, <1>5, <1>6, <1>7, Zenon DEF CallStep

\* A call that begins is undisturbed only if nothing is about.
LEMMA AloneBegin ==
    ASSUME DiagTypeOK, CallsAreNumbered, NEW u \in Callers, NEW kind \in Kinds, Begin(u, kind),
           NEW t \in Callers, Own(t)'
    PROVE  Alone(t)'
<1>t. \A v \in Callers : v \in Threads /\ v # reader
    BY ThreadTypes, Zenon
<1>r. reader \in Threads
    BY ThreadTypes, Zenon
<1>1. /\ OnlyThread(u) /\ thread'[u].pc = "try"
      /\ thread'[u].call = lastCall' /\ thread'[u].ok = thread[u].ok
    BY CallerThread, Zenon
<1>2. Quiet(u) /\ undisturbed' = {lastCall'}
    <2>1. undisturbed' = IF Quiet(u) THEN {lastCall'} ELSE {}
        BY Zenon DEF Begin
    <2>. QED  BY <2>1, Zenon DEF Own
<1>3. lastCall' # 0 /\ thread[u].pc = "idle"
    <2>1. lastCall' = lastCall + 1 /\ thread[u].pc = "idle"
        BY Zenon DEF Begin, At
    <2>. QED  BY <2>1 DEF DiagTypeOK
<1>4. t = u
    BY <1>t, <1>1, <1>2, <1>3, ZenonT(60) DEF Own, Quiet, OnlyThread
<1>5. thread'[reader] = thread[reader] /\ UNCHANGED <<asked, stream>>
    BY <1>t, <1>r, <1>1, Zenon DEF OnlyThread, Begin, server
<1>6. Nothing'
    BY <1>2, <1>5, Zenon DEF Nothing, NoneSent, Handling, Quiet
<1>7. \A v \in Callers \ {u} : thread'[v].call = 0
    BY <1>t, <1>1, <1>2, Zenon DEF OnlyThread, Quiet
<1>8. ~thread'[u].ok
    <2>1. "idle" # "return"
        OBVIOUS
    <2>. QED  BY <1>1, <1>3, <2>1, Zenon DEF CallsAreNumbered
<1>9. thread'[u].pc \notin {"post", "asleep", "wait", "return"}
    BY <1>1
<1>. QED  BY <1>4, <1>6, <1>7, <1>8, <1>9, ZenonT(60) DEF Alone

\* A frame that is read is the answer to the undisturbed call, and the last.
LEMMA AnswerIsLast ==
    ASSUME DiagTypeOK, CallsAreNumbered, NEW t \in Callers, Own(t), Alone(t),
           NEW s \in Sockets, stream[s] # <<>>, NEW n \in 1 .. Len(stream[s]), Consume(s, n)
    PROVE  /\ thread[t].pc \in {"wait", "return"} /\ ~TrmResponseRcvd
           /\ Head(stream[s]).call = thread[t].call /\ Head(stream[s]).kind = thread[t].kind
           /\ Head(stream[s]).what # "event"
           /\ Head(stream[s]).what = "refusal" => thread[t].call \in refused
           /\ asked' = {} /\ NoneSent'
<1>1. thread[t].pc \in {"wait", "return"} /\ Its(t) /\ ~TrmResponseRcvd
    BY OwnIsBusy, Zenon DEF Nothing, NoneSent
<1>2. /\ Len(stream[s]) = 1
      /\ stream[s][1].call = thread[t].call /\ stream[s][1].kind = thread[t].kind
      /\ stream[s][1].what # "event"
      /\ stream[s][1].what = "refusal" => thread[t].call \in refused
      /\ \A r \in Sockets : stream[r] # <<>> => r = s
    BY <1>1, Zenon DEF Its
<1>3. Head(stream[s]) = stream[s][1]
    BY DEF DiagTypeOK
<1>4. n \in 0 .. Len(stream[s]) /\ n = Len(stream[s])
    BY <1>2
<1>5. /\ asked' \subseteq asked
      /\ \A r \in Sockets \ {s} : stream'[r] = stream[r]
      /\ stream'[s] = <<>>
    BY <1>4, ConsumeShrinks, Zenon
<1>6. asked = {}
    BY <1>1, Zenon DEF Its, NoneSent
<1>7. NoneSent'
    BY <1>2, <1>5, Zenon DEF NoneSent
<1>8. asked' = {}
    BY <1>5, <1>6, Zenon
<1>. QED  BY <1>1, <1>2, <1>3, <1>7, <1>8, Zenon

LEMMA AloneReader ==
    ASSUME DiagTypeOK, CallsAreNumbered, WholeList, NEW t \in Callers, Own(t), Alone(t), ReaderStep
    PROVE  Alone(t)'
<1>c. UNCHANGED refused
    BY Zenon DEF ReaderStep, Top, ReadEnds, ReadFrame, ReadCrossed, ReadMisaligned, CopyText, Decode, Rebuild, calls
<1>t. \A v \in Callers : thread'[v] = thread[v]
    BY CallersStay, Zenon
<1>0. thread'[t] = thread[t] /\ \A u \in Callers \ {t} : thread'[u].call = 0
    BY <1>t, Zenon DEF Alone
<1>b. Nothing \/ (thread[t].pc \in {"wait", "return"} /\ Its(t) /\ ~TrmResponseRcvd)
    BY OwnIsBusy, Zenon
<1>w. thread[t].pc \in {"wait", "return"} => thread[t].pc \notin {"try", "post", "asleep"}
    OBVIOUS
<1>top. BackToTop => ~Handling'
    <2>1. BackToTop => thread'[reader].pc = "top"
        BY ReaderThread, Zenon
    <2>. QED  BY <2>1 DEF Handling
<1>1. CASE Top
    <2>1. thread'[reader].pc \in {"read", "top", "asleep"}
        BY <1>1, ReaderThread, Zenon
    <2>2. ~Handling'
        BY <2>1 DEF Handling
    <2>3. UNCHANGED <<shared, asked, stream>>
        BY <1>1, Zenon DEF Top, server
    <2>. QED  BY <1>c, <1>0, <2>2, <2>3, AloneShrinks, Zenon
<1>2. CASE ReadEnds
    <2>. DEFINE s == thread[reader].s
    <2>1. s \in Sockets /\ Consume(s, 0) /\ stream[s] = <<>> /\ 0 \in 0 .. Len(stream[s]) /\ Len(stream[s]) = 0
        BY <1>2 DEF ReadEnds, DiagTypeOK
    <2>. HIDE DEF s
    <2>2. asked' \subseteq asked /\ \A r \in Sockets : stream'[r] = stream[r] \/ stream'[r] = <<>>
        BY <2>1, ConsumeShrinks, Zenon
    <2>3. ~Handling' /\ UNCHANGED shared
        BY <1>2, <1>top, Zenon DEF ReadEnds
    <2>. QED  BY <1>c, <1>0, <2>2, <2>3, AloneShrinks, ZenonT(60)
<1>3. CASE ReadFrame
    <2>. DEFINE s == thread[reader].s
    <2>1. s \in Sockets /\ stream[s] # <<>> /\ Consume(s, 1) /\ 1 \in 1 .. Len(stream[s])
          /\ Head(stream[s]) \in Messages
        BY <1>3 DEF ReadFrame, At, Reading, DiagTypeOK
    <2>2. /\ thread[t].pc \in {"wait", "return"} /\ ~TrmResponseRcvd
          /\ Head(stream[s]).call = thread[t].call /\ Head(stream[s]).kind = thread[t].kind
          /\ Head(stream[s]).what # "event"
          /\ Head(stream[s]).what = "refusal" => thread[t].call \in refused
          /\ asked' = {} /\ NoneSent'
        BY <2>1, AnswerIsLast, Zenon
    <2>3. thread'[reader].pc = "copy" /\ thread'[reader].m = Head(stream[s])
        BY <1>3, ReaderThread, Zenon
    <2>4. Head(stream[s]).what # "big" /\ UNCHANGED TrmResponseRcvd
        BY <1>3, Zenon DEF ReadFrame
    <2>. HIDE DEF s
    <2>5. Head(stream[s]).what \in {"answer", "refusal"}
        BY <2>1, <2>2, <2>4 DEF Messages
    <2>6. Its(t)'
        BY <1>c, <1>0, <2>2, <2>3, <2>5, Zenon DEF Its, NoneSent
    <2>. QED  BY <1>0, <1>w, <2>2, <2>4, <2>6, ZenonT(60) DEF Alone
<1>4. CASE ReadCrossed
    <2>. DEFINE s == thread[reader].s
    <2>1. s \in Sockets /\ stream[s] # <<>> /\ Consume(s, 1) /\ 1 \in 1 .. Len(stream[s])
        BY <1>4 DEF ReadCrossed, At, Reading, DiagTypeOK
    <2>. HIDE DEF s
    <2>2. thread[t].pc \in {"wait", "return"} /\ ~TrmResponseRcvd /\ asked' = {} /\ NoneSent'
        BY <2>1, AnswerIsLast, Zenon
    <2>3. thread'[reader].pc = "payload" /\ UNCHANGED TrmResponseRcvd
        BY <1>4, ReaderThread, Zenon DEF ReadCrossed, shared
    <2>4. ~Handling'
        BY <2>3 DEF Handling
    <2>. QED  BY <1>t, <2>2, <2>3, <2>4, AloneLosesAnswer, ZenonT(60) DEF Nothing
<1>5. CASE ReadMisaligned
    <2>. DEFINE s == thread[reader].s
    <2>1. s \in Sockets /\ stream[s] # <<>>
        BY <1>5, Zenon DEF ReadMisaligned, DiagTypeOK
    <2>2. PICK n \in 1 .. Len(stream[s]) : Consume(s, n)
        BY <1>5, Zenon DEF ReadMisaligned
    <2>. HIDE DEF s
    <2>3. thread[t].pc \in {"wait", "return"} /\ ~TrmResponseRcvd /\ asked' = {} /\ NoneSent'
        BY <2>1, <2>2, AnswerIsLast, Zenon
    <2>4. ~Handling' /\ UNCHANGED TrmResponseRcvd
        BY <1>5, <1>top, Zenon DEF ReadMisaligned
    <2>. QED  BY <1>t, <2>3, <2>4, AloneLosesAnswer, Zenon DEF Nothing
<1>6. CASE CopyText \/ Decode \/ Rebuild
    <2>1. Handling
        BY <1>6 DEF CopyText, Decode, Rebuild, At, Handling
    <2>2. /\ thread[t].pc \in {"wait", "return"} /\ ~TrmResponseRcvd
          /\ asked = {} /\ NoneSent
          /\ thread[reader].m.call = thread[t].call /\ thread[reader].m.kind = thread[t].kind
          /\ thread[reader].m.what \in {"answer", "refusal"}
          /\ thread[reader].m.what = "refusal" => thread[t].call \in refused
          /\ thread[reader].pc # "copy" => responseStr = thread[t].call
        BY <1>b, <2>1, Zenon DEF Nothing, NoneSent, Its
    <2>3. asked' = {} /\ NoneSent'
        BY <1>6, <2>2, Zenon DEF CopyText, Decode, Rebuild, server, NoneSent
    <2>4. CASE CopyText
        <3>1. "decode" \in Pcs /\ "event" \notin {"answer", "refusal"}
            BY DEF Pcs
        <3>2. thread'[reader].pc = "decode" /\ thread'[reader].m = thread[reader].m
            BY <2>4, <3>1, ReaderThread, Zenon DEF CopyText
        <3>3. responseStr' = thread[t].call /\ UNCHANGED TrmResponseRcvd
            BY <2>2, <2>4, <3>1, Zenon DEF CopyText
        <3>4. Its(t)'
            BY <1>c, <1>0, <2>2, <2>3, <3>2, <3>3, ZenonT(60) DEF Its, NoneSent
        <3>. QED  BY <1>0, <1>w, <2>2, <3>3, <3>4, Zenon DEF Alone
    <2>5. CASE Decode /\ HasDevices(thread[reader].m)
        <3>1. "rebuild" \in Pcs /\ "decode" # "copy"
            BY DEF Pcs
        <3>2. thread'[reader].pc = "rebuild" /\ thread'[reader].m = thread[reader].m
            BY <2>5, <3>1, ReaderThread, Zenon DEF Decode
        <3>3. responseStr' = thread[t].call /\ UNCHANGED TrmResponseRcvd
            BY <2>2, <2>5, <3>1, Zenon DEF Decode, At
        <3>4. Its(t)'
            BY <1>c, <1>0, <2>2, <2>3, <3>2, <3>3, ZenonT(60) DEF Its, NoneSent
        <3>. QED  BY <1>0, <1>w, <2>2, <3>3, <3>4, Zenon DEF Alone
    <2>6. CASE (Decode /\ ~HasDevices(thread[reader].m)) \/ Rebuild
        <3>1. ~Handling' /\ TrmResponseRcvd'
            BY <1>top, <2>6, Zenon DEF Decode, Rebuild
        <3>2. "decode" # "copy" /\ "rebuild" # "copy"
            OBVIOUS
        <3>3. responseStr' = thread[t].call
            BY <2>2, <2>6, <3>2, Zenon DEF Decode, Rebuild, At
        <3>4. thread[t].kind # "version" => ListFor(t)'
            <4>1. CASE Rebuild
                BY <1>0, <2>2, <4>1, Zenon DEF Rebuild, ListFor
            <4>2. CASE Decode /\ ~HasDevices(thread[reader].m) /\ thread[t].kind # "version"
                <5>1. thread[t].call \in refused
                    BY <2>2, <4>2, Zenon DEF HasDevices
                <5>2. thread[reader].pc # "rebuild"
                    <6>1. thread[reader].pc = "decode" /\ "decode" # "rebuild"
                        BY <4>2 DEF Decode, At
                    <6>. QED  BY <6>1, Zenon
                <5>. QED  BY <1>c, <1>0, <4>2, <5>1, <5>2, Zenon DEF WholeList, Decode, ListFor
            <4>. QED  BY <2>6, <4>1, <4>2, Zenon
        <3>5. Nothing'
            BY <2>3, <3>1, Zenon DEF Nothing
        <3>6. Its(t)'
            BY <3>5, Zenon DEF Its, Nothing, NoneSent
        <3>. QED  BY <1>0, <1>w, <2>2, <3>1, <3>3, <3>4, <3>5, <3>6, ZenonT(60) DEF Alone
    <2>. QED  BY <1>6, <2>4, <2>5, <2>6, ZenonT(60)
<1>. QED  BY <1>1, <1>2, <1>3, <1>4, <1>5, <1>6, Zenon DEF ReaderStep

LEMMA AloneServer ==
    ASSUME DiagTypeOK, CallsAreNumbered, NEW t \in Callers, Own(t), Alone(t), Own(t)',
           (\E a \in asked : Answer(a)) \/ (\E s \in Sockets : Notify(s)) \/ ServerStops \/ ServerStarts
    PROVE  Alone(t)'
<1>0. UNCHANGED <<thread, shared>>
    BY Zenon DEF Answer, Notify, ServerStops, ServerStarts
<1>o. \A u \in Callers \ {t} : thread'[u].call = 0
    BY <1>0, Zenon DEF Alone
<1>1. ASSUME NEW a \in asked, Answer(a)
      PROVE  Alone(t)'
    <2>1. thread[t].pc \in {"wait", "return"} /\ Its(t) /\ ~TrmResponseRcvd
        BY OwnIsBusy, Zenon DEF Nothing
    <2>2. a.call = thread[t].call /\ a.kind = thread[t].kind /\ NoneSent /\ ~Handling
        BY <2>1, Zenon DEF Its
    <2>3. asked' = {}
        BY <1>1, <2>1, Zenon DEF Its, Answer
    <2>4. PICK what \in {"answer", "refusal", "big"} :
              /\ stream' = [stream EXCEPT ![a.on] = Append(@, Message(what, a.call, a.kind))]
              /\ refused' = IF what = "refusal" THEN refused \cup {a.call} ELSE refused
        BY <1>1, Zenon DEF Answer
    <2>. DEFINE m == Message(what, a.call, a.kind)
    <2>5. m.what # "event" /\ m.call = thread[t].call /\ m.kind = thread[t].kind /\ m \in Messages
          /\ m.what = what
        BY <2>2 DEF Message, Messages, DiagTypeOK
    <2>r. m.what = "refusal" => thread[t].call \in refused'
        BY <2>2, <2>4, <2>5, Zenon
    <2>. HIDE DEF m
    <2>6. \A s \in Sockets : stream[s] = <<>>
        BY <2>2, Zenon DEF NoneSent
    <2>7. stream' = [stream EXCEPT ![a.on] = Append(@, m)] /\ a.on \in Sockets
        BY <2>4 DEF m, DiagTypeOK
    <2>8. \A s \in Sockets : stream'[s] = IF s = a.on THEN <<m>> ELSE <<>>
        <3>1. \A s \in Sockets : stream'[s] = IF s = a.on THEN Append(stream[s], m) ELSE stream[s]
            BY <2>7 DEF DiagTypeOK
        <3>2. Append(<<>>, m) = <<m>>
            OBVIOUS
        <3>. QED  BY <2>6, <3>1, <3>2, ZenonT(60)
    <2>9. ~Handling'
        BY <1>0, <2>2, Zenon DEF Handling
    <2>10. ASSUME NEW s \in Sockets, stream'[s] # <<>>
           PROVE  /\ Len(stream'[s]) = 1 /\ stream'[s][1] = m
                  /\ \A r \in Sockets : stream'[r] # <<>> => r = s
        <3>1. s = a.on /\ stream'[s] = <<m>>
            BY <2>8, <2>10, Zenon
        <3>2. Len(<<m>>) = 1 /\ <<m>>[1] = m
            OBVIOUS
        <3>. QED  BY <2>8, <3>1, <3>2, Zenon
    <2>11. Its(t)'
        BY <1>0, <2>3, <2>5, <2>r, <2>9, <2>10, ZenonT(60) DEF Its
    <2>12. thread'[t].pc \notin {"try", "post", "asleep"} /\ ~TrmResponseRcvd'
        BY <1>0, <2>1, SMTT(60) DEF shared
    <2>13. ~thread'[t].ok
        BY <1>0, <2>1, Zenon DEF Alone
    <2>. QED  BY <1>o, <2>11, <2>12, <2>13, Zenon DEF Alone
<1>2. ASSUME NEW s \in Sockets, Notify(s)
      PROVE  Alone(t)'
    BY <1>2, Zenon DEF Notify, Own
<1>3. CASE ServerStops \/ ServerStarts
    <2>1. asked' \subseteq asked /\ UNCHANGED <<stream, refused>>
        BY <1>3, Zenon DEF ServerStops, ServerStarts, calls
    <2>2. Handling' => Handling
        BY <1>0, Zenon DEF Handling
    <2>. QED  BY <1>0, <1>o, <2>1, <2>2, AloneShrinks, Zenon
<1>. QED  BY <1>1, <1>2, <1>3, Zenon

LEMMA AloneStep ==
    ASSUME DiagTypeOK, UndisturbedAlone, DiagNext
    PROVE  UndisturbedAlone'
<1>0. CallsAreNumbered /\ WholeList /\ \A t \in Callers : Own(t) => Alone(t)
    BY Zenon DEF UndisturbedAlone, Own
<1>1. CallsAreNumbered' /\ WholeList'
    BY <1>0, NumberedStep, WholeListStep, Zenon
<1>2. ASSUME NEW t \in Callers, Own(t)'
      PROVE  Alone(t)'
    <2>1. CASE \E u \in Callers, kind \in Kinds : Begin(u, kind)
        BY <1>0, <1>2, <2>1, AloneBegin, Zenon
    <2>2. CASE ~\E u \in Callers, kind \in Kinds : Begin(u, kind)
        <3>1. lastCall' = lastCall /\ undisturbed' \subseteq undisturbed
            BY <2>2, ZenonT(60) DEF DiagNext, ThreadStep, CallStep, ReaderStep, connect_to_trm, init, Try, Write,
                NotPosted, Poll, WaitEnds, Return, Top, ReadEnds, ReadFrame, ReadCrossed, ReadMisaligned,
                CopyText, Decode, Rebuild, Answer, Notify, ServerStops, ServerStarts, calls
        <3>2. thread'[t].call # 0
            BY <1>1, <1>2, Zenon DEF Own, CallsAreNumbered
        <3>t. /\ \A u \in Callers : u \in Threads /\ u # reader
              /\ main \in Callers /\ reader \in Threads
            BY ThreadTypes, Zenon
        <3>3. thread'[t].call = thread[t].call
            <4>1. ASSUME NEW u \in Threads, Connected(u)
                  PROVE  thread'[t].call = thread[t].call
                <5>1. CASE u = main /\ thread[main].call = 0
                    <6>1. /\ thread'[main] = ThreadAt("idle")
                          /\ \A v \in Threads \ {main, reader} : thread'[v] = thread[v]
                        BY <4>1, <5>1, ConnectedThread, Zenon
                    <6>2. ThreadAt("idle").call = 0
                        BY DEF ThreadAt
                    <6>. QED  BY <3>2, <3>t, <6>1, <6>2, Zenon
                <5>2. CASE ~(u = main /\ thread[main].call = 0)
                    <6>1. OnlyThread(u) /\ (u # reader => thread'[u].call = thread[u].call)
                        BY <4>1, <5>2, ConnectedThread, Zenon
                    <6>. QED  BY <3>t, <6>1, Zenon DEF OnlyThread
                <5>. QED  BY <5>1, <5>2
            <4>2. ASSUME NEW u \in Callers, CallStep(u)
                  PROVE  thread'[t].call = thread[t].call
                <5>1. OnlyThread(u) /\ (thread'[u].call = thread[u].call \/ thread'[u].call = 0)
                    BY <4>2, CallerThread, Zenon DEF CallStep
                <5>. QED  BY <3>2, <3>t, <5>1, Zenon DEF OnlyThread
            <4>3. CASE init
                BY <3>t, <4>1, <4>3, InitStep, Zenon DEF OnlyThread
            <4>4. CASE \/ ReaderStep
                       \/ \E a \in asked : Answer(a)
                       \/ \E s \in Sockets : Notify(s)
                       \/ ServerStops \/ ServerStarts
                BY <4>4, CallersStay, Zenon
            <4>. QED  BY <2>2, <4>1, <4>2, <4>3, <4>4, ZenonT(60) DEF DiagNext, ThreadStep, connect_to_trm
        <3>4. Own(t) /\ Alone(t)
            BY <1>0, <1>2, <3>1, <3>3, Zenon DEF Own
        <3>5. ASSUME NEW u \in Threads, connect_to_trm(u)
              PROVE  Alone(t)'
            <4>1. Connected(u) /\ thread[u].pc = "asleep" /\ UNCHANGED <<shared, refused>>
                BY <3>5, Zenon DEF connect_to_trm, At, calls
            <4>2. asked' \subseteq asked /\ \A s \in Sockets : stream'[s] = stream[s] \/ stream'[s] = <<>>
                BY <3>5, DialShrinks, Zenon
            <4>. QED  BY <1>0, <3>4, <4>1, <4>2, AloneConnected, Zenon
        <3>6. CASE init
            <4>1. thread[main].pc = "init" /\ UNCHANGED <<shared, refused, asked, stream>>
                BY <3>6, InitStep, Zenon DEF init, At, server, calls
            <4>2. CASE is_connected
                <5>1. Connected(main)
                    BY <3>6, <4>2, InitStep, Zenon
                <5>. QED  BY <1>0, <3>t, <3>4, <4>1, <5>1, AloneConnected, Zenon
            <4>3. CASE ~is_connected
                <5>1. OnlyThread(main) /\ thread'[main].call = thread[main].call
                    BY <3>6, <4>3, InitStep, Zenon
                <5>2. t # main
                    <6>1. "init" \notin {"try", "post", "asleep", "wait", "return"}
                        OBVIOUS
                    <6>. QED  BY <1>0, <3>4, <4>1, <6>1, OwnIsBusy, Zenon
                <5>3. thread'[t] = thread[t] /\ thread'[reader] = thread[reader]
                    BY <3>t, <5>1, <5>2, Zenon DEF OnlyThread
                <5>4. \A u \in Callers \ {t} : thread'[u].call = 0
                    BY <3>t, <3>4, <5>1, Zenon DEF OnlyThread, Alone
                <5>5. Handling' => Handling
                    BY <5>3, Zenon DEF Handling
                <5>. QED  BY <3>4, <4>1, <5>3, <5>4, <5>5, AloneShrinks, Zenon
            <4>. QED  BY <4>2, <4>3
        <3>7. ASSUME NEW u \in Callers, CallStep(u)
              PROVE  Alone(t)'
            BY <1>0, <1>2, <3>4, <3>7, OthersRest, AloneCaller, Zenon
        <3>8. CASE ReaderStep
            BY <1>0, <3>4, <3>8, AloneReader, Zenon
        <3>9. CASE (\E a \in asked : Answer(a)) \/ (\E s \in Sockets : Notify(s)) \/ ServerStops \/ ServerStarts
            BY <1>0, <1>2, <3>4, <3>9, AloneServer, Zenon
        <3>. QED  BY <2>2, <3>5, <3>6, <3>7, <3>8, <3>9, ZenonT(60) DEF DiagNext, ThreadStep
    <2>. QED  BY <2>1, <2>2
<1>. QED  BY <1>1, <1>2, Zenon DEF UndisturbedAlone, Own

----------------------------------------------------------------------------
(* The theorems.                                                           *)

LEMMA DiagInitInv ==
    ASSUME DiagInit
    PROVE  DiagInv
<1>1. DiagTypeOK
    BY InitType, Zenon
<1>2. /\ thread[main] = ThreadAt("init") /\ thread[iarm] = ThreadAt("idle")
      /\ thread[reader] = ThreadAt("off")
    BY DiagAssumption, SMTT(60) DEF DiagInit, Threads, Callers
<1>3. \A t \in Threads : thread[t].pc \in {"init", "idle", "off"} /\ thread[t].call = 0 /\ ~thread[t].ok
    BY <1>2 DEF ThreadAt, Threads, Callers
<1>4. Aligned
    <2>1. ~Reading /\ \A t \in Threads : thread[t].pc # "asleep"
        BY <1>3 DEF Reading, Threads
    <2>. QED  BY <2>1, ZenonT(60) DEF Aligned, DiagInit
<1>5. CallsAreNumbered /\ undisturbed = {}
    <2>1. \A t \in Callers : thread[t].pc \notin {"try", "post", "asleep", "wait", "return"}
                             /\ thread[t].call = 0 /\ ~thread[t].ok
        BY <1>3 DEF Threads
    <2>2. undisturbed = {}
        BY Zenon DEF DiagInit
    <2>. QED  BY <2>1, <2>2, Zenon DEF CallsAreNumbered
<1>6. WholeList
    <2>1. conDeviceList # Partial
        BY DEF DiagInit, Empty, Partial
    <2>2. thread[reader].pc = "off"
        BY <1>2 DEF ThreadAt
    <2>. QED  BY <2>1, <2>2, Zenon DEF WholeList
<1>. QED  BY <1>1, <1>4, <1>5, <1>6, Zenon DEF DiagInv, AloneAligned, UndisturbedAlone

LEMMA DiagStep ==
    ASSUME DiagInv, [DiagNext]_vars
    PROVE  DiagInv'
<1>1. CASE DiagNext
    BY <1>1, TypeStep, AlignedStep, AloneStep, Zenon DEF DiagInv
<1>2. CASE UNCHANGED vars
    <2>1. UNCHANGED <<trm_diag_fd, is_connected, TrmResponseRcvd, responseStr, conDeviceList, thread, killed, up,
                      sock, shut, stream, asked, lastCall, undisturbed, refused, together>>
        BY <1>2, Zenon DEF vars, shared, link, server, calls
    <2>2. DiagTypeOK'
        BY <2>1, Zenon DEF DiagInv, DiagTypeOK, Reading
    <2>3. AloneAligned'
        BY <2>1, Zenon DEF DiagInv, AloneAligned, Aligned, Reading
    <2>4. UndisturbedAlone'
        <3>1. CallsAreNumbered' /\ WholeList'
            BY <2>1, Zenon DEF DiagInv, UndisturbedAlone, CallsAreNumbered, WholeList
        <3>2. (NoneSent' <=> NoneSent) /\ (Handling' <=> Handling)
            BY <2>1, Zenon DEF NoneSent, Handling
        <3>3. Nothing' <=> Nothing
            BY <2>1, <3>2, Zenon DEF Nothing
        <3>4. ASSUME NEW t \in Callers, Its(t)
              PROVE  Its(t)'
            BY <2>1, <3>2, <3>4, Zenon DEF Its
        <3>5. ASSUME NEW t \in Callers, Alone(t)
              PROVE  Alone(t)'
            BY <2>1, <3>3, <3>4, <3>5, Zenon DEF Alone, ListFor
        <3>. QED  BY <2>1, <3>1, <3>5, Zenon DEF DiagInv, UndisturbedAlone
    <2>. QED  BY <2>2, <2>3, <2>4, Zenon DEF DiagInv
<1>. QED  BY <1>1, <1>2

\* The types, the connection and the undisturbed call are as DiagInv says in
\* every state of the client (Helper.cpp).
THEOREM DiagInvariance == DiagSpec => []DiagInv
<1>1. DiagInit => DiagInv
    BY DiagInitInv
<1>2. DiagInv /\ [DiagNext]_vars => DiagInv'
    BY DiagStep
<1>. QED  BY <1>1, <1>2, PTL DEF DiagSpec

\* As long as no two threads were in connect_to_trm at a time, is_connected and
\* trm_diag_fd agree, the reader waits on the socket requests go to and no other
\* socket is left open: for any number of calls, sockets and losses.
THEOREM ConnectionInStep == DiagSpec => []SyncWhenAlone
<1>1. DiagInv => SyncWhenAlone
    <2>. SUFFICES ASSUME DiagInv, ~together PROVE SyncWhenAlone
        BY Zenon DEF SyncWhenAlone
    <2>1. Aligned
        BY Zenon DEF DiagInv, AloneAligned
    <2>2. \A s \in Sockets : Live(s) => sock[s] # "none"
        BY DEF Live
    <2>. QED  BY <2>1, <2>2, Zenon DEF Aligned, SyncWhenAlone
<1>. QED  BY <1>1, DiagInvariance, PTL

\* What a client is given without an error is the answer to its own request, no
\* text for a version, or the whole list an earlier call left if the server
\* refused to give the devices, as long as the call is undisturbed (getVersion,
\* getTunerReservationsList, getConnectedDeviceIdList, MsgProcessor): for any
\* number of calls, tries, polls and losses of the server.
THEOREM AnswersAreRight == DiagSpec => RightAnswer
<1>. DEFINE Right == \A t \in Callers :
                Return(t) /\ thread[t].call \in undisturbed /\ retCode(t) = "TRMMgr_ERR_NONE"
                => \/ Given(t) = thread[t].call
                   \/ thread[t].kind = "version" /\ Given(t) = Empty /\ ~thread[t].ok
                   \/ thread[t].kind = "devices" /\ thread[t].call \in refused /\ Given(t) # Partial
<1>1. ASSUME DiagInv
      PROVE  Right
    <2>. SUFFICES ASSUME NEW t \in Callers, thread[t].pc = "return", thread[t].call \in undisturbed,
                         retCode(t) = "TRMMgr_ERR_NONE"
                  PROVE  \/ Given(t) = thread[t].call
                         \/ thread[t].kind = "version" /\ Given(t) = Empty /\ ~thread[t].ok
                         \/ thread[t].kind = "devices" /\ thread[t].call \in refused /\ Given(t) # Partial
        BY Zenon DEF Return, At
    <2>1. Alone(t)
        BY <1>1, Zenon DEF DiagInv, UndisturbedAlone
    <2>2. CASE thread[t].ok
        <3>1. responseStr = thread[t].call /\ (thread[t].kind # "version" => ListFor(t))
            BY <2>1, <2>2, ZenonT(60) DEF Alone
        <3>2. "devices" # "version"
            OBVIOUS
        <3>. QED  BY <2>2, <3>1, <3>2, Zenon DEF Given, ListFor
    <2>3. CASE ~thread[t].ok
        <3>1. "TRMMgr_ERR_NONE" # "TRMMgr_ERR_FAILED"
            OBVIOUS
        <3>. QED  BY <2>3, <3>1, Zenon DEF retCode, Given
    <2>. QED  BY <2>2, <2>3
<1>2. DiagInv => [Right]_vars
    BY <1>1
<1>. QED  BY <1>2, DiagInvariance, PTL DEF RightAnswer
=============================================================================
