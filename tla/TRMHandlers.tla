---------------------------- MODULE TRMHandlers -----------------------------
(***************************************************************************)
(* What the handlers do, for any number of requests, tokens and tuners.    *)
(* First the list of pending requests: what is true of it and of the       *)
(* answers (Waiting), that every handler keeps this, and that none drops a *)
(* Record request unanswered while there is a recorder (WaitsNext).  Then  *)
(* the Manager's bookkeeping: each handler except reserveLive is a step of *)
(* the Manager that adds no Live, and takes one away only with a signal in *)
(* the queue (Quiet).                                                      *)
(***************************************************************************)
EXTENDS TRM, ManagerProofs, FiniteSetTheorems

-----------------------------------------------------------------------------
(* What the handlers ask the Manager for.                                  *)

\* What a Record request asks for.
Recordings ==
    {NewReservation(d, l, w[1], w[2], "Record") :
        d \in Devices, l \in Locators, w \in Windows}

LEMMA RecordingsHave ==
    ASSUME NEW d \in Devices, NEW l \in Locators, NEW w \in Windows
    PROVE  NewReservation(d, l, w[1], w[2], "Record") \in Recordings
    BY SMTT(60) DEF Recordings

LEMMA RequestsHave ==
    ASSUME NEW d \in Devices, NEW l \in Locators, NEW m \in Locators,
           NEW w \in Windows, NEW a \in Activities
    PROVE  [NewReservation(d, l, w[1], w[2], a) EXCEPT !.serviceLocator = m] \in Requests
<1>. DEFINE f(d1, l1, m1, w1, a1) ==
                [NewReservation(d1, l1, w1[1], w1[2], a1) EXCEPT !.serviceLocator = m1]
<1>1. Requests = {f(d1, l1, m1, w1, a1) : d1 \in Devices, l1 \in Locators,
                     m1 \in Locators, w1 \in Windows, a1 \in Activities}
    BY SMTT(60) DEF Requests
<1>. HIDE DEF f
<1>2. f(d, l, m, w, a) \in Requests
    BY <1>1, SMTT(60)
<1>. QED  BY <1>2, ZenonT(60) DEF f

LEMMA RecordingsAreRequests == Recordings \subseteq Requests
<1>. SUFFICES ASSUME NEW d \in Devices, NEW l \in Locators, NEW w \in Windows
              PROVE  NewReservation(d, l, w[1], w[2], "Record") \in Requests
    BY SMTT(60) DEF Recordings
<1>1. NewReservation(d, l, w[1], w[2], "Record")
      = [NewReservation(d, l, w[1], w[2], "Record") EXCEPT !.serviceLocator = l]
    BY SMTT(60) DEF NewReservation
<1>. DEFINE r == NewReservation(d, l, w[1], w[2], "Record")
<1>2. "Record" \in Activities
    BY ZenonT(60) DEF Activities
<1>3. [r EXCEPT !.serviceLocator = l] \in Requests
    BY <1>2, RequestsHave, ZenonT(60)
<1>. HIDE DEF r
<1>4. r = [r EXCEPT !.serviceLocator = l]
    BY <1>1, ZenonT(60) DEF r
<1>. QED  BY <1>3, <1>4, ZenonT(60) DEF r

\* The channel a tuner runs is a channel.
LEMMA ActiveLocatorIn ==
    ASSUME NEW rs \in ReservationMap
    PROVE  ActiveLocator(rs) \in Locators \cup {NoLocator}
<1>1. ActiveTokens(rs) \subseteq Nat /\ ActiveTokens(rs) \subseteq getReservationTokens(rs)
    BY TokensAssumption, ZenonT(60) DEF ActiveTokens, getReservationTokens
<1>2. \A k \in getReservationTokens(rs) : rs[k].serviceLocator \in Locators
    BY ZenonT(60) DEF getReservationTokens, ReservationMap, Reservation
<1>. QED  BY <1>1, <1>2, MinInSet, ZenonT(60) DEF ActiveLocator

\* Whatever tuner reserveLive finds, what it asks for is a Live of the device.
LEMMA LiveIsRequest ==
    ASSUME NEW R \in [Tuners -> ReservationMap], NEW d \in Devices, NEW l \in Locators,
           NEW w \in Programmes, NEW t \in Tuners, now \in 0 .. MaxTime
    PROVE  /\ LiveReservation(R, d, l, w, t) \in Requests
           /\ LiveReservation(R, d, l, w, t).device = d
           /\ LiveReservation(R, d, l, w, t).activity = "Live"
<1>. DEFINE m == IF ActiveLocator(R[t]) = NoLocator THEN l ELSE ActiveLocator(R[t])
            v == IF w[1] > now THEN <<now, w[2]>> ELSE w
            r == [NewReservation(d, l, v[1], v[2], "Live") EXCEPT !.serviceLocator = m]
<1>1. m \in Locators
    BY ActiveLocatorIn, ZenonT(60)
<1>2. w \in Windows /\ v \in Windows
    BY ProgrammesAssumption, WindowsAssumption, WindowsMove, ZenonT(60)
<1>3. v[1] = (IF w[1] > now THEN now ELSE w[1]) /\ v[2] = w[2]
    BY ZenonT(60)
<1>4. LiveReservation(R, d, l, w, t) = r
    BY <1>3, SMTT(60) DEF LiveReservation, NewReservation
<1>. HIDE DEF m, v
<1>5. r \in Requests
    <2>1. "Live" \in Activities
        BY ZenonT(60) DEF Activities
    <2>. QED  BY <1>1, <1>2, <2>1, RequestsHave, ZenonT(60)
<1>6. r.device = d /\ r.activity = "Live"
    BY ZenonT(60) DEF NewReservation
<1>. QED  BY <1>4, <1>5, <1>6, ZenonT(60)

\* Granting what was pending moves the start of a recording, to a window the
\* Manager knows, and nothing else of it.
LEMMA AdjustedIsRequest ==
    ASSUME NEW r \in Recordings, NEW t, now \in 0 .. MaxTime
    PROVE  Adjusted(r, t) \in Recordings
<1>1. PICK d \in Devices, l \in Locators, w \in Windows :
         r = NewReservation(d, l, w[1], w[2], "Record")
    BY SMTT(60) DEF Recordings
<1>2. w[1] \in Nat /\ w[2] \in Nat
    BY WindowsAssumption, ZenonT(60)
<1>. DEFINE start == IF getState(reservations[t]) \in {"Free", "Live"} \/ r.startTime < now
                     THEN now ELSE r.startTime
            duration == IF start > EndTime(r) THEN 0 ELSE EndTime(r) - start
<1>3. r.startTime = w[1] /\ EndTime(r) = w[1] + w[2]
    BY <1>1, ZenonT(60) DEF NewReservation, EndTime
<1>4. Adjusted(r, t) = NewReservation(d, l, start, duration, "Record")
    <2>1. Adjusted(r, t) = [r EXCEPT !.startTime = start, !.duration = duration]
        BY ZenonT(60) DEF Adjusted
    <2>. HIDE DEF start, duration
    <2>. QED  BY <1>1, <2>1, ZenonT(60) DEF NewReservation
<1>5. start \in {now, w[1]}
    BY <1>3, ZenonT(60)
<1>6. CASE start = now
    <2>. DEFINE v == <<start, duration>>
    <2>1. v \in Windows
        <3>. HIDE DEF start
        <3>1. duration = IF now > w[1] + w[2] THEN 0 ELSE w[1] + w[2] - now
            BY <1>2, <1>3, <1>6, SMTT(60)
        <3>. HIDE DEF duration
        <3>. QED  BY <1>6, <3>1, WindowsMove, ZenonT(60)
    <2>2. v[1] = start /\ v[2] = duration
        BY ZenonT(60)
    <2>. HIDE DEF v, start, duration
    <2>3. Adjusted(r, t) = NewReservation(d, l, v[1], v[2], "Record")
        BY <1>4, <2>2, ZenonT(60)
    <2>. QED  BY <2>1, <2>3, RecordingsHave, ZenonT(60)
<1>7. CASE start = w[1]
    <2>1. duration = w[2]
        BY <1>2, <1>3, <1>7, SMTT(60)
    <2>. QED  BY <1>4, <1>7, <2>1, SMTT(60) DEF Recordings
<1>. QED  BY <1>5, <1>6, <1>7, ZenonT(60)

-----------------------------------------------------------------------------
(* The inductive invariant.  s is the list of pending requests, v the      *)
(* decisions, a the ids asked for and w the position of the loop of        *)
(* onReservationUpdated: a handler changes the list in several steps.      *)

HasGrant(answers) == \E n \in DOMAIN answers : answers[n] = "granted"

\* A conflict, and the wait for the Live to be cancelled, stand for a Record
\* request; only these are ever put on timedoutPending.
EntryOK(p) ==
    /\ p.type # "cancelRecording" =>
          p.id \in RecordIds /\ p.req \in Recordings /\ p.parent \in Tuners
    /\ p.type = "cancelRecording" => p.id \in CancelIds /\ p.token \in Tokens /\ ~p.marked

\* Who waits has no answer yet, or was told that its recording stays.
Undecided(p, v) ==
    /\ p.type # "cancelRecording" /\ ~p.marked => v[p.id] = <<>>
    /\ p.type = "cancelRecording" /\ p.sent => v[p.id] = <<>>
    /\ p.type = "cancelRecording" => ~HasGrant(v[p.id])

\* The ids of the requests that wait.
Open(s) == {s[i].id : i \in {j \in DOMAIN s : ~s[j].marked}}

Waiting(s, v, a, w) ==
    /\ s \in Seq(PendingRequests)
    /\ w \in 0 .. Len(s) + 1
    /\ \A i \in DOMAIN s : /\ EntryOK(s[i])
                           /\ Undecided(s[i], v)
                           /\ s[i].id \in a
                           /\ s[i].marked => i < w
    /\ \A i, j \in DOMAIN s :
          ~s[i].marked /\ ~s[j].marked /\ s[i].id = s[j].id => i = j
    /\ a \subseteq RecordIds \cup CancelIds
    /\ v \in [RecordIds \cup CancelIds -> Seq({"granted", "refused"})]
    /\ \A q \in (RecordIds \cup CancelIds) \ a : v[q] = <<>>
    /\ \A q \in RecordIds : Len(v[q]) <= 1
    /\ \A q \in CancelIds : HasGrant(v[q]) => Len(v[q]) = 1

-----------------------------------------------------------------------------
(* What a handler does to the list of pending requests.                    *)

\* s without its i-th element.
Removed(s, i) == SubSeq(s, 1, i - 1) \o SubSeq(s, i + 1, Len(s))

LEMMA Concatenated ==
    ASSUME NEW S, NEW b \in Seq(S), NEW c \in Seq(S)
    PROVE  /\ b \o c \in Seq(S)
           /\ Len(b \o c) = Len(b) + Len(c)
           /\ \A j \in 1 .. Len(b) + Len(c) :
                 (b \o c)[j] = IF j <= Len(b) THEN b[j] ELSE c[j - Len(b)]
    BY SMTT(60)

LEMMA RemovedSeq ==
    ASSUME NEW S, NEW s \in Seq(S), NEW i \in DOMAIN s
    PROVE  /\ Removed(s, i) \in Seq(S)
           /\ Len(Removed(s, i)) = Len(s) - 1
           /\ \A j \in 1 .. i - 1 : Removed(s, i)[j] = s[j]
           /\ \A j \in i .. Len(s) - 1 : Removed(s, i)[j] = s[j + 1]
<1>. DEFINE b == SubSeq(s, 1, i - 1)
            c == SubSeq(s, i + 1, Len(s))
<1>1. Len(s) \in Nat /\ DOMAIN s = 1 .. Len(s) /\ i \in 1 .. Len(s)
    BY SMTT(60)
<1>2. b \in Seq(S) /\ Len(b) = i - 1 /\ \A j \in 1 .. i - 1 : b[j] = s[j]
    BY <1>1, SMTT(60)
<1>3. c \in Seq(S) /\ Len(c) = Len(s) - i /\ \A j \in 1 .. Len(s) - i : c[j] = s[j + i]
    BY <1>1, SMTT(60)
<1>. HIDE DEF b, c
<1>4. /\ b \o c \in Seq(S) /\ Len(b \o c) = Len(s) - 1
      /\ \A j \in 1 .. i - 1 : (b \o c)[j] = b[j]
      /\ \A j \in i .. Len(s) - 1 : (b \o c)[j] = c[j - (i - 1)]
    <2>. DEFINE e == b \o c
    <2>1. /\ e \in Seq(S) /\ Len(e) = Len(b) + Len(c)
          /\ \A j \in 1 .. Len(b) + Len(c) :
                e[j] = IF j <= Len(b) THEN b[j] ELSE c[j - Len(b)]
        BY <1>2, <1>3, Concatenated, ZenonT(60)
    <2>. HIDE DEF e
    <2>2. e \in Seq(S) /\ Len(e) = Len(s) - 1
        BY <1>1, <1>2, <1>3, <2>1, SMTT(60)
    <2>3. \A j \in 1 .. i - 1 : e[j] = b[j]
        BY <1>1, <1>2, <1>3, <2>1, SMTT(60)
    <2>4. \A j \in i .. Len(s) - 1 : e[j] = c[j - (i - 1)]
        <3>. SUFFICES ASSUME NEW j \in i .. Len(s) - 1
                      PROVE  e[j] = c[j - (i - 1)]
            BY ZenonT(60)
        <3>1. j \in 1 .. Len(b) + Len(c) /\ ~(j <= Len(b)) /\ j - Len(b) = j - (i - 1)
            BY <1>1, <1>2, <1>3, SMTT(60)
        <3>. QED  BY <2>1, <3>1, ZenonT(60)
    <2>. QED  BY <2>2, <2>3, <2>4, ZenonT(60) DEF e
<1>5. \A j \in i .. Len(s) - 1 : c[j - (i - 1)] = s[j + 1]
    <2>. SUFFICES ASSUME NEW j \in i .. Len(s) - 1
                  PROVE  c[j - (i - 1)] = s[j + 1]
        BY ZenonT(60)
    <2>1. j - (i - 1) \in 1 .. Len(s) - i /\ (j - (i - 1)) + i = j + 1
        BY <1>1, SMTT(60)
    <2>2. c[j - (i - 1)] = s[(j - (i - 1)) + i]
        BY <1>3, <2>1, ZenonT(60)
    <2>. QED  BY <2>1, <2>2, ZenonT(60)
<1>. QED  BY <1>2, <1>4, <1>5, ZenonT(60) DEF Removed, b, c

\* The loop of onReservationUpdated moves on.
LEMMA SweepWaiting ==
    ASSUME NEW s, NEW v, NEW a, NEW w, Waiting(s, v, a, w),
           NEW x \in 0 .. Len(s) + 1, \A i \in DOMAIN s : s[i].marked => i < x
    PROVE  Waiting(s, v, a, x)
    BY ZenonT(60) DEF Waiting

\* A request is put under an id that is new.
LEMMA AskWaiting ==
    ASSUME NEW s, NEW v, NEW a, NEW w, Waiting(s, v, a, w),
           NEW q \in (RecordIds \cup CancelIds) \ a
    PROVE  /\ Waiting(s, v, a \cup {q}, w)
           /\ v[q] = <<>>
           /\ q \notin Open(s)
    BY ZenonT(60) DEF Waiting, Open

\* An element leaves the list, outside the loop or at its end.
LEMMA RemoveWaiting ==
    ASSUME NEW s, NEW v, NEW a, NEW w, Waiting(s, v, a, w), NEW i \in DOMAIN s,
           NEW x, (w = 0 /\ x = 0) \/ (w = Len(s) + 1 /\ x = Len(s))
    PROVE  /\ Waiting(Removed(s, i), v, a, x)
           /\ Open(s) \ {s[i].id} \subseteq Open(Removed(s, i))
           /\ s[i].marked => Open(s) \subseteq Open(Removed(s, i))
           /\ ~s[i].marked => s[i].id \notin Open(Removed(s, i))
<1>. DEFINE r == Removed(s, i)
            from(j) == IF j < i THEN j ELSE j + 1
<1>1. s \in Seq(PendingRequests) /\ Len(s) \in Nat /\ DOMAIN s = 1 .. Len(s)
    BY SMTT(60) DEF Waiting
<1>2. /\ r \in Seq(PendingRequests)
      /\ Len(r) = Len(s) - 1
      /\ \A j \in 1 .. i - 1 : r[j] = s[j]
      /\ \A j \in i .. Len(s) - 1 : r[j] = s[j + 1]
    BY <1>1, RemovedSeq, ZenonT(60)
<1>. HIDE DEF r
<1>3. DOMAIN r = 1 .. Len(s) - 1
    BY <1>1, <1>2, SMTT(60)
<1>4. \A j \in DOMAIN r : from(j) \in DOMAIN s /\ from(j) # i /\ r[j] = s[from(j)]
    BY <1>1, <1>2, <1>3, SMTT(60)
<1>5. \A j, k \in DOMAIN r : from(j) = from(k) => j = k
    BY <1>1, <1>3, SMTT(60)
<1>6. \A k \in DOMAIN s \ {i} : \E j \in DOMAIN r : k = from(j) /\ j <= k
    <2>. SUFFICES ASSUME NEW k \in DOMAIN s \ {i}
                  PROVE  \E j \in DOMAIN r : k = from(j) /\ j <= k
        BY ZenonT(60)
    <2>1. CASE k < i
        BY <1>1, <1>3, <2>1, SMTT(60)
    <2>2. CASE k > i
        <3>1. k - 1 \in DOMAIN r /\ k = from(k - 1) /\ k - 1 <= k
            BY <1>1, <1>3, <2>2, SMTT(60)
        <3>. QED  BY <3>1, ZenonT(60)
    <2>. QED  BY <1>1, <2>1, <2>2, SMTT(60)
<1>7. \A j \in DOMAIN r : r[j].marked => j < x
    BY <1>1, <1>3, <1>4, SMTT(60) DEF Waiting
<1>8. x \in 0 .. Len(r) + 1
    BY <1>1, <1>2, SMTT(60)
<1>. HIDE DEF from
<1>9. Waiting(r, v, a, x)
    <2>1. \A j \in DOMAIN r : EntryOK(r[j]) /\ Undecided(r[j], v) /\ r[j].id \in a
        BY <1>4, ZenonT(60) DEF Waiting
    <2>2. \A j, k \in DOMAIN r : ~r[j].marked /\ ~r[k].marked /\ r[j].id = r[k].id => j = k
        BY <1>4, <1>5, SMTT(60) DEF Waiting
    <2>. QED  BY <1>2, <1>7, <1>8, <2>1, <2>2, ZenonT(60) DEF Waiting
<1>10. ASSUME NEW q \in Open(s), q # s[i].id \/ s[i].marked
       PROVE  q \in Open(r)
    <2>1. PICK k \in DOMAIN s : ~s[k].marked /\ s[k].id = q
        BY ZenonT(60) DEF Open
    <2>2. k # i
        BY <1>10, <2>1, ZenonT(60)
    <2>3. PICK j \in DOMAIN r : k = from(j)
        BY <1>6, <2>2, ZenonT(60)
    <2>. QED  BY <1>4, <2>1, <2>3, ZenonT(60) DEF Open
<1>11. ASSUME ~s[i].marked, s[i].id \in Open(r)
       PROVE  FALSE
    <2>1. PICK j \in DOMAIN r : ~r[j].marked /\ r[j].id = s[i].id
        BY <1>11, ZenonT(60) DEF Open
    <2>. QED  BY <1>4, <1>11, <2>1, ZenonT(60) DEF Waiting
<1>. QED  BY <1>9, <1>10, <1>11, ZenonT(60) DEF r

\* A request is put on timedoutPending by the loop that has just met it.
LEMMA MarkWaiting ==
    ASSUME NEW s, NEW v, NEW a, NEW w, Waiting(s, v, a, w),
           NEW i \in DOMAIN s, i = w, s[i].type # "cancelRecording"
    PROVE  LET m == [s EXCEPT ![i].marked = TRUE]
           IN  /\ Waiting(m, v, a, w + 1)
               /\ Open(s) \ {s[i].id} \subseteq Open(m)
               /\ s[i].id \notin Open(m)
<1>. DEFINE m == [s EXCEPT ![i].marked = TRUE]
<1>1. s \in Seq(PendingRequests) /\ Len(s) \in Nat /\ DOMAIN s = 1 .. Len(s)
    BY SMTT(60) DEF Waiting
<1>2. s[i] \in PendingRequests /\ ~s[i].marked
    BY <1>1, SMTT(60) DEF Waiting
<1>3. /\ [s[i] EXCEPT !.marked = TRUE] \in PendingRequests
      /\ m = [s EXCEPT ![i] = [s[i] EXCEPT !.marked = TRUE]]
    BY <1>2, ZenonT(60) DEF PendingRequests
<1>4. /\ m \in Seq(PendingRequests) /\ Len(m) = Len(s) /\ DOMAIN m = DOMAIN s
      /\ \A j \in DOMAIN s \ {i} : m[j] = s[j]
      /\ m[i] = [s[i] EXCEPT !.marked = TRUE]
    <2>. HIDE DEF m
    <2>. QED  BY <1>1, <1>3, SMTT(60)
<1>5. /\ m[i].marked /\ m[i].id = s[i].id /\ m[i].type = s[i].type
      /\ m[i].req = s[i].req /\ m[i].parent = s[i].parent
    <2>. HIDE DEF m
    <2>. QED  BY <1>2, <1>4, ZenonT(60) DEF PendingRequests
<1>. HIDE DEF m
<1>6. EntryOK(m[i]) /\ Undecided(m[i], v) /\ m[i].id \in a
    BY <1>5, ZenonT(60) DEF Waiting, EntryOK, Undecided
<1>7. w + 1 \in 0 .. Len(m) + 1 /\ \A j \in DOMAIN m : m[j].marked => j < w + 1
    BY <1>1, <1>4, SMTT(60) DEF Waiting
<1>8. \A j, k \in DOMAIN m : ~m[j].marked /\ ~m[k].marked /\ m[j].id = m[k].id => j = k
    BY <1>4, <1>5, ZenonT(60) DEF Waiting
<1>9. Waiting(m, v, a, w + 1)
    BY <1>4, <1>6, <1>7, <1>8, ZenonT(60) DEF Waiting
<1>10. Open(s) \ {s[i].id} \subseteq Open(m)
    BY <1>4, SMTT(60) DEF Open
<1>11. s[i].id \notin Open(m)
    <2>1. \A j \in DOMAIN s : ~m[j].marked => j # i /\ m[j] = s[j]
        BY <1>4, <1>5, ZenonT(60)
    <2>2. \A j \in DOMAIN s : ~s[j].marked /\ s[j].id = s[i].id => j = i
        BY <1>2, ZenonT(60) DEF Waiting
    <2>. QED  BY <1>4, <2>1, <2>2, SMTT(60) DEF Open
<1>. QED  BY <1>9, <1>10, <1>11, ZenonT(60) DEF m

\* A handler threw, and the single-shot timer of the request is spent.
LEMMA SpendWaiting ==
    ASSUME NEW s, NEW v, NEW a, NEW w, Waiting(s, v, a, w), NEW i \in DOMAIN s
    PROVE  LET m == [s EXCEPT ![i].armed = FALSE]
           IN  Waiting(m, v, a, w) /\ Open(m) = Open(s)
<1>. DEFINE m == [s EXCEPT ![i].armed = FALSE]
<1>1. s \in Seq(PendingRequests) /\ Len(s) \in Nat /\ DOMAIN s = 1 .. Len(s)
    BY SMTT(60) DEF Waiting
<1>2. s[i] \in PendingRequests
    BY <1>1, SMTT(60)
<1>3. /\ [s[i] EXCEPT !.armed = FALSE] \in PendingRequests
      /\ m = [s EXCEPT ![i] = [s[i] EXCEPT !.armed = FALSE]]
    BY <1>2, ZenonT(60) DEF PendingRequests
<1>4. /\ m \in Seq(PendingRequests) /\ Len(m) = Len(s) /\ DOMAIN m = DOMAIN s
      /\ \A j \in DOMAIN s \ {i} : m[j] = s[j]
      /\ m[i] = [s[i] EXCEPT !.armed = FALSE]
    <2>. HIDE DEF m
    <2>. QED  BY <1>1, <1>3, SMTT(60)
<1>5. /\ m[i].marked = s[i].marked /\ m[i].id = s[i].id /\ m[i].type = s[i].type
      /\ m[i].req = s[i].req /\ m[i].parent = s[i].parent /\ m[i].sent = s[i].sent
      /\ m[i].token = s[i].token
    <2>. HIDE DEF m
    <2>. QED  BY <1>2, <1>4, ZenonT(60) DEF PendingRequests
<1>. HIDE DEF m
<1>6. \A j \in DOMAIN s : m[j].marked = s[j].marked /\ m[j].id = s[j].id
    BY <1>4, <1>5, ZenonT(60)
<1>7. EntryOK(m[i]) /\ Undecided(m[i], v)
    BY <1>5, SMTT(60) DEF Waiting, EntryOK, Undecided
<1>8. \A j \in DOMAIN s : EntryOK(m[j]) /\ Undecided(m[j], v)
    BY <1>4, <1>7, ZenonT(60) DEF Waiting
<1>9. Waiting(m, v, a, w)
    BY <1>4, <1>6, <1>8, ZenonT(60) DEF Waiting
<1>10. Open(m) = Open(s)
    BY <1>4, <1>6, SMTT(60) DEF Open
<1>. QED  BY <1>9, <1>10, ZenonT(60) DEF m

\* A request joins the list.
LEMMA AppendWaiting ==
    ASSUME NEW s, NEW v, NEW a, NEW w, Waiting(s, v, a, w),
           NEW p \in PendingRequests, EntryOK(p), Undecided(p, v), ~p.marked,
           p.id \in a, p.id \notin Open(s)
    PROVE  /\ Waiting(Append(s, p), v, a, w)
           /\ Open(Append(s, p)) = Open(s) \cup {p.id}
<1>. DEFINE m == Append(s, p)
<1>1. s \in Seq(PendingRequests) /\ Len(s) \in Nat /\ DOMAIN s = 1 .. Len(s)
    BY SMTT(60) DEF Waiting
<1>2. /\ m \in Seq(PendingRequests) /\ Len(m) = Len(s) + 1
      /\ DOMAIN m = DOMAIN s \cup {Len(s) + 1}
      /\ \A j \in DOMAIN s : m[j] = s[j] /\ j # Len(s) + 1
      /\ m[Len(s) + 1] = p
    BY <1>1, SMTT(60)
<1>. HIDE DEF m
<1>3. \A j \in DOMAIN s : ~s[j].marked => s[j].id # p.id
    BY ZenonT(60) DEF Open
<1>4. w \in 0 .. Len(m) + 1
    BY <1>1, <1>2, SMTT(60) DEF Waiting
<1>5. \A j \in DOMAIN m : /\ EntryOK(m[j]) /\ Undecided(m[j], v) /\ m[j].id \in a
                          /\ m[j].marked => j < w
    BY <1>2, ZenonT(60) DEF Waiting
<1>6. \A j, k \in DOMAIN m : ~m[j].marked /\ ~m[k].marked /\ m[j].id = m[k].id => j = k
    BY <1>2, <1>3, ZenonT(60) DEF Waiting
<1>7. Waiting(m, v, a, w)
    BY <1>2, <1>4, <1>5, <1>6, ZenonT(60) DEF Waiting
<1>8. Open(m) = Open(s) \cup {p.id}
    BY <1>2, SMTT(60) DEF Open
<1>. QED  BY <1>7, <1>8, ZenonT(60) DEF m

\* u is v after Decide(q, verdict).
Appends(u, v, q, verdict) ==
    /\ u \in [RecordIds \cup CancelIds -> Seq({"granted", "refused"})]
    /\ u[q] = Append(v[q], verdict)
    /\ \A r \in (RecordIds \cup CancelIds) \ {q} : u[r] = v[r]

LEMMA DecideAppends ==
    ASSUME verdicts \in [RecordIds \cup CancelIds -> Seq({"granted", "refused"})],
           NEW q \in RecordIds \cup CancelIds, NEW verdict \in {"granted", "refused"},
           Decide(q, verdict)
    PROVE  Appends(verdicts', verdicts, q, verdict)
    BY SMTT(60) DEF Decide, Appends

\* A request that does not wait, or no longer, is answered.
LEMMA DecideWaiting ==
    ASSUME NEW s, NEW v, NEW a, NEW w, Waiting(s, v, a, w),
           NEW q \in a, q \notin Open(s), NEW verdict \in {"granted", "refused"},
           ~HasGrant(v[q]), q \in RecordIds \/ verdict = "granted" => v[q] = <<>>,
           NEW u, Appends(u, v, q, verdict)
    PROVE  /\ Waiting(s, u, a, w)
           /\ u[q] # v[q]
           /\ verdict = "refused" => ~HasGrant(u[q])
<1>1. /\ v \in [RecordIds \cup CancelIds -> Seq({"granted", "refused"})]
      /\ q \in RecordIds \cup CancelIds
      /\ v[q] \in Seq({"granted", "refused"})
    BY ZenonT(60) DEF Waiting
<1>2. /\ u \in [RecordIds \cup CancelIds -> Seq({"granted", "refused"})]
      /\ u[q] = Append(v[q], verdict)
      /\ \A r \in (RecordIds \cup CancelIds) \ {q} : u[r] = v[r]
    BY ZenonT(60) DEF Appends
<1>3. /\ Len(u[q]) = Len(v[q]) + 1 /\ Len(v[q]) \in Nat
      /\ DOMAIN u[q] = 1 .. Len(v[q]) + 1 /\ DOMAIN v[q] = 1 .. Len(v[q])
      /\ \A n \in 1 .. Len(v[q]) : u[q][n] = v[q][n]
      /\ u[q][Len(v[q]) + 1] = verdict
    BY <1>1, <1>2, SMTT(60)
<1>4. verdict = "refused" => ~HasGrant(u[q])
    BY <1>3, SMTT(60) DEF HasGrant
<1>5. v[q] = <<>> => Len(u[q]) = 1
    BY <1>3, SMTT(60)
<1>6. \A i \in DOMAIN s : Undecided(s[i], u)
    <2>. SUFFICES ASSUME NEW i \in DOMAIN s
                  PROVE  Undecided(s[i], u)
        BY ZenonT(60)
    <2>1. EntryOK(s[i]) /\ Undecided(s[i], v) /\ s[i].id \in RecordIds \cup CancelIds
        BY ZenonT(60) DEF Waiting
    <2>2. CASE s[i].marked
        <3>1. s[i].type # "cancelRecording"
            BY <2>1, <2>2, ZenonT(60) DEF EntryOK
        <3>. QED  BY <2>2, <3>1, ZenonT(60) DEF Undecided
    <2>3. CASE ~s[i].marked
        <3>1. s[i].id # q
            BY <2>3, ZenonT(60) DEF Open
        <3>2. u[s[i].id] = v[s[i].id]
            BY <1>2, <2>1, <3>1, ZenonT(60)
        <3>. QED  BY <2>1, <3>2, ZenonT(60) DEF Undecided
    <2>. QED  BY <2>2, <2>3, ZenonT(60)
<1>7. \A r \in RecordIds : Len(u[r]) <= 1
    BY <1>2, <1>5, SMTT(60) DEF Waiting
<1>8. \A r \in CancelIds : HasGrant(u[r]) => Len(u[r]) = 1
    BY <1>2, <1>4, <1>5, ZenonT(60) DEF Waiting
<1>9. \A r \in (RecordIds \cup CancelIds) \ a : u[r] = <<>>
    BY <1>2, ZenonT(60) DEF Waiting
<1>10. Waiting(s, u, a, w)
    BY <1>2, <1>6, <1>7, <1>8, <1>9, ZenonT(60) DEF Waiting
<1>11. u[q] # v[q]
    BY <1>3, SMTT(60)
<1>. QED  BY <1>4, <1>10, <1>11, ZenonT(60)

-----------------------------------------------------------------------------
(* Every handler keeps the list of pending requests sound, and answers what*)
(* it takes off the list.                                                  *)

\* The body of NoneForgotten, for one step.
NoneLost ==
    \A q \in RecordIds :
        q \in Open(pending) /\ q \notin Open(pending') =>
            verdicts'[q] # verdicts[q] \/ Recorder \notin connected

Waits == Waiting(pending, verdicts, asked, sweep)
WaitsNext == Waiting(pending', verdicts', asked', sweep') /\ NoneLost

\* What the end of request i (gone) and its survival (kept) do to the list.
Leaves(i, gone, kept, w) ==
    /\ Waiting(gone, verdicts, asked, w)
    /\ pending[i].id \notin Open(gone)
    /\ Open(pending) \ {pending[i].id} \subseteq Open(gone)
    /\ Waiting(kept, verdicts, asked, w)
    /\ Open(pending) \subseteq Open(kept)

LEMMA RemovedIs ==
    ASSUME NEW i
    PROVE  removePendingRequest(i) = Removed(pending, i)
    BY ZenonT(60) DEF removePendingRequest, Removed

\* Outside the loop nothing is on timedoutPending.
LEMMA IdleLeaves ==
    ASSUME Waits, Idle, NEW i \in DOMAIN pending
    PROVE  /\ ~pending[i].marked
           /\ Leaves(i, removePendingRequest(i), Spent(i), sweep)
           /\ Leaves(i, removePendingRequest(i), pending, sweep)
<1>1. sweep = 0 /\ ~pending[i].marked
    <2>1. sweep = 0 /\ pending \in Seq(PendingRequests) /\ (pending[i].marked => i < sweep)
        BY ZenonT(60) DEF Waits, Waiting, Idle
    <2>. QED  BY <2>1, SMTT(60)
<1>2. /\ Waiting(Removed(pending, i), verdicts, asked, sweep)
      /\ Open(pending) \ {pending[i].id} \subseteq Open(Removed(pending, i))
      /\ pending[i].id \notin Open(Removed(pending, i))
    BY <1>1, RemoveWaiting, ZenonT(60) DEF Waits
<1>3. Waiting(Spent(i), verdicts, asked, sweep) /\ Open(Spent(i)) = Open(pending)
    BY SpendWaiting, ZenonT(60) DEF Waits, Spent
<1>. QED  BY <1>1, <1>2, <1>3, RemovedIs, ZenonT(60) DEF Leaves, Waits

\* A conflict or a wait for the Live to be cancelled is an undecided Record.
LEMMA WaitingRecord ==
    ASSUME Waits, NEW i \in DOMAIN pending, ~pending[i].marked,
           pending[i].type # "cancelRecording"
    PROVE  /\ pending[i].id \in RecordIds /\ pending[i].id \in asked
           /\ pending[i].id \in Open(pending)
           /\ pending[i].req \in Recordings /\ pending[i].parent \in Tuners
           /\ verdicts[pending[i].id] = <<>> /\ ~HasGrant(verdicts[pending[i].id])
<1>1. EntryOK(pending[i]) /\ Undecided(pending[i], verdicts) /\ pending[i].id \in asked
    BY ZenonT(60) DEF Waits, Waiting
<1>2. pending[i].id \in Open(pending)
    BY ZenonT(60) DEF Open
<1>3. \A e : e = <<>> => ~HasGrant(e)
    BY SMTT(60) DEF HasGrant
<1>. QED  BY <1>1, <1>2, <1>3, ZenonT(60) DEF EntryOK, Undecided

\* The grant of what was pending: an answer, or the request stays.
LEMMA GrantPendingWaits ==
    ASSUME Waits, NEW i \in DOMAIN pending, ~pending[i].marked,
           pending[i].type # "cancelRecording", NEW gone, NEW kept,
           Leaves(i, gone, kept, sweep'), GrantPending(pending[i], gone, kept),
           asked' = asked
    PROVE  WaitsNext
<1>. DEFINE q == pending[i].id
<1>1. /\ q \in RecordIds /\ q \in asked
      /\ verdicts[q] = <<>> /\ ~HasGrant(verdicts[q])
    BY WaitingRecord, ZenonT(60)
<1>2. \/ pending' = gone /\ Decide(q, "granted")
      \/ pending' = kept /\ UNCHANGED verdicts
    BY ZenonT(60) DEF GrantPending
<1>. HIDE DEF q
<1>3. CASE pending' = gone /\ Decide(q, "granted")
    <2>1. Waiting(gone, verdicts, asked, sweep') /\ q \notin Open(gone)
          /\ Open(pending) \ {q} \subseteq Open(gone)
        BY ZenonT(60) DEF Leaves, q
    <2>2. Appends(verdicts', verdicts, q, "granted")
        BY <1>1, <1>3, DecideAppends, ZenonT(60) DEF Waits, Waiting
    <2>3. Waiting(gone, verdicts', asked, sweep') /\ verdicts'[q] # verdicts[q]
        BY <1>1, <2>1, <2>2, DecideWaiting, ZenonT(60)
    <2>. QED  BY <1>3, <2>1, <2>3, ZenonT(60) DEF WaitsNext, NoneLost
<1>4. CASE pending' = kept /\ UNCHANGED verdicts
    BY <1>4, ZenonT(60) DEF Leaves, WaitsNext, NoneLost
<1>. QED  BY <1>2, <1>3, <1>4, ZenonT(60)

\* A conflict is dropped without an answer only when there is no recorder.
LEMMA DropNeedsNoRecorder ==
    ASSUME Inv, NEW p, p.parent \in Tuners, ConflictOutcome(p) = "drop"
    PROVE  Recorder \notin connected
<1>. DEFINE rs == reservations[p.parent]
            held == getReservationTokens(rs)
            only == rs[Min(held)]
            emergency == only.eas /\ only.serviceLocator # p.req.serviceLocator
            reachable == Recorder \in connected
<1>1. rs \in ReservationMap
    BY ZenonT(60) DEF Inv, TypeOK
<1>2. held # {} => only.activity \in {"Live", "Record"}
    <2>. HIDE DEF rs
    <2>1. held \subseteq Nat
        BY TokensAssumption, ZenonT(60) DEF getReservationTokens
    <2>2. \A k \in held : rs[k].activity \in {"Live", "Record"}
        BY <1>1, ZenonT(60) DEF getReservationTokens, ReservationMap, Reservation, Activities
    <2>. HIDE DEF held
    <2>. QED  BY <2>1, <2>2, MinInSet, ZenonT(60)
<1>3. held = {} => Cardinality(held) = 0
    BY FS_EmptySet, ZenonT(60)
<1>4. "drop" = CASE held = {} -> "grant"
          [] Cardinality(held) = 2 -> IF getState(rs) = "Hybrid" THEN "grant" ELSE "throw"
          [] Cardinality(held) > 2 -> "throw"
          [] Cardinality(held) = 1 /\ emergency -> IF reachable THEN "refuse" ELSE "throw"
          [] OTHER -> CASE only.activity = "Record" -> "throw"
                        [] only.activity = "Live" /\ reachable -> "cancelLive"
                        [] OTHER -> "drop"
    BY ZenonT(60) DEF ConflictOutcome
<1>. HIDE DEF only, emergency, held, rs
<1>. QED  BY <1>2, <1>3, <1>4, ZenonT(60)

\* What timeout() of a conflict leaves behind, however it ends.
LEMMA SettleWaits ==
    ASSUME Waits, Inv, Recorder \in Clients,
           NEW i \in DOMAIN pending, ~pending[i].marked,
           pending[i].type = "conflict", NEW gone, NEW kept,
           Leaves(i, gone, kept, sweep'), SettleConflict(pending[i], gone, kept),
           asked' = asked
    PROVE  WaitsNext
<1>. DEFINE p == pending[i]
<1>1. /\ p.id \in RecordIds /\ p.id \in asked
      /\ p.req \in Recordings /\ p.parent \in Tuners
      /\ verdicts[p.id] = <<>> /\ ~HasGrant(verdicts[p.id])
    BY WaitingRecord, ZenonT(60)
<1>2. /\ Waiting(gone, verdicts, asked, sweep') /\ p.id \notin Open(gone)
      /\ Open(pending) \ {p.id} \subseteq Open(gone)
      /\ Waiting(kept, verdicts, asked, sweep')
      /\ Open(pending) \subseteq Open(kept)
    BY ZenonT(60) DEF Leaves
<1>3. CASE GrantPending(p, gone, kept)
    BY <1>3, GrantPendingWaits, ZenonT(60)
<1>4. CASE pending' = gone /\ Decide(p.id, "refused")
    <2>. HIDE DEF p
    <2>2. Appends(verdicts', verdicts, p.id, "refused")
        BY <1>1, <1>4, DecideAppends, ZenonT(60) DEF Waits, Waiting
    <2>3. Waiting(gone, verdicts', asked, sweep') /\ verdicts'[p.id] # verdicts[p.id]
        BY <1>1, <1>2, <2>2, DecideWaiting, SMTT(60)
    <2>. QED  BY <1>2, <1>4, <2>3, ZenonT(60) DEF WaitsNext, NoneLost
<1>5. CASE /\ pending' = Append(gone,
                 Pending("cancelLive", p.id, p.req, p.parent, NoToken, Recorder, TRUE))
           /\ UNCHANGED verdicts
    <2>. HIDE DEF p
    <2>. DEFINE n == Pending("cancelLive", p.id, p.req, p.parent, NoToken, Recorder, TRUE)
    <2>1. p.req \in Reservation
        BY <1>1, RecordingsAreRequests, RequestsAreIdle, ZenonT(60)
    <2>2. n \in PendingRequests /\ n.id = p.id /\ n.type = "cancelLive" /\ ~n.marked
          /\ n.req = p.req /\ n.parent = p.parent
        BY <1>1, <2>1, ZenonT(60) DEF Pending, PendingRequests
    <2>. HIDE DEF n
    <2>3. EntryOK(n) /\ Undecided(n, verdicts)
        BY <1>1, <2>2, ZenonT(60) DEF EntryOK, Undecided
    <2>4. /\ Waiting(Append(gone, n), verdicts, asked, sweep')
          /\ Open(Append(gone, n)) = Open(gone) \cup {p.id}
        BY <1>1, <1>2, <2>2, <2>3, AppendWaiting, SMTT(60)
    <2>5. pending' = Append(gone, n)
        BY <1>5, ZenonT(60) DEF n
    <2>. QED  BY <1>2, <1>5, <2>4, <2>5, ZenonT(60) DEF WaitsNext, NoneLost
<1>6. CASE ConflictOutcome(p) = "drop" /\ pending' = gone /\ UNCHANGED verdicts
    <2>1. Recorder \notin connected
        BY <1>1, <1>6, DropNeedsNoRecorder, ZenonT(60)
    <2>. HIDE DEF p
    <2>. QED  BY <1>2, <1>6, <2>1, ZenonT(60) DEF WaitsNext, NoneLost
<1>7. CASE pending' = kept /\ UNCHANGED verdicts
    <2>. HIDE DEF p
    <2>. QED  BY <1>2, <1>7, ZenonT(60) DEF WaitsNext, NoneLost
<1>. QED  BY <1>3, <1>4, <1>5, <1>6, <1>7, ZenonT(60) DEF SettleConflict

\* A recording is asked for: it is answered, or it joins the list.
LEMMA ReserveRecordWaits ==
    ASSUME Waits, connected \subseteq Clients,
           NEW q \in RecordIds, NEW d \in Devices, NEW l \in Locators, NEW w \in Programmes,
           ReserveRecord(q, d, l, w)
    PROVE  WaitsNext
<1>. DEFINE r == NewReservation(d, l, w[1], w[2], "Record")
            live == RecordConflict(reservations, d, w[1])
            n == Pending("conflict", q, r, getParent(reservations, live), live, Recorder,
                         attrs[live] \in connected')
<1>1. q \in (RecordIds \cup CancelIds) \ asked /\ asked' = asked \cup {q} /\ sweep' = sweep
    BY ZenonT(60) DEF ReserveRecord, Ask
<1>2. /\ Waiting(pending, verdicts, asked', sweep')
      /\ verdicts[q] = <<>> /\ q \notin Open(pending)
    BY <1>1, AskWaiting, ZenonT(60) DEF Waits
<1>3. ~HasGrant(verdicts[q])
    BY <1>2, SMTT(60) DEF HasGrant
<1>4. \/ pending' = pending /\ \E verdict \in {"granted", "refused"} : Decide(q, verdict)
      \/ pending' = pending /\ verdicts' = verdicts
      \/ live # NoToken /\ pending' = Append(pending, n) /\ verdicts' = verdicts
    BY ZenonT(60) DEF ReserveRecord
<1>5. CASE pending' = pending /\ \E verdict \in {"granted", "refused"} : Decide(q, verdict)
    <2>. HIDE DEF n, live, r
    <2>1. PICK verdict \in {"granted", "refused"} : Decide(q, verdict)
        BY <1>5, ZenonT(60)
    <2>2. Appends(verdicts', verdicts, q, verdict)
        BY <2>1, DecideAppends, ZenonT(60) DEF Waits, Waiting
    <2>3. Waiting(pending, verdicts', asked', sweep')
        BY <1>1, <1>2, <1>3, <2>2, DecideWaiting, ZenonT(60)
    <2>. QED  BY <1>5, <2>3, ZenonT(60) DEF WaitsNext, NoneLost
<1>6. CASE pending' = pending /\ verdicts' = verdicts
    BY <1>2, <1>6, ZenonT(60) DEF WaitsNext, NoneLost
<1>7. CASE live # NoToken /\ pending' = Append(pending, n) /\ verdicts' = verdicts
    <2>1. live \in Tokens /\ getParent(reservations, live) \in Tuners
        BY <1>7, ConflictIsHeld, ParentHolds, ZenonT(60)
    <2>2. r \in Recordings /\ r \in Reservation
        <3>1. r \in Recordings
            BY ProgrammesAssumption, RecordingsHave, ZenonT(60)
        <3>. QED  BY <3>1, RecordingsAreRequests, RequestsAreIdle, ZenonT(60)
    <2>. DEFINE sent == attrs[live] \in connected'
                parent == getParent(reservations, live)
    <2>3. sent \in BOOLEAN /\ Recorder \in Clients
        BY ClientsAssumption, SMTT(60)
    <2>4. /\ n \in PendingRequests /\ n.id = q /\ n.type = "conflict" /\ ~n.marked
          /\ n.req = r /\ n.parent \in Tuners
        <3>. HIDE DEF sent, parent, live, r
        <3>1. n = Pending("conflict", q, r, parent, live, Recorder, sent)
            BY ZenonT(60) DEF sent, parent
        <3>2. parent \in Tuners
            BY <2>1, ZenonT(60) DEF parent
        <3>. QED  BY <2>1, <2>2, <2>3, <3>1, <3>2, ZenonT(60) DEF Pending, PendingRequests
    <2>. HIDE DEF n, live, r
    <2>5. EntryOK(n) /\ Undecided(n, verdicts)
        BY <1>2, <2>2, <2>4, ZenonT(60) DEF EntryOK, Undecided
    <2>6. /\ Waiting(Append(pending, n), verdicts, asked', sweep')
          /\ Open(Append(pending, n)) = Open(pending) \cup {q}
        BY <1>1, <1>2, <2>4, <2>5, AppendWaiting, SMTT(60)
    <2>. QED  BY <1>7, <2>6, ZenonT(60) DEF WaitsNext, NoneLost
<1>. QED  BY <1>4, <1>5, <1>6, <1>7, ZenonT(60)

\* The cancellation of a recording joins the list, answered or not.
LEMMA CancelRecordingWaits ==
    ASSUME Waits, NEW q \in CancelIds, NEW c \in Clients, NEW k \in Tokens,
           CancelRecording(q, c, k)
    PROVE  WaitsNext
<1>. DEFINE sent == Recorder \in connected'
            n == Pending("cancelRecording", q, NoReservation, NoTuner, k, c, sent)
<1>1. /\ q \in (RecordIds \cup CancelIds) \ asked /\ asked' = asked \cup {q}
      /\ sweep' = sweep /\ pending' = Append(pending, n)
      /\ sent => verdicts' = verdicts
      /\ ~sent => Decide(q, "refused")
    BY ZenonT(60) DEF CancelRecording, Ask
<1>2. sent \in BOOLEAN
    BY SMTT(60)
<1>. HIDE DEF sent
<1>3. /\ Waiting(pending, verdicts, asked', sweep')
      /\ verdicts[q] = <<>> /\ q \notin Open(pending)
    BY <1>1, AskWaiting, ZenonT(60) DEF Waits
<1>4. ~HasGrant(verdicts[q])
    BY <1>3, SMTT(60) DEF HasGrant
<1>5. /\ n \in PendingRequests /\ n.id = q /\ n.type = "cancelRecording" /\ ~n.marked
      /\ n.sent = sent /\ n.token = k
    BY <1>2, ZenonT(60) DEF Pending, PendingRequests
<1>. HIDE DEF n
<1>6. /\ Waiting(pending, verdicts', asked', sweep')
      /\ ~HasGrant(verdicts'[q])
      /\ sent => verdicts'[q] = <<>>
    <2>1. CASE sent
        BY <1>1, <1>3, <1>4, <2>1, ZenonT(60)
    <2>2. CASE ~sent
        <3>1. Appends(verdicts', verdicts, q, "refused")
            BY <1>1, <2>2, DecideAppends, ZenonT(60) DEF Waits, Waiting
        <3>. QED  BY <1>1, <1>3, <1>4, <2>2, <3>1, DecideWaiting, SMTT(60)
    <2>. QED  BY <2>1, <2>2, ZenonT(60)
<1>7. EntryOK(n) /\ Undecided(n, verdicts')
    BY <1>5, <1>6, ZenonT(60) DEF EntryOK, Undecided
<1>8. /\ Waiting(Append(pending, n), verdicts', asked', sweep')
      /\ Open(Append(pending, n)) = Open(pending) \cup {q}
    BY <1>1, <1>3, <1>5, <1>6, <1>7, AppendWaiting, SMTT(60)
<1>. QED  BY <1>1, <1>8, ZenonT(60) DEF WaitsNext, NoneLost

\* The cancellation that waits was not told that it succeeded.
LEMMA WaitingCancel ==
    ASSUME Waits, NEW i \in DOMAIN pending, pending[i].type = "cancelRecording"
    PROVE  /\ pending[i].id \in CancelIds /\ pending[i].id \in asked
           /\ pending[i].id \notin RecordIds
           /\ pending[i].sent => verdicts[pending[i].id] = <<>>
           /\ ~HasGrant(verdicts[pending[i].id])
<1>1. EntryOK(pending[i]) /\ Undecided(pending[i], verdicts) /\ pending[i].id \in asked
    BY ZenonT(60) DEF Waits, Waiting
<1>. QED  BY <1>1, IdsAssumption, ZenonT(60) DEF EntryOK, Undecided

\* A request is taken off the list and answered.
LEMMA AnsweredWaits ==
    ASSUME Waits, Idle, NEW i \in DOMAIN pending, pending' = removePendingRequest(i),
           NEW verdict \in {"granted", "refused"}, Decide(pending[i].id, verdict),
           pending[i].sent \/ pending[i].type # "cancelRecording" \/ verdict = "refused",
           asked' = asked, sweep' = sweep
    PROVE  WaitsNext
<1>. DEFINE q == pending[i].id
<1>1. /\ ~pending[i].marked
      /\ Waiting(pending', verdicts, asked, sweep) /\ q \notin Open(pending')
      /\ Open(pending) \ {q} \subseteq Open(pending')
    BY IdleLeaves, ZenonT(60) DEF Leaves
<1>2. /\ q \in asked /\ ~HasGrant(verdicts[q])
      /\ q \in RecordIds \/ verdict = "granted" => verdicts[q] = <<>>
    BY <1>1, WaitingRecord, WaitingCancel, ZenonT(60)
<1>. HIDE DEF q
<1>3. Appends(verdicts', verdicts, q, verdict)
    <2>1. /\ verdicts \in [RecordIds \cup CancelIds -> Seq({"granted", "refused"})]
          /\ q \in RecordIds \cup CancelIds
        BY <1>2, ZenonT(60) DEF Waits, Waiting
    <2>. QED  BY <2>1, DecideAppends, ZenonT(60) DEF q
<1>4. Waiting(pending', verdicts', asked, sweep) /\ verdicts'[q] # verdicts[q]
    BY <1>1, <1>2, <1>3, DecideWaiting, SMTT(60)
<1>. QED  BY <1>1, <1>4, ZenonT(60) DEF WaitsNext, NoneLost

\* The cancellation of a recording is answered, times out or is given up.
LEMMA CancelAnswerWaits ==
    ASSUME Waits, NEW i \in DOMAIN pending,
           CancelRecordingResponse(i) \/ CancelRecordingTimeout(i)
    PROVE  WaitsNext
<1>1. /\ Idle /\ pending[i].type = "cancelRecording" /\ asked' = asked /\ sweep' = sweep
      /\ \/ pending[i].sent /\ pending' = removePendingRequest(i) /\ Decide(pending[i].id, "granted")
         \/ pending' = removePendingRequest(i) /\ verdicts' = verdicts
         \/ pending' = removePendingRequest(i) /\ Decide(pending[i].id, "refused")
         \/ pending' = Spent(i) /\ verdicts' = verdicts
    BY ZenonT(60) DEF CancelRecordingResponse, CancelRecordingTimeout
<1>2. pending[i].id \notin RecordIds
    BY <1>1, WaitingCancel, ZenonT(60)
<1>3. CASE pending[i].sent /\ pending' = removePendingRequest(i) /\ Decide(pending[i].id, "granted")
    BY <1>1, <1>3, AnsweredWaits, ZenonT(60)
<1>4. CASE pending' = removePendingRequest(i) /\ Decide(pending[i].id, "refused")
    BY <1>1, <1>4, AnsweredWaits, ZenonT(60)
<1>5. /\ Leaves(i, removePendingRequest(i), Spent(i), sweep)
    BY <1>1, IdleLeaves, ZenonT(60)
<1>6. CASE pending' = removePendingRequest(i) /\ verdicts' = verdicts
    BY <1>1, <1>2, <1>5, <1>6, ZenonT(60) DEF Leaves, WaitsNext, NoneLost
<1>7. CASE pending' = Spent(i) /\ verdicts' = verdicts
    BY <1>1, <1>5, <1>7, ZenonT(60) DEF Leaves, WaitsNext, NoneLost
<1>. QED  BY <1>1, <1>3, <1>4, <1>6, <1>7, ZenonT(60)

\* A conflict, or the wait for the Live to be cancelled, comes to its end.
LEMMA ConflictAnswerWaits ==
    ASSUME Waits, Inv, NEW i \in DOMAIN pending,
           ConflictTimeout(i) \/ CancelLiveTimeout(i) \/ CancelLiveResponse(i)
           \/ CancelPendingRecording(i)
    PROVE  WaitsNext
<1>1. Idle /\ asked' = asked /\ sweep' = sweep
    BY ZenonT(60) DEF ConflictTimeout, CancelLiveTimeout, CancelLiveResponse, CancelPendingRecording
<1>2. /\ ~pending[i].marked
      /\ Leaves(i, removePendingRequest(i), Spent(i), sweep')
      /\ Leaves(i, removePendingRequest(i), pending, sweep')
    BY <1>1, IdleLeaves, ZenonT(60)
<1>3. CASE ConflictTimeout(i)
    <2>1. /\ pending[i].type = "conflict"
          /\ SettleConflict(pending[i], removePendingRequest(i), Spent(i))
        BY <1>3, ZenonT(60) DEF ConflictTimeout
    <2>. QED  BY <1>1, <1>2, <2>1, SettleWaits, ClientsAssumption, ZenonT(60)
<1>4. CASE CancelLiveTimeout(i)
    <2>1. /\ pending[i].type = "cancelLive"
          /\ GrantPending(pending[i], removePendingRequest(i), Spent(i))
        BY <1>4, ZenonT(60) DEF CancelLiveTimeout
    <2>. QED  BY <1>1, <1>2, <2>1, GrantPendingWaits, ZenonT(60)
<1>5. CASE CancelLiveResponse(i)
    <2>1. /\ pending[i].type = "cancelLive"
          /\ GrantPending(pending[i], removePendingRequest(i), pending)
        BY <1>5, ZenonT(60) DEF CancelLiveResponse
    <2>. QED  BY <1>1, <1>2, <2>1, GrantPendingWaits, ZenonT(60)
<1>6. CASE CancelPendingRecording(i)
    <2>1. /\ pending[i].type = "conflict" /\ pending' = removePendingRequest(i)
          /\ Decide(pending[i].id, "refused")
        BY <1>6, ZenonT(60) DEF CancelPendingRecording
    <2>. QED  BY <1>1, <2>1, AnsweredWaits, ZenonT(60)
<1>. QED  BY <1>3, <1>4, <1>5, <1>6, ZenonT(60)

\* The loop of onReservationUpdated.
LEMMA UpdateWaits ==
    ASSUME Waits, Inv, Update
    PROVE  WaitsNext
<1>0. /\ pending \in Seq(PendingRequests) /\ Len(pending) \in Nat
      /\ DOMAIN pending = 1 .. Len(pending)
      /\ sweep \in 0 .. Len(pending) + 1
      /\ \A i \in DOMAIN pending : pending[i].marked => i < sweep
    BY SMTT(60) DEF Waits, Waiting
<1>1. CASE UpdateBegin
    <2>1. /\ sweep = 0 /\ sweep' = (IF pending = <<>> THEN 0 ELSE 1)
          /\ pending' = pending /\ verdicts' = verdicts /\ asked' = asked
        BY <1>1, ZenonT(60) DEF UpdateBegin, Idle, history
    <2>2. /\ sweep' \in 0 .. Len(pending) + 1
          /\ \A i \in DOMAIN pending : pending[i].marked => i < sweep'
        BY <1>0, <2>1, SMTT(60)
    <2>3. Waiting(pending, verdicts, asked, sweep')
        BY <2>2, SweepWaiting, ZenonT(60) DEF Waits
    <2>. QED  BY <2>1, <2>3, ZenonT(60) DEF WaitsNext, NoneLost
<1>2. CASE UpdateStep
    <2>1. sweep \in DOMAIN pending /\ sweep' = sweep + 1 /\ asked' = asked
        BY <1>2, ZenonT(60) DEF UpdateStep
    <2>2. ~pending[sweep].marked
        BY <1>0, <2>1, SMTT(60)
    <2>3. /\ sweep' \in 0 .. Len(pending) + 1
          /\ \A i \in DOMAIN pending : pending[i].marked => i < sweep'
        BY <1>0, <2>1, SMTT(60)
    <2>4. Waiting(pending, verdicts, asked, sweep')
        BY <2>3, SweepWaiting, ZenonT(60) DEF Waits
    <2>5. CASE ~(pending[sweep].type = "conflict" /\ ConflictGone(pending[sweep]))
        <3>1. pending' = pending /\ verdicts' = verdicts
            BY <1>2, <2>5, ZenonT(60) DEF UpdateStep
        <3>. QED  BY <2>1, <2>4, <3>1, ZenonT(60) DEF WaitsNext, NoneLost
    <2>6. CASE pending[sweep].type = "conflict" /\ ConflictGone(pending[sweep])
        <3>. DEFINE m == [pending EXCEPT ![sweep].marked = TRUE]
        <3>1. SettleConflict(pending[sweep], m, pending)
            BY <1>2, <2>6, ZenonT(60) DEF UpdateStep
        <3>2. /\ Waiting(m, verdicts, asked, sweep')
              /\ Open(pending) \ {pending[sweep].id} \subseteq Open(m)
              /\ pending[sweep].id \notin Open(m)
            BY <2>1, <2>6, MarkWaiting, ZenonT(60) DEF Waits
        <3>. HIDE DEF m
        <3>3. Leaves(sweep, m, pending, sweep')
            BY <2>4, <3>2, ZenonT(60) DEF Leaves
        <3>. QED  BY <2>1, <2>2, <2>6, <3>1, <3>3, SettleWaits, ClientsAssumption, ZenonT(60)
    <2>. QED  BY <2>5, <2>6, ZenonT(60)
<1>3. CASE UpdateRemove
    <2>1. PICK i \in DOMAIN pending : pending[i].marked /\ pending' = removePendingRequest(i)
        BY <1>3, ZenonT(60) DEF UpdateRemove
    <2>2. /\ sweep > Len(pending) /\ sweep' = sweep - 1
          /\ verdicts' = verdicts /\ asked' = asked
        BY <1>3, ZenonT(60) DEF UpdateRemove, history
    <2>3. sweep = Len(pending) + 1 /\ sweep' = Len(pending)
        BY <1>0, <2>2, SMTT(60)
    <2>4. Waiting(pending', verdicts, asked, sweep') /\ Open(pending) \subseteq Open(pending')
        BY <2>1, <2>3, RemoveWaiting, RemovedIs, ZenonT(60) DEF Waits
    <2>. QED  BY <2>2, <2>4, ZenonT(60) DEF WaitsNext, NoneLost
<1>4. CASE UpdateEnd
    <2>1. /\ \A i \in DOMAIN pending : ~pending[i].marked
          /\ sweep' = 0 /\ pending' = pending /\ verdicts' = verdicts /\ asked' = asked
        BY <1>4, ZenonT(60) DEF UpdateEnd, history
    <2>2. Waiting(pending, verdicts, asked, sweep')
        BY <1>0, <2>1, SweepWaiting, SMTT(60) DEF Waits
    <2>. QED  BY <2>1, <2>2, ZenonT(60) DEF WaitsNext, NoneLost
<1>. QED  BY <1>1, <1>2, <1>3, <1>4, ZenonT(60) DEF Update

\* No other handler touches the list or the answers.
LEMMA OthersWait ==
    ASSUME Waits, UNCHANGED <<pending, sweep, asked, verdicts>>
    PROVE  WaitsNext
    BY ZenonT(60) DEF Waits, WaitsNext, NoneLost

-----------------------------------------------------------------------------
(* Every handler is a step of the Manager.                                 *)

\* The variables of the server that are not part of the list.
ServerOK ==
    /\ now <= MaxTime
    /\ localTuner \in Tuners
    /\ updates \in 0 .. MaxUpdates
    /\ connected \subseteq Clients

\* No handler but reserveLive puts a Live on a tuner, and what takes one off
\* a tuner leaves a signal in the queue.
NoNewLive ==
    \A t \in Tuners, k \in Tokens :
        reservations[t][k] = NoReservation /\ reservations'[t][k] # NoReservation
        => reservations'[t][k].activity = "Record"

LivesKept ==
    \A t \in Tuners, k \in Tokens :
        reservations[t][k] # NoReservation /\ reservations[t][k].activity = "Live"
        => reservations'[t][k] # NoReservation

\* What TokenKeepsOwner and RenewalLossHasARival say of one step.
KeepsOwner ==
    \A k \in Tokens, t, u \in Tuners :
        reservations[t][k] # NoReservation /\ reservations'[u][k] # NoReservation
        => /\ reservations'[u][k].device = reservations[t][k].device
           /\ reservations'[u][k].activity = reservations[t][k].activity

RenewalKept ==
    \A t \in Tuners : \A k \in OfActivity(reservations, t, "Record") :
        timers[k] # NoTimers /\ timers'[k] = NoTimers /\ updates' = 0
        => RenewalRival(t, k)

TimersKept == \A k \in Tokens : timers[k] # NoTimers => timers'[k] # NoTimers

\* The host's claim stays, or goes to a tuner that runs no Live.
ClaimKept ==
    localTuner' = localTuner \/ getState(reservations[localTuner']) \in {"Free", "Record"}

Quiet ==
    /\ [Next]_managerVars
    /\ KeepsOwner
    /\ NoNewLive
    /\ LivesKept \/ updates' # 0
    /\ ClaimKept
    /\ RenewalKept

\* A token that keeps its timers is not lost, nor is one lost with a signal.
LEMMA TimersStay ==
    ASSUME TimersKept \/ updates' # 0
    PROVE  RenewalKept
<1>1. \A t \in Tuners : OfActivity(reservations, t, "Record") \subseteq Tokens
    BY ZenonT(60) DEF OfActivity, getReservationTokens
<1>. QED  BY <1>1, ZenonT(60) DEF TimersKept, RenewalKept

\* What stays on its tuner as it is keeps its owner.
LEMMA StayersKeepOwner ==
    ASSUME Inv, \A k \in Tokens, t \in Tuners :
              reservations'[t][k] \in {reservations[t][k], NoReservation}
    PROVE  KeepsOwner
<1>1. \A k \in Tokens, t, u \in Tuners :
         reservations[t][k] # NoReservation /\ reservations[u][k] # NoReservation => t = u
    BY ZenonT(60) DEF Inv, TokenOnOneTuner
<1>. QED  BY <1>1, SMTT(60) DEF KeepsOwner

LEMMA Emitted ==
    ASSUME NEW n \in Nat, updates \in 0 .. MaxUpdates, Emit(n)
    PROVE  updates' \in 0 .. MaxUpdates /\ (n > 0 => updates' # 0)
<1>. DEFINE S == {updates + n, MaxUpdates}
<1>1. MaxUpdates \in Nat /\ MaxUpdates > 0 /\ updates \in Nat
    BY MaxUpdatesAssumption, SMTT(60)
<1>2. S \subseteq Nat /\ S # {}
    BY <1>1, SMTT(60)
<1>3. Min(S) \in S /\ \A x \in S : Min(S) <= x
    BY <1>2, MinInSet, ZenonT(60)
<1>4. updates' = Min(S)
    BY ZenonT(60) DEF Emit
<1>5. updates' \in {updates + n, MaxUpdates} /\ updates' <= MaxUpdates
    BY <1>3, <1>4, ZenonT(60)
<1>. HIDE DEF S
<1>. QED  BY <1>1, <1>5, SMTT(60)

LEMMA TokensCounted ==
    ASSUME NEW S, S \subseteq Tokens
    PROVE  Cardinality(S) \in Nat /\ (S # {} => Cardinality(S) > 0)
<1>1. IsFiniteSet(S)
    BY TokensFinite, FS_Subset, ZenonT(60)
<1>2. Cardinality(S) \in Nat /\ (Cardinality(S) = 0 <=> S = {})
    BY <1>1, FS_CardinalityType, FS_EmptySet, ZenonT(60)
<1>. QED  BY <1>2, SMTT(60)

\* A grant under a token that no tuner holds.
LEMMA GrantNewAdds ==
    ASSUME Inv, NEW k \in Tokens, NEW t \in Tuners, NEW c \in Clients,
           NEW r \in Requests, GrantNew(k, r, t, c)
    PROVE  /\ Next /\ now' = now
           /\ \A j \in Tokens \ {k}, u \in Tuners : reservations'[u][j] = reservations[u][j]
           /\ \A u \in Tuners : reservations[u][k] = NoReservation
           /\ \A u \in Tuners \ {t} : reservations'[u][k] = NoReservation
           /\ reservations'[t][k] \in {r, NoReservation}
           /\ KeepsOwner /\ TimersKept
<1>1. Next
    BY ZenonT(60) DEF Next, Grant
<1>2. Consistent(reservations, timers, attrs)
    BY InvIsConsistent, ZenonT(60)
<1>3. \A u \in Tuners : reservations[u][k] = NoReservation
    BY ZenonT(60) DEF GrantNew, isHeld, parents
<1>4. addReservation(reservations, timers, attrs, k, r, t, c)
    BY ZenonT(60) DEF GrantNew
<1>5. /\ \A j \in Tokens \ {k}, u \in Tuners : reservations'[u][j] = reservations[u][j]
      /\ \A u \in Tuners : reservations'[u][k] \in {r, NoReservation}
      /\ \A j \in Tokens \ {k} : timers'[j] = timers[j]
    BY <1>2, <1>3, <1>4, AddConsistent, RequestsAreIdle, SMTT(60)
<1>6. /\ now' = now
      /\ reservations' = [reservations EXCEPT ![t] = Inserted(reservations[t], k, r)]
    BY <1>4, ZenonT(60) DEF addReservation
<1>7. \A u \in Tuners \ {t} : reservations'[u][k] = NoReservation
    BY <1>2, <1>3, <1>6, ZenonT(60) DEF Consistent
<1>8. KeepsOwner
    <2>1. \A j \in Tokens, t1, u \in Tuners :
             reservations[t1][j] # NoReservation /\ reservations[u][j] # NoReservation => t1 = u
        BY <1>2, ZenonT(60) DEF Consistent
    <2>. QED  BY <1>3, <1>5, <2>1, SMTT(60) DEF KeepsOwner
<1>9. TimersKept
    <2>1. timers[k] = NoTimers
        BY <1>2, <1>3, ZenonT(60) DEF Consistent, isHeld, parents
    <2>. QED  BY <1>5, <2>1, ZenonT(60) DEF TimersKept
<1>. QED  BY <1>1, <1>3, <1>5, <1>6, <1>7, <1>8, <1>9, ZenonT(60)

\* A grant that keeps the token moves it to the tuner, or loses it there.
LEMMA GrantAgainMoves ==
    ASSUME Inv, NEW k \in Tokens, NEW t \in Tuners, NEW c \in Clients,
           NEW r \in Requests, GrantAgain(k, r, t, c)
    PROVE  /\ Next /\ now' = now
           /\ \A j \in Tokens \ {k}, u \in Tuners : reservations'[u][j] = reservations[u][j]
           /\ \A u \in Tuners \ {t} : reservations'[u][k] = NoReservation
           /\ reservations'[t][k] \in {r, NoReservation}
           /\ reservations'[t][k] = NoReservation => Clashes(reservations'[t], r)
           /\ \A j \in Tokens \ {k} : timers'[j] = timers[j]
           /\ timers'[k] = NoTimers =>
                 addReservationThrows(Without(reservations, {k})[t], k, r)
<1>. DEFINE W == Without(reservations, {k})
            E == Erased(timers, {k}, NoTimers)
            B == Erased(attrs, {k}, NoClient)
<1>1. Next
    BY ZenonT(60) DEF Next, Grant
<1>2. Consistent(reservations, timers, attrs)
    BY InvIsConsistent, ZenonT(60)
<1>3. /\ \A j \in Tokens \ {k}, u \in Tuners : reservations'[u][j] = reservations[u][j]
      /\ \A u \in Tuners : reservations'[u][k] \in {r, NoReservation}
      /\ \A j \in Tokens \ {k} : timers'[j] = timers[j]
      /\ timers'[k] = NoTimers =>
            addReservationThrows(Without(reservations, {k})[t], k, r)
    BY GrantAgainInv, ZenonT(60)
<1>4. /\ W \in [Tuners -> ReservationMap]
      /\ \A u \in Tuners : W[u][k] = NoReservation
    BY <1>2, WithoutMap, SMTT(60)
<1>5. addReservation(W, E, B, k, r, t, c)
    BY ZenonT(60) DEF GrantAgain
<1>. HIDE DEF W, E, B
<1>6. now' = now /\ reservations' = [W EXCEPT ![t] = Inserted(W[t], k, r)]
    BY <1>5, ZenonT(60) DEF addReservation
<1>7. \A u \in Tuners \ {t} : reservations'[u][k] = NoReservation
    BY <1>4, <1>6, ZenonT(60)
<1>8. reservations'[t] = Inserted(W[t], k, r)
    BY <1>4, <1>6, ZenonT(60)
<1>9. ASSUME reservations'[t][k] = NoReservation
      PROVE  Clashes(reservations'[t], r)
    <2>1. r # NoReservation /\ W[t] \in ReservationMap /\ r \in Reservation
        BY <1>4, RequestsAreIdle, NoReservationAssumption, ZenonT(60)
    <2>2. Clashes(W[t], r)
        BY <1>8, <1>9, <2>1, InsertedMap, SMTT(60)
    <2>3. reservations'[t] = W[t]
        BY <1>8, <2>2, ZenonT(60) DEF Inserted
    <2>. QED  BY <2>2, <2>3, ZenonT(60)
<1>. QED  BY <1>1, <1>3, <1>6, <1>7, <1>9, ZenonT(60)

\* A recording that is granted disturbs no Live.
LEMMA GrantRecordQuiet ==
    ASSUME Inv, NEW k \in Tokens, NEW t \in Tuners, NEW c \in Clients,
           NEW r \in Recordings, GrantNew(k, r, t, c), ClaimKept
    PROVE  Quiet /\ now' = now
<1>1. r \in Requests /\ r.activity = "Record"
    BY RecordingsAreRequests, SMTT(60) DEF Recordings, NewReservation
<1>2. /\ Next /\ now' = now
      /\ \A j \in Tokens \ {k}, u \in Tuners : reservations'[u][j] = reservations[u][j]
      /\ \A u \in Tuners : reservations[u][k] = NoReservation
      /\ \A u \in Tuners \ {t} : reservations'[u][k] = NoReservation
      /\ reservations'[t][k] \in {r, NoReservation}
      /\ KeepsOwner /\ TimersKept
    BY <1>1, GrantNewAdds, ZenonT(60)
<1>3. NoNewLive
    BY <1>1, <1>2, SMTT(60) DEF NoNewLive
<1>4. LivesKept
    BY <1>2, ZenonT(60) DEF LivesKept
<1>5. RenewalKept
    BY <1>2, TimersStay, ZenonT(60)
<1>. QED  BY <1>2, <1>3, <1>4, <1>5, ZenonT(60) DEF Quiet

LEMMA StutterQuiet ==
    ASSUME Inv, reservations' = reservations, timers' = timers, ClaimKept, [Next]_managerVars
    PROVE  Quiet
<1>1. KeepsOwner
    BY StayersKeepOwner, ZenonT(60)
<1>2. RenewalKept
    BY TimersStay, ZenonT(60) DEF TimersKept
<1>. QED  BY <1>1, <1>2, ZenonT(60) DEF Quiet, NoNewLive, LivesKept

\* The fresh tokens are tokens.
LEMMA FreshAreTokens == FreshTokens \subseteq Tokens
    BY ZenonT(60) DEF FreshTokens

\* A recording is granted, refused or made to wait.
LEMMA ReserveRecordQuiet ==
    ASSUME Inv, ServerOK, NEW q \in RecordIds, NEW d \in Devices, NEW l \in Locators,
           NEW w \in Programmes, ReserveRecord(q, d, l, w)
    PROVE  Quiet /\ ServerOK'
<1>. DEFINE r == NewReservation(d, l, w[1], w[2], "Record")
            t == RecordTuner(reservations, l, w[1], now)
<1>1. connected' = connected \cup {Recorder} /\ updates' = updates
    BY ZenonT(60) DEF ReserveRecord
<1>2. r \in Recordings
    BY ProgrammesAssumption, RecordingsHave, ZenonT(60)
<1>3. t \in Tuners \cup {NoTuner}
    BY TunerOfRecord, ZenonT(60)
<1>4. \/ UNCHANGED <<managerVars, localTuner>>
      \/ /\ t # NoTuner
         /\ localTuner' = LocalAfterRecord(reservations, localTuner, t)
         /\ \E k \in FreshTokens : GrantNew(k, r, t, Recorder)
    BY ZenonT(60) DEF ReserveRecord
<1>. HIDE DEF r, t
<1>5. CASE UNCHANGED <<managerVars, localTuner>>
    <2>1. Quiet
        BY <1>5, StutterQuiet, ZenonT(60) DEF managerVars, ClaimKept
    <2>. QED  BY <1>1, <1>5, <2>1, ClientsAssumption, ZenonT(60) DEF ServerOK, managerVars
<1>6. CASE /\ t # NoTuner
           /\ localTuner' = LocalAfterRecord(reservations, localTuner, t)
           /\ \E k \in FreshTokens : GrantNew(k, r, t, Recorder)
    <2>1. localTuner' \in Tuners /\ ClaimKept
        BY <1>6, LocalTunerOfRecord, ZenonT(60) DEF ServerOK, ClaimKept
    <2>2. Quiet /\ now' = now
        BY <1>2, <1>3, <1>6, <2>1, GrantRecordQuiet, FreshAreTokens, ClientsAssumption, ZenonT(60)
    <2>. QED  BY <1>1, <2>1, <2>2, ClientsAssumption, ZenonT(60) DEF ServerOK
<1>. QED  BY <1>4, <1>5, <1>6, ZenonT(60)

\* When a recording cannot be put back on its tuner, there is a reason there.
LEMMA ThrowsForARival ==
    ASSUME Inv, NEW k \in Tokens, NEW u \in Tuners, NEW r \in Requests, r.activity = "Record",
           r.serviceLocator = reservations[u][k].serviceLocator,
           addReservationThrows(Without(reservations, {k})[u], k, r)
    PROVE  RenewalRival(u, k)
<1>. DEFINE W == Without(reservations, {k})[u]
            running == ActiveTokens(reservations[u]) \ {k}
<1>1. /\ W \in ReservationMap
      /\ \A j \in Tokens : W[j] = IF j \in {k} THEN NoReservation ELSE reservations[u][j]
    BY InvIsConsistent, WithoutMap, SMTT(60)
<1>2. addReservationThrows(W, k, r)
    BY ZenonT(60)
<1>. HIDE DEF W
<1>3. ActiveTokens(W) = running
    BY <1>1, SMTT(60) DEF ActiveTokens, getReservationTokens
<1>4. CASE Clashes(W, r)
    <2>1. running # {}
        <3>1. getState(W) # "Free"
            BY <1>4, ZenonT(60) DEF Clashes
        <3>2. ActiveTokens(W) # {}
            BY <3>1, ZenonT(60) DEF getState
        <3>. QED  BY <1>3, <3>2, ZenonT(60)
    <2>2. PICK j \in getReservationTokens(W) :
             W[j].activity = "Record" /\ W[j].serviceLocator # r.serviceLocator
        BY <1>4, ZenonT(60) DEF Clashes
    <2>3. j \in Tokens /\ W[j] # NoReservation
        BY <2>2, ZenonT(60) DEF getReservationTokens
    <2>4. j # k /\ W[j] = reservations[u][j]
        BY <1>1, <2>3, ZenonT(60)
    <2>5. /\ j \in OfActivity(reservations, u, "Record") \ {k}
          /\ reservations[u][j].serviceLocator # reservations[u][k].serviceLocator
        BY <2>2, <2>3, <2>4, ZenonT(60) DEF OfActivity, getReservationTokens
    <2>. QED  BY <2>1, <2>5, ZenonT(60) DEF RenewalRival
<1>5. CASE ~Clashes(W, r)
    <2>. DEFINE I == [W EXCEPT ![k] = r]
    <2>1. Cardinality(ActiveTokens(I)) > 2
        BY <1>2, <1>5, ZenonT(60) DEF addReservationThrows, Overfull, Inserted
    <2>2. r.state = "IDLE" /\ \A j \in Tokens : I[j] = IF j = k THEN r ELSE W[j]
        BY <1>1, RequestsAreIdle, SMTT(60) DEF ReservationMap
    <2>3. W[k] = NoReservation
        BY <1>1, ZenonT(60)
    <2>. HIDE DEF I
    <2>4. ActiveTokens(I) = ActiveTokens(W)
        BY <2>2, <2>3, SMTT(60) DEF ActiveTokens, getReservationTokens
    <2>. QED  BY <1>3, <2>1, <2>4, ZenonT(60) DEF RenewalRival
<1>. QED  BY <1>4, <1>5, ZenonT(60)

\* A recording is renewed on the tuner it is on.
LEMMA RenewRecordQuiet ==
    ASSUME Inv, ServerOK, NEW k \in Tokens, NEW d \in Devices, NEW l \in Locators,
           NEW w \in Programmes, RenewRecord(k, d, l, w)
    PROVE  Quiet /\ ServerOK'
<1>. DEFINE t == getParent(reservations, k)
            r == NewReservation(d, l, w[1], w[2], "Record")
<1>1. /\ RecordsOf(d, l) # {} /\ FirstInTuners(reservations, RecordsOf(d, l)) = k
      /\ GrantAgain(k, r, t, Recorder)
      /\ connected' = connected \cup {Recorder} /\ UNCHANGED <<localTuner, updates>>
    BY ZenonT(60) DEF RenewRecord
<1>2. \A j \in RecordsOf(d, l) :
         /\ j \in Tokens
         /\ \E u \in Tuners : /\ reservations[u][j] # NoReservation
                              /\ reservations[u][j].activity = "Record"
                              /\ reservations[u][j].device = d
                              /\ reservations[u][j].serviceLocator = l
    BY ZenonT(60) DEF RecordsOf, OfActivity, getReservationTokens
<1>3. k \in RecordsOf(d, l)
    <2>1. RecordsOf(d, l) \subseteq Tokens /\ \A j \in RecordsOf(d, l) : isHeld(reservations, j)
        BY <1>2, ZenonT(60) DEF isHeld, parents
    <2>. QED  BY <1>1, <2>1, FirstInTunersIn, ZenonT(60)
<1>4. PICK u \in Tuners : /\ reservations[u][k] # NoReservation
                          /\ reservations[u][k].activity = "Record"
                          /\ reservations[u][k].device = d
                          /\ reservations[u][k].serviceLocator = l
    BY <1>2, <1>3, ZenonT(60)
<1>5. /\ reservations \in [Tuners -> ReservationMap]
      /\ \A v \in Tuners : reservations[v][k] # NoReservation => v = u
      /\ t = u
    <2>1. \A v \in Tuners : reservations[v][k] # NoReservation => v = u
        BY <1>4, ZenonT(60) DEF Inv, TokenOnOneTuner
    <2>2. isHeld(reservations, k)
        BY <1>4, ZenonT(60) DEF isHeld, parents
    <2>3. t = u
        BY <2>1, <2>2, ParentHolds, ZenonT(60)
    <2>. QED  BY <2>1, <2>3, ZenonT(60) DEF Inv, TypeOK
<1>. HIDE DEF t
<1>6. r \in Requests /\ r.activity = "Record" /\ r.device = d /\ r.serviceLocator = l
    <2>1. r.activity = "Record" /\ r.device = d /\ r.serviceLocator = l
        BY ZenonT(60) DEF NewReservation
    <2>2. r \in Recordings
        BY ProgrammesAssumption, RecordingsHave, ZenonT(60)
    <2>. QED  BY <2>1, <2>2, RecordingsAreRequests, ZenonT(60)
<1>. HIDE DEF r
<1>7. /\ Next /\ now' = now
      /\ \A j \in Tokens \ {k}, v \in Tuners : reservations'[v][j] = reservations[v][j]
      /\ \A v \in Tuners \ {u} : reservations'[v][k] = NoReservation
      /\ reservations'[u][k] \in {r, NoReservation}
      /\ \A j \in Tokens \ {k} : timers'[j] = timers[j]
      /\ timers'[k] = NoTimers => addReservationThrows(Without(reservations, {k})[u], k, r)
    BY <1>1, <1>5, <1>6, GrantAgainMoves, ClientsAssumption, ZenonT(60)
<1>8. NoNewLive
    BY <1>6, <1>7, ZenonT(60) DEF NoNewLive
<1>9. LivesKept
    BY <1>4, <1>5, <1>7, ZenonT(60) DEF LivesKept
<1>10. KeepsOwner
    <2>1. \A j \in Tokens, t1, v \in Tuners :
             reservations[t1][j] # NoReservation /\ reservations[v][j] # NoReservation => t1 = v
        BY ZenonT(60) DEF Inv, TokenOnOneTuner
    <2>2. \A v \in Tuners : reservations'[v][k] # NoReservation =>
             reservations'[v][k].device = d /\ reservations'[v][k].activity = "Record"
        BY <1>6, <1>7, ZenonT(60)
    <2>3. \A v \in Tuners : reservations[v][k] # NoReservation =>
             reservations[v][k].device = d /\ reservations[v][k].activity = "Record"
        BY <1>4, <1>5, ZenonT(60)
    <2>. QED  BY <1>7, <2>1, <2>2, <2>3, SMTT(60) DEF KeepsOwner
<1>11. RenewalKept
    <2>. SUFFICES ASSUME NEW v \in Tuners, NEW j \in OfActivity(reservations, v, "Record"),
                         timers[j] # NoTimers, timers'[j] = NoTimers
                  PROVE  RenewalRival(v, j)
        BY ZenonT(60) DEF RenewalKept
    <2>1. j \in Tokens /\ reservations[v][j] # NoReservation
        BY ZenonT(60) DEF OfActivity, getReservationTokens
    <2>2. j = k /\ v = u
        BY <1>5, <1>7, <2>1, ZenonT(60)
    <2>3. addReservationThrows(Without(reservations, {k})[u], k, r)
        BY <1>7, <2>2, ZenonT(60)
    <2>4. RenewalRival(u, k)
        BY <1>4, <1>6, <2>3, ThrowsForARival, ZenonT(60)
    <2>. QED  BY <2>2, <2>4, ZenonT(60)
<1>. QED  BY <1>1, <1>7, <1>8, <1>9, <1>10, <1>11, ClientsAssumption, ZenonT(60)
          DEF Quiet, ServerOK, ClaimKept

\* What only releases reservations adds none, and changes no owner.
LEMMA ReleaseNoNew ==
    ASSUME Inv, \A k \in Tokens, t \in Tuners :
              reservations'[t][k] \in {reservations[t][k], NoReservation}
    PROVE  NoNewLive /\ KeepsOwner
    BY StayersKeepOwner, ZenonT(60) DEF NoNewLive

LEMMA ReleaseTunerQuiet ==
    ASSUME Inv, ServerOK, NEW k \in Tokens, ReleaseTunerReservation(k)
    PROVE  Quiet /\ ServerOK'
<1>1. /\ Releasable(k) /\ Release({k}) /\ Emit(1)
      /\ UNCHANGED <<localTuner, connected>>
    BY ZenonT(60) DEF ReleaseTunerReservation
<1>2. Next /\ now' = now
    BY <1>1, ZenonT(60) DEF Next, ReleaseOne, Releasable, Release
<1>3. NoNewLive /\ KeepsOwner
    BY <1>1, ReleaseInv, ReleaseNoNew, ZenonT(60)
<1>4. updates' \in 0 .. MaxUpdates /\ updates' # 0
    BY <1>1, Emitted, SMTT(60) DEF ServerOK
<1>. QED  BY <1>1, <1>2, <1>3, <1>4, TimersStay, ZenonT(60) DEF Quiet, ServerOK, ClaimKept

\* The timers of reservations.
LEMMA TimersQuiet ==
    ASSUME Inv, ServerOK, NEW k \in Tokens, StartTimer(k) \/ ExpireTimer(k)
    PROVE  Quiet /\ ServerOK'
<1>1. CASE StartTimer(k)
    <2>. DEFINE S == {j \in Retuned(StartedOn(k)) : attrs[j] \in connected}
    <2>1. Start(k) /\ Emit(1 + Cardinality(S)) /\ UNCHANGED <<localTuner, connected>>
        BY <1>1, ZenonT(60) DEF StartTimer
    <2>2. Next /\ now' = now
        BY <2>1, ZenonT(60) DEF Next, Start
    <2>3. S \subseteq Tokens
        BY ZenonT(60) DEF Retuned, TokensOf, getReservationTokens
    <2>. HIDE DEF S
    <2>4. 1 + Cardinality(S) \in Nat
        BY <2>3, TokensCounted, SMTT(60)
    <2>5. updates' \in 0 .. MaxUpdates
        BY <2>1, <2>4, Emitted, ZenonT(60) DEF ServerOK
    <2>6. \A j \in Tokens, t \in Tuners :
             reservations'[t][j] = NoReservation <=> reservations[t][j] = NoReservation
        BY <2>1, StartInv, ZenonT(60)
    <2>7. NoNewLive /\ LivesKept
        BY <2>6, ZenonT(60) DEF NoNewLive, LivesKept
    <2>8. KeepsOwner
        <3>1. \A j \in Tokens, t, u \in Tuners :
                 reservations[t][j] # NoReservation /\ reservations[u][j] # NoReservation => t = u
            BY ZenonT(60) DEF Inv, TokenOnOneTuner
        <3>2. \A j \in Tokens, t \in Tuners : reservations[t][j] # NoReservation =>
                 /\ reservations'[t][j].device = reservations[t][j].device
                 /\ reservations'[t][j].activity = reservations[t][j].activity
            BY <2>1, StartInv, ZenonT(60)
        <3>. QED  BY <2>6, <3>1, <3>2, ZenonT(60) DEF KeepsOwner
    <2>9. RenewalKept
        BY <2>1, StartInv, TimersStay, ZenonT(60) DEF TimersKept
    <2>. QED  BY <2>1, <2>2, <2>5, <2>7, <2>8, <2>9, ZenonT(60) DEF Quiet, ServerOK, ClaimKept
<1>2. CASE ExpireTimer(k)
    <2>1. Expire(k) /\ Emit(1) /\ UNCHANGED <<localTuner, connected>>
        BY <1>2, ZenonT(60) DEF ExpireTimer
    <2>2. Next /\ now' = now
        BY <2>1, ZenonT(60) DEF Next, Expire
    <2>3. NoNewLive /\ KeepsOwner
        BY <2>1, ExpireInv, ReleaseNoNew, ZenonT(60)
    <2>4. updates' \in 0 .. MaxUpdates /\ updates' # 0
        BY <2>1, Emitted, SMTT(60) DEF ServerOK
    <2>. QED  BY <2>1, <2>2, <2>3, <2>4, TimersStay, ZenonT(60) DEF Quiet, ServerOK, ClaimKept
<1>. QED  BY <1>1, <1>2, ZenonT(60)

LEMMA ClockQuiet ==
    ASSUME Inv, ServerOK, Clock
    PROVE  Quiet /\ ServerOK'
<1>1. /\ Tick /\ UNCHANGED <<localTuner, updates, connected>>
    BY ZenonT(60) DEF Clock, serverVars
<1>2. Next
    BY <1>1, ZenonT(60) DEF Next
<1>3. Quiet
    BY <1>1, <1>2, StutterQuiet, ZenonT(60) DEF Tick, ClaimKept
<1>4. now' <= MaxTime
    BY <1>1, MaxTimeAssumption, SMTT(60) DEF Tick, Inv, TypeOK
<1>. QED  BY <1>1, <1>3, <1>4, ZenonT(60) DEF ServerOK

\* A release that finds nothing to release changes no tuner and no timer.
LEMMA ReleaseNothing ==
    ASSUME Inv, NEW S, Release(S), \A k \in S : ~Releasable(k)
    PROVE  LivesKept /\ TimersKept
<1>1. Consistent(reservations, timers, attrs)
    BY InvIsConsistent, ZenonT(60)
<1>2. reservations' = Without(reservations, {k \in S : Releasable(k)})
    BY ZenonT(60) DEF Release
<1>3. \A k \in Tokens, t \in Tuners : reservations'[t][k] = reservations[t][k]
    BY <1>1, <1>2, WithoutMap, SMTT(60)
<1>4. ASSUME NEW k \in Tokens, timers[k] # NoTimers
      PROVE  timers'[k] # NoTimers
    <2>1. k \notin S
        BY <1>1, <1>4, ZenonT(60) DEF Consistent, Releasable
    <2>2. timers'[k] = timers[k]
        BY <2>1, ZenonT(60) DEF Release, Erased
    <2>. QED  BY <1>4, <2>2, ZenonT(60)
<1>. QED  BY <1>3, <1>4, ZenonT(60) DEF LivesKept, TimersKept

\* A client that leaves loses its reservations, each with a signal.
LEMMA DisconnectQuiet ==
    ASSUME Inv, ServerOK, NEW c \in Clients, Disconnect(c)
    PROVE  Quiet /\ ServerOK'
<1>. DEFINE S == tokensOfClient(c)
<1>1. /\ Release(S) /\ Emit(Cardinality(S)) /\ connected' = connected \ {c}
      /\ UNCHANGED localTuner
    BY ZenonT(60) DEF Disconnect
<1>2. S \subseteq Tokens
    BY ZenonT(60) DEF tokensOfClient
<1>3. Next /\ now' = now
    BY <1>1, ZenonT(60) DEF Next, ReleaseClient, Release
<1>. HIDE DEF S
<1>4. NoNewLive /\ KeepsOwner
    BY <1>1, <1>2, ReleaseInv, ReleaseNoNew, ZenonT(60)
<1>5. Cardinality(S) \in Nat /\ (S # {} => Cardinality(S) > 0)
    BY <1>2, TokensCounted, ZenonT(60)
<1>6. updates' \in 0 .. MaxUpdates /\ (S # {} => updates' # 0)
    BY <1>1, <1>5, Emitted, ZenonT(60) DEF ServerOK
<1>7. S = {} => LivesKept /\ TimersKept
    BY <1>1, ReleaseNothing, ZenonT(60)
<1>8. RenewalKept
    BY <1>6, <1>7, TimersStay, ZenonT(60)
<1>. QED  BY <1>1, <1>3, <1>4, <1>6, <1>7, <1>8, ZenonT(60) DEF Quiet, ServerOK, ClaimKept

\* Passing on a cancellation releases the recording, with a signal.
LEMMA CancelResponseQuiet ==
    ASSUME Inv, ServerOK, Waits, NEW i \in DOMAIN pending, CancelRecordingResponse(i)
    PROVE  Quiet /\ ServerOK'
<1>. DEFINE k == pending[i].token
<1>1. /\ pending[i].type = "cancelRecording" /\ isHeld(reservations, k)
      /\ UNCHANGED <<localTuner, connected>>
      /\ \/ Release({k}) /\ Emit(IF Releasable(k) THEN 1 ELSE 0)
         \/ UNCHANGED <<managerVars, updates>>
    BY ZenonT(60) DEF CancelRecordingResponse
<1>2. k \in Tokens
    BY <1>1, ZenonT(60) DEF Waits, Waiting, EntryOK
<1>. HIDE DEF k
<1>3. CASE UNCHANGED <<managerVars, updates>>
    BY <1>1, <1>3, StutterQuiet, ZenonT(60) DEF managerVars, ServerOK, ClaimKept
<1>4. CASE Release({k}) /\ Emit(IF Releasable(k) THEN 1 ELSE 0)
    <2>1. Next /\ now' = now
        BY <1>1, <1>2, <1>4, ZenonT(60) DEF Next, ReleaseOne, Release
    <2>2. NoNewLive /\ KeepsOwner
        BY <1>2, <1>4, ReleaseInv, ReleaseNoNew, ZenonT(60)
    <2>3. updates' \in 0 .. MaxUpdates /\ (Releasable(k) => updates' # 0)
        BY <1>4, Emitted, SMTT(60) DEF ServerOK
    <2>4. ~Releasable(k) => LivesKept /\ TimersKept
        BY <1>4, ReleaseNothing, ZenonT(60)
    <2>5. RenewalKept
        BY <2>3, <2>4, TimersStay, ZenonT(60)
    <2>. QED  BY <1>1, <2>1, <2>2, <2>3, <2>4, <2>5, ZenonT(60) DEF Quiet, ServerOK, ClaimKept
<1>. QED  BY <1>1, <1>3, <1>4, ZenonT(60)

\* The grant of what was pending asks the Manager for a recording.
LEMMA GrantPendingQuiet ==
    ASSUME Inv, ServerOK, Waits, NEW i \in DOMAIN pending, ~pending[i].marked,
           pending[i].type # "cancelRecording", NEW gone, NEW kept,
           GrantPending(pending[i], gone, kept), ClaimKept
    PROVE  Quiet /\ now' = now
<1>. DEFINE r == Adjusted(pending[i].req, pending[i].parent)
<1>1. pending[i].req \in Recordings /\ pending[i].parent \in Tuners
    BY WaitingRecord, ZenonT(60)
<1>2. r \in Recordings
    <2>1. now \in 0 .. MaxTime
        BY MaxTimeAssumption, SMTT(60) DEF Inv, TypeOK, ServerOK
    <2>. QED  BY <1>1, <2>1, AdjustedIsRequest, ZenonT(60)
<1>3. PICK k \in FreshTokens : GrantNew(k, r, pending[i].parent, Recorder)
    BY ZenonT(60) DEF GrantPending
<1>. HIDE DEF r
<1>. QED  BY <1>1, <1>2, <1>3, GrantRecordQuiet, FreshAreTokens, ClientsAssumption, ZenonT(60)

LEMMA SettleQuiet ==
    ASSUME Inv, ServerOK, Waits, NEW i \in DOMAIN pending, ~pending[i].marked,
           pending[i].type = "conflict", NEW gone, NEW kept,
           SettleConflict(pending[i], gone, kept), ClaimKept
    PROVE  Quiet /\ now' = now
<1>1. CASE GrantPending(pending[i], gone, kept)
    BY <1>1, GrantPendingQuiet, ZenonT(60)
<1>2. CASE UNCHANGED managerVars
    BY <1>2, StutterQuiet, ZenonT(60) DEF managerVars
<1>. QED  BY <1>1, <1>2, ZenonT(60) DEF SettleConflict

\* The other handlers of pending requests, and the loop.
LEMMA PendingQuiet ==
    ASSUME Inv, ServerOK, Waits, NEW i \in DOMAIN pending,
           ConflictTimeout(i) \/ CancelLiveTimeout(i) \/ CancelLiveResponse(i)
    PROVE  Quiet /\ ServerOK'
<1>1. Idle /\ UNCHANGED <<localTuner, updates, connected>> /\ ClaimKept
    BY ZenonT(60) DEF ConflictTimeout, CancelLiveTimeout, CancelLiveResponse, ClaimKept
<1>2. ~pending[i].marked
    BY <1>1, IdleLeaves, ZenonT(60)
<1>3. Quiet /\ now' = now
    <2>1. CASE ConflictTimeout(i)
        <3>1. /\ pending[i].type = "conflict"
              /\ SettleConflict(pending[i], removePendingRequest(i), Spent(i))
            BY <2>1, ZenonT(60) DEF ConflictTimeout
        <3>. QED  BY <1>1, <1>2, <3>1, SettleQuiet, ZenonT(60)
    <2>2. CASE CancelLiveTimeout(i)
        <3>1. /\ pending[i].type = "cancelLive"
              /\ GrantPending(pending[i], removePendingRequest(i), Spent(i))
            BY <2>2, ZenonT(60) DEF CancelLiveTimeout
        <3>. QED  BY <1>1, <1>2, <3>1, GrantPendingQuiet, ZenonT(60)
    <2>3. CASE CancelLiveResponse(i)
        <3>1. /\ pending[i].type = "cancelLive"
              /\ GrantPending(pending[i], removePendingRequest(i), pending)
            BY <2>3, ZenonT(60) DEF CancelLiveResponse
        <3>. QED  BY <1>1, <1>2, <3>1, GrantPendingQuiet, ZenonT(60)
    <2>. QED  BY <2>1, <2>2, <2>3, ZenonT(60)
<1>. QED  BY <1>1, <1>3, ZenonT(60) DEF ServerOK

LEMMA UpdateQuiet ==
    ASSUME Inv, ServerOK, Waits, Update
    PROVE  Quiet /\ ServerOK'
<1>1. CASE UpdateStep
    <2>1. /\ sweep \in DOMAIN pending /\ UNCHANGED <<localTuner, updates, connected>>
          /\ ClaimKept
        BY <1>1, ZenonT(60) DEF UpdateStep, ClaimKept
    <2>2. ~pending[sweep].marked
        <3>1. /\ pending \in Seq(PendingRequests) /\ sweep \in 0 .. Len(pending) + 1
              /\ pending[sweep].marked => sweep < sweep
            BY <2>1, ZenonT(60) DEF Waits, Waiting
        <3>. QED  BY <3>1, SMTT(60)
    <2>3. \/ UNCHANGED managerVars
          \/ /\ pending[sweep].type = "conflict"
             /\ SettleConflict(pending[sweep], [pending EXCEPT ![sweep].marked = TRUE], pending)
        BY <1>1, ZenonT(60) DEF UpdateStep
    <2>4. Quiet /\ now' = now
        BY <2>1, <2>2, <2>3, SettleQuiet, StutterQuiet, ZenonT(60) DEF managerVars
    <2>. QED  BY <2>1, <2>4, ZenonT(60) DEF ServerOK
<1>2. CASE UpdateBegin \/ UpdateRemove \/ UpdateEnd
    <2>1. /\ UNCHANGED <<managerVars, localTuner, connected>>
          /\ updates' = updates \/ (updates > 0 /\ updates' = updates - 1)
        BY <1>2, ZenonT(60) DEF UpdateBegin, UpdateRemove, UpdateEnd
    <2>2. updates' \in 0 .. MaxUpdates
        BY <2>1, MaxUpdatesAssumption, SMTT(60) DEF ServerOK
    <2>3. Quiet
        BY <2>1, StutterQuiet, ZenonT(60) DEF managerVars, ClaimKept
    <2>. QED  BY <2>1, <2>2, <2>3, ZenonT(60) DEF ServerOK, managerVars
<1>. QED  BY <1>1, <1>2, ZenonT(60) DEF Update

\* Handlers that touch neither tuners nor timers.
LEMMA OthersQuiet ==
    ASSUME Inv, ServerOK, UNCHANGED <<managerVars, localTuner, updates>>,
           connected' \subseteq Clients
    PROVE  Quiet /\ ServerOK'
    BY StutterQuiet, ZenonT(60) DEF managerVars, ServerOK, ClaimKept
=============================================================================
