---------------------------- MODULE ServerProofs ----------------------------
(***************************************************************************)
(* The framing and the map of Server.tla, proved for headers and payloads  *)
(* of any length, cut into chunks in any way, and for any number of        *)
(* clients, connections and frames.                                        *)
(***************************************************************************)
EXTENDS Server, TLAPS

Byte == [frame : Frames, pos : Nat]

Size(f) == HeaderLength + f.length

-----------------------------------------------------------------------------
(* Sequences of bytes.                                                     *)

LEMMA SameBytes ==
    ASSUME NEW s \in Seq(Byte), NEW t \in Seq(Byte), Len(s) = Len(t), \A p \in 1 .. Len(s) : s[p] = t[p]
    PROVE  s = t
    OBVIOUS

LEMMA AfterNothing ==
    ASSUME NEW s \in Seq(Byte)
    PROVE  <<>> \o s = s
<1>1. <<>> \o s \in Seq(Byte) /\ Len(<<>> \o s) = Len(s) /\ \A p \in 1 .. Len(s) : (<<>> \o s)[p] = s[p]
    OBVIOUS
<1>. QED  BY <1>1, SameBytes, Zenon

LEMMA Joined ==
    ASSUME NEW a \in Seq(Byte), NEW b \in Seq(Byte)
    PROVE  /\ a \o b \in Seq(Byte)
           /\ Len(a \o b) = Len(a) + Len(b) /\ Len(a \o b) >= Len(a)
           /\ \A p \in 1 .. Len(a) : (a \o b)[p] = a[p]
           /\ \A p \in 1 .. Len(b) : (a \o b)[Len(a) + p] = b[p]
    OBVIOUS

LEMMA JoinedInAnyOrder ==
    ASSUME NEW s \in Seq(Byte), NEW t \in Seq(Byte), NEW u \in Seq(Byte)
    PROVE  (s \o t) \o u = s \o (t \o u)
<1>. DEFINE st == s \o t
            tu == t \o u
            l == st \o u
            r == s \o tu
<1>1. /\ st \in Seq(Byte) /\ Len(st) = Len(s) + Len(t)
      /\ \A p \in 1 .. Len(s) : st[p] = s[p]
      /\ \A p \in 1 .. Len(t) : st[Len(s) + p] = t[p]
    BY Joined, Zenon
<1>2. /\ tu \in Seq(Byte) /\ Len(tu) = Len(t) + Len(u)
      /\ \A p \in 1 .. Len(t) : tu[p] = t[p]
      /\ \A p \in 1 .. Len(u) : tu[Len(t) + p] = u[p]
    BY Joined, Zenon
<1>. HIDE DEF st, tu
<1>3. /\ l \in Seq(Byte) /\ Len(l) = Len(st) + Len(u)
      /\ \A p \in 1 .. Len(st) : l[p] = st[p]
      /\ \A p \in 1 .. Len(u) : l[Len(st) + p] = u[p]
    BY <1>1, Joined, Zenon
<1>4. /\ r \in Seq(Byte) /\ Len(r) = Len(s) + Len(tu)
      /\ \A p \in 1 .. Len(s) : r[p] = s[p]
      /\ \A p \in 1 .. Len(tu) : r[Len(s) + p] = tu[p]
    BY <1>2, Joined, Zenon
<1>. HIDE DEF l, r
<1>5. Len(s) \in Nat /\ Len(t) \in Nat /\ Len(u) \in Nat /\ Len(l) = Len(r)
    BY <1>1, <1>2, <1>3, <1>4
<1>6. ASSUME NEW i \in 1 .. Len(l)
      PROVE  l[i] = r[i]
    <2>1. CASE i <= Len(s)
        <3>1. i \in 1 .. Len(s) /\ i \in 1 .. Len(st)
            BY <1>1, <1>5, <2>1
        <3>. QED  BY <1>1, <1>3, <1>4, <3>1, Zenon
    <2>2. CASE Len(s) < i /\ i <= Len(s) + Len(t)
        <3>. DEFINE p == i - Len(s)
        <3>1. p \in 1 .. Len(t) /\ p \in 1 .. Len(tu) /\ i = Len(s) + p /\ i \in 1 .. Len(st)
            BY <1>1, <1>2, <1>5, <2>2
        <3>. HIDE DEF p
        <3>2. l[i] = st[i] /\ st[i] = t[p] /\ r[i] = tu[p] /\ tu[p] = t[p]
            BY <1>1, <1>2, <1>3, <1>4, <3>1, Zenon
        <3>. QED  BY <3>2, Zenon
    <2>3. CASE Len(s) + Len(t) < i
        <3>. DEFINE p == i - (Len(s) + Len(t))
        <3>1. /\ p \in 1 .. Len(u) /\ Len(t) + p \in 1 .. Len(tu)
              /\ i = Len(s) + (Len(t) + p) /\ i = Len(st) + p
            BY <1>1, <1>2, <1>3, <1>5, <2>3
        <3>. HIDE DEF p
        <3>2. l[i] = u[p]
            BY <1>3, <3>1, Zenon
        <3>3. r[i] = tu[Len(t) + p]
            BY <1>4, <3>1, Zenon
        <3>. QED  BY <1>2, <3>1, <3>2, <3>3, Zenon
    <2>. QED  BY <1>5, <2>1, <2>2, <2>3
<1>7. l = r
    BY <1>3, <1>4, <1>5, <1>6, SameBytes, Zenon
<1>. QED  BY <1>7, Zenon DEF l, r, st, tu

LEMMA FrontOf ==
    ASSUME NEW a \in Seq(Byte), NEW k \in 0 .. Len(a)
    PROVE  /\ SubSeq(a, 1, k) \in Seq(Byte) /\ Len(SubSeq(a, 1, k)) = k
           /\ \A p \in 1 .. k : SubSeq(a, 1, k)[p] = a[p]
    OBVIOUS

LEMMA RestOf ==
    ASSUME NEW a \in Seq(Byte), NEW k \in 0 .. Len(a)
    PROVE  /\ SubSeq(a, k + 1, Len(a)) \in Seq(Byte) /\ Len(SubSeq(a, k + 1, Len(a))) = Len(a) - k
           /\ \A p \in 1 .. Len(a) - k : SubSeq(a, k + 1, Len(a))[p] = a[k + p]
    OBVIOUS

LEMMA Cut ==
    ASSUME NEW a \in Seq(Byte), NEW k \in 0 .. Len(a)
    PROVE  /\ SubSeq(a, 1, k) \in Seq(Byte) /\ Len(SubSeq(a, 1, k)) = k
           /\ SubSeq(a, k + 1, Len(a)) \in Seq(Byte) /\ Len(SubSeq(a, k + 1, Len(a))) = Len(a) - k
           /\ \A p \in 1 .. k : SubSeq(a, 1, k)[p] = a[p]
           /\ SubSeq(a, 1, k) \o SubSeq(a, k + 1, Len(a)) = a
<1>. DEFINE u == SubSeq(a, 1, k)
            v == SubSeq(a, k + 1, Len(a))
<1>1. u \in Seq(Byte) /\ Len(u) = k /\ \A p \in 1 .. k : u[p] = a[p]
    BY FrontOf, Zenon
<1>2. v \in Seq(Byte) /\ Len(v) = Len(a) - k /\ \A p \in 1 .. Len(a) - k : v[p] = a[k + p]
    BY RestOf, Zenon
<1>. HIDE DEF u, v
<1>3. /\ u \o v \in Seq(Byte) /\ Len(u \o v) = Len(u) + Len(v)
      /\ \A p \in 1 .. Len(u) : (u \o v)[p] = u[p]
      /\ \A p \in 1 .. Len(v) : (u \o v)[Len(u) + p] = v[p]
    BY <1>1, <1>2, Joined, Zenon
<1>4. Len(u \o v) = Len(a)
    BY <1>1, <1>2, <1>3
<1>5. ASSUME NEW p \in 1 .. Len(a)
      PROVE  (u \o v)[p] = a[p]
    <2>1. CASE p <= k
        BY <1>1, <1>3, <2>1
    <2>2. CASE p > k
        <3>. DEFINE j == p - k
        <3>1. j \in 1 .. Len(a) - k /\ j \in 1 .. Len(v) /\ k + j = p
            BY <1>2, <2>2
        <3>. HIDE DEF j
        <3>2. (u \o v)[p] = v[j]
            BY <1>1, <1>3, <3>1, Zenon
        <3>3. v[j] = a[p]
            BY <1>2, <3>1, Zenon
        <3>. QED  BY <3>2, <3>3, Zenon
    <2>3. p <= k \/ p > k
        OBVIOUS
    <2>. QED  BY <2>1, <2>2, <2>3, Zenon
<1>6. u \o v = a
    BY <1>3, <1>4, <1>5, SameBytes, Zenon
<1>. QED  BY <1>1, <1>2, <1>6, Zenon DEF u, v

-----------------------------------------------------------------------------
(* A stream of bytes that holds the frames of s after the first d.         *)

\* start[i] is where frame i ends and frame i + 1 starts.
LaidOutAt(s, d, r, start) ==
    /\ start[d] = 0
    /\ start[Len(s)] = Len(r)
    /\ \A i \in d + 1 .. Len(s) :
        /\ start[i] = start[i - 1] + Size(s[i])
        /\ \A p \in 1 .. Size(s[i]) : r[start[i - 1] + p] = [frame |-> s[i], pos |-> p]
    /\ \A i, j \in d .. Len(s) : i <= j => start[i] <= start[j]

LaidOut(s, d, r) == \E start \in [d .. Len(s) -> Nat] : LaidOutAt(s, d, r, start)

LEMMA SizeIsNat ==
    ASSUME NEW f \in Frames
    PROVE  f.length \in Nat /\ Size(f) \in Nat /\ Size(f) >= HeaderLength /\ Size(f) > 0 /\ f.client \in Clients
<1>1. f.length \in Payloads /\ f.client \in Clients
    BY Zenon DEF Frames
<1>2. f.length \in Nat /\ HeaderLength \in Nat /\ HeaderLength # 0
    BY <1>1, LengthAssumption, Zenon
<1>. QED  BY <1>1, <1>2 DEF Size

LEMMA BytesOfFrame ==
    ASSUME NEW f \in Frames
    PROVE  /\ Bytes(f) \in Seq(Byte)
           /\ Len(Bytes(f)) = Size(f)
           /\ \A p \in 1 .. Size(f) : Bytes(f)[p] = [frame |-> f, pos |-> p]
<1>1. Size(f) \in Nat
    BY SizeIsNat, Zenon
<1>2. Bytes(f) \in [1 .. Size(f) -> Byte]
    BY DEF Bytes, Size, Byte
<1>3. \A p \in 1 .. Size(f) : Bytes(f)[p] = [frame |-> f, pos |-> p]
    BY Zenon DEF Bytes, Size
<1>. HIDE DEF Bytes
<1>. QED  BY <1>1, <1>2, <1>3

LEMMA NothingLaidOut == LaidOut(<<>>, 0, <<>>)
<1>. DEFINE start == [i \in 0 .. 0 |-> 0]
<1>1. start \in [0 .. Len(<<>>) -> Nat] /\ LaidOutAt(<<>>, 0, <<>>, start)
    BY DEF LaidOutAt
<1>. QED  BY <1>1, Zenon DEF LaidOut

\* Another frame is written.
LEMMA FrameWritten ==
    ASSUME NEW s \in Seq(Frames), NEW d \in 0 .. Len(s), NEW r \in Seq(Byte), LaidOut(s, d, r),
           NEW f \in Frames
    PROVE  LaidOut(Append(s, f), d, r \o Bytes(f))
<1>1. PICK start \in [d .. Len(s) -> Nat] : LaidOutAt(s, d, r, start)
    BY Zenon DEF LaidOut
<1>. DEFINE m == Len(s)
            t == Append(s, f)
            q == r \o Bytes(f)
            end == start[m] + Size(f)
            next == [i \in d .. m + 1 |-> IF i = m + 1 THEN end ELSE start[i]]
<1>2. m \in Nat /\ d \in Nat /\ d <= m /\ Size(f) \in Nat
    BY SizeIsNat
<1>3. /\ Len(t) = m + 1 /\ t[m + 1] = f
      /\ \A i \in 1 .. m : t[i] = s[i]
    OBVIOUS
<1>4. /\ Len(q) = Len(r) + Size(f)
      /\ \A p \in 1 .. Len(r) : q[p] = r[p]
      /\ \A p \in 1 .. Size(f) : q[Len(r) + p] = [frame |-> f, pos |-> p]
    <2>. DEFINE b == Bytes(f)
    <2>1. b \in Seq(Byte) /\ Len(b) = Size(f) /\ \A p \in 1 .. Size(f) : b[p] = [frame |-> f, pos |-> p]
        BY BytesOfFrame, Zenon
    <2>. HIDE DEF b
    <2>2. /\ Len(r \o b) = Len(r) + Len(b)
          /\ \A p \in 1 .. Len(r) : (r \o b)[p] = r[p]
          /\ \A p \in 1 .. Len(b) : (r \o b)[Len(r) + p] = b[p]
        BY <2>1
    <2>. QED  BY <2>1, <2>2, Zenon DEF b
<1>5. start[m] \in Nat /\ start[m] = Len(r)
    BY <1>1, <1>2 DEF LaidOutAt
<1>6. /\ next \in [d .. Len(t) -> Nat]
      /\ next[m + 1] = end
      /\ \A i \in d .. m : next[i] = start[i]
    BY <1>2, <1>3, <1>5
<1>. HIDE DEF next, t, q
<1>7. next[d] = 0 /\ next[Len(t)] = Len(q)
    BY <1>1, <1>2, <1>3, <1>4, <1>5, <1>6 DEF LaidOutAt
<1>8. ASSUME NEW i \in d + 1 .. Len(t)
      PROVE  /\ next[i] = next[i - 1] + Size(t[i])
             /\ \A p \in 1 .. Size(t[i]) : q[next[i - 1] + p] = [frame |-> t[i], pos |-> p]
    <2>1. CASE i = m + 1
        <3>1. i - 1 = m /\ m \in d .. m
            BY <1>2, <2>1
        <3>2. next[i - 1] = Len(r) /\ next[i] = Len(r) + Size(f) /\ t[i] = f
            BY <1>3, <1>5, <1>6, <2>1, <3>1, Zenon
        <3>. QED  BY <1>4, <3>2, Zenon
    <2>2. CASE i # m + 1
        <3>1. i \in d + 1 .. m /\ i \in d .. m /\ i - 1 \in d .. m /\ i \in 1 .. m
            BY <1>2, <1>3, <2>2
        <3>2. t[i] = s[i] /\ next[i] = start[i] /\ next[i - 1] = start[i - 1] /\ s[i] \in Frames
            BY <1>3, <1>6, <3>1, SMTT(60)
        <3>3. /\ start[i] = start[i - 1] + Size(s[i])
              /\ \A p \in 1 .. Size(s[i]) : r[start[i - 1] + p] = [frame |-> s[i], pos |-> p]
            BY <1>1, <3>1, Zenon DEF LaidOutAt
        <3>4. start[i] <= Len(r)
            <4>1. m \in d .. m /\ i <= m
                BY <1>2, <3>1
            <4>. QED  BY <1>1, <1>5, <3>1, <4>1 DEF LaidOutAt
        <3>5. ASSUME NEW p \in 1 .. Size(s[i])
              PROVE  start[i - 1] + p \in 1 .. Len(r)
            <4>1. start[i - 1] \in Nat /\ Size(s[i]) \in Nat
                BY <3>1, <3>2, SizeIsNat, Zenon
            <4>. QED  BY <3>3, <3>4, <4>1, SMTT(60)
        <3>. QED  BY <1>4, <3>2, <3>3, <3>5, ZenonT(120)
    <2>. QED  BY <2>1, <2>2, Zenon
<1>9. ASSUME NEW i \in d .. Len(t), NEW j \in d .. Len(t), i <= j
      PROVE  next[i] <= next[j]
    <2>1. CASE j = m + 1 /\ i = m + 1
        BY <1>2, <1>5, <1>6, <2>1
    <2>2. CASE j = m + 1 /\ i # m + 1
        <3>1. i \in d .. m /\ m \in d .. m /\ i <= m
            BY <1>2, <1>3, <2>2
        <3>2. start[i] <= start[m] /\ start[i] \in Nat
            BY <1>1, <3>1, Zenon DEF LaidOutAt
        <3>. QED  BY <1>2, <1>5, <1>6, <2>2, <3>1, <3>2
    <2>3. CASE j # m + 1
        <3>1. i \in d .. m /\ j \in d .. m
            BY <1>2, <1>3, <1>9, <2>3
        <3>. QED  BY <1>1, <1>6, <1>9, <3>1, Zenon DEF LaidOutAt
    <2>. QED  BY <2>1, <2>2, <2>3, Zenon
<1>10. LaidOutAt(t, d, q, next)
    BY <1>7, <1>8, <1>9, Zenon DEF LaidOutAt
<1>. QED  BY <1>6, <1>10, Zenon DEF LaidOut, t, q

\* What is at the front of a stream that is not empty.
LEMMA FrontOfStream ==
    ASSUME NEW s \in Seq(Frames), NEW d \in 0 .. Len(s), NEW r \in Seq(Byte), LaidOut(s, d, r), Len(r) > 0
    PROVE  /\ d + 1 \in 1 .. Len(s)
           /\ Len(r) >= Size(s[d + 1])
           /\ \A p \in 1 .. Size(s[d + 1]) : r[p] = [frame |-> s[d + 1], pos |-> p]
<1>1. PICK start \in [d .. Len(s) -> Nat] : LaidOutAt(s, d, r, start)
    BY Zenon DEF LaidOut
<1>2. d # Len(s)
    BY <1>1 DEF LaidOutAt
<1>3. d + 1 \in 1 .. Len(s) /\ d + 1 \in d + 1 .. Len(s) /\ d + 1 \in d .. Len(s) /\ Len(s) \in d .. Len(s)
    BY <1>2
<1>4. (d + 1) - 1 = d /\ start[d] = 0
    BY <1>1 DEF LaidOutAt
<1>5. s[d + 1] \in Frames /\ Size(s[d + 1]) \in Nat
    BY <1>3, SizeIsNat
<1>6. /\ start[d + 1] = Size(s[d + 1])
      /\ \A p \in 1 .. Size(s[d + 1]) : r[p] = [frame |-> s[d + 1], pos |-> p]
    BY <1>1, <1>3, <1>4, <1>5, SMTT(60) DEF LaidOutAt
<1>7. start[d + 1] <= start[Len(s)] /\ start[Len(s)] = Len(r)
    BY <1>1, <1>3 DEF LaidOutAt
<1>. QED  BY <1>3, <1>5, <1>6, <1>7, Zenon

\* The first frame is taken from the stream.
LEMMA FrameTaken ==
    ASSUME NEW s \in Seq(Frames), NEW d \in 0 .. Len(s), d # Len(s),
           NEW q \in Seq(Byte), LaidOut(s, d, Bytes(s[d + 1]) \o q)
    PROVE  LaidOut(s, d + 1, q)
<1>. DEFINE m == Len(s)
            f == s[d + 1]
            n == Size(f)
            r == Bytes(f) \o q
<1>1. m \in Nat /\ d \in Nat /\ d + 1 \in 1 .. m /\ f \in Frames /\ n \in Nat
    <2>1. d + 1 \in 1 .. m
        OBVIOUS
    <2>. QED  BY <2>1, SizeIsNat
<1>2. /\ Len(r) = n + Len(q)
      /\ \A p \in 1 .. Len(q) : r[n + p] = q[p]
    <2>. DEFINE b == Bytes(f)
    <2>1. b \in Seq(Byte) /\ Len(b) = n
        BY <1>1, BytesOfFrame, Zenon
    <2>. HIDE DEF b, n, f
    <2>2. /\ Len(b \o q) = Len(b) + Len(q)
          /\ \A p \in 1 .. Len(q) : (b \o q)[Len(b) + p] = q[p]
        BY <2>1, Joined, Zenon
    <2>. QED  BY <2>1, <2>2, SMTT(60) DEF b
<1>3. PICK start \in [d .. m -> Nat] : LaidOutAt(s, d, r, start)
    BY Zenon DEF LaidOut
<1>. DEFINE next == [i \in d + 1 .. m |-> start[i] - n]
<1>. HIDE DEF r, n
<1>4. start[d + 1] = n
    <2>1. d + 1 \in d + 1 .. m /\ (d + 1) - 1 = d /\ start[d] = 0
        BY <1>1, <1>3 DEF LaidOutAt
    <2>2. start[d + 1] = start[d] + n
        BY <1>3, <2>1, Zenon DEF LaidOutAt, n
    <2>. QED  BY <1>1, <2>1, <2>2
<1>5. ASSUME NEW i \in d + 1 .. m
      PROVE  start[i] \in Nat /\ start[i] >= n /\ next[i] = start[i] - n /\ next[i] \in Nat
    <2>1. d + 1 \in d .. m /\ i \in d .. m /\ d + 1 <= i
        BY <1>1
    <2>2. start[d + 1] <= start[i] /\ start[i] \in Nat
        BY <1>3, <2>1, SMTT(60) DEF LaidOutAt
    <2>. QED  BY <1>1, <1>4, <2>2
<1>6. next \in [d + 1 .. m -> Nat]
    BY <1>5, Zenon
<1>. HIDE DEF next
<1>7. next[d + 1] = 0 /\ next[m] = Len(q)
    <2>1. d + 1 \in d + 1 .. m /\ m \in d + 1 .. m
        BY <1>1
    <2>2. start[m] = Len(r)
        BY <1>3, Zenon DEF LaidOutAt
    <2>3. next[d + 1] = start[d + 1] - n /\ next[m] = start[m] - n
        BY <1>5, <2>1, Zenon
    <2>4. Len(q) \in Nat
        OBVIOUS
    <2>. QED  BY <1>1, <1>2, <1>4, <2>2, <2>3, <2>4
<1>8. ASSUME NEW i \in (d + 1) + 1 .. m
      PROVE  /\ next[i] = next[i - 1] + Size(s[i])
             /\ \A p \in 1 .. Size(s[i]) : q[next[i - 1] + p] = [frame |-> s[i], pos |-> p]
    <2>1. i \in d + 1 .. m /\ i - 1 \in d + 1 .. m /\ i \in 1 .. m
        BY <1>1
    <2>2. s[i] \in Frames /\ Size(s[i]) \in Nat
        BY <2>1, SizeIsNat, SMTT(60)
    <2>3. /\ start[i] = start[i - 1] + Size(s[i])
          /\ \A p \in 1 .. Size(s[i]) : r[start[i - 1] + p] = [frame |-> s[i], pos |-> p]
        BY <1>3, <2>1, Zenon DEF LaidOutAt
    <2>4. /\ next[i] = start[i] - n /\ next[i - 1] = start[i - 1] - n
          /\ start[i] \in Nat /\ start[i - 1] \in Nat /\ next[i] \in Nat /\ next[i - 1] \in Nat
        BY <1>5, <2>1, Zenon
    <2>5. start[i] <= Len(r)
        <3>1. i \in d .. m /\ m \in d .. m /\ i <= m
            BY <1>1, <2>1
        <3>. QED  BY <1>3, <3>1 DEF LaidOutAt
    <2>6. ASSUME NEW p \in 1 .. Size(s[i])
          PROVE  q[next[i - 1] + p] = r[start[i - 1] + p]
        <3>1. next[i - 1] + p \in 1 .. Len(q) /\ n + (next[i - 1] + p) = start[i - 1] + p
            <4>1. Len(q) \in Nat
                OBVIOUS
            <4>2. start[i - 1] + Size(s[i]) <= n + Len(q)
                BY <1>2, <2>3, <2>5, Zenon
            <4>. DEFINE old == start[i - 1]
                        new == next[i - 1]
                        size == Size(s[i])
                        len == Len(q)
            <4>3. /\ n \in Nat /\ old \in Nat /\ new \in Nat /\ size \in Nat /\ len \in Nat
                  /\ p \in 1 .. size /\ new = old - n /\ old + size <= n + len
                BY <1>1, <2>2, <2>4, <4>1, <4>2, Zenon
            <4>. HIDE DEF old, new, size, len
            <4>4. new + p \in 1 .. len /\ n + (new + p) = old + p
                BY <4>3
            <4>. QED  BY <4>4, Zenon DEF old, new, len
        <3>. QED  BY <1>2, <3>1, Zenon
    <2>7. next[i] = next[i - 1] + Size(s[i])
        BY <1>1, <2>2, <2>3, <2>4, SMTT(60)
    <2>. QED  BY <2>3, <2>6, <2>7, Zenon
<1>9. ASSUME NEW i \in d + 1 .. m, NEW j \in d + 1 .. m, i <= j
      PROVE  next[i] <= next[j]
    <2>1. i \in d .. m /\ j \in d .. m
        BY <1>1
    <2>2. start[i] <= start[j]
        BY <1>3, <1>9, <2>1, Zenon DEF LaidOutAt
    <2>. QED  BY <1>1, <1>5, <2>2
<1>10. LaidOutAt(s, d + 1, q, next)
    BY <1>7, <1>8, <1>9, Zenon DEF LaidOutAt
<1>. QED  BY <1>6, <1>10, Zenon DEF LaidOut


-----------------------------------------------------------------------------
(* The inductive invariant.                                                *)

Types ==
    /\ ServerTypeOK
    /\ wire \in [Conns -> Seq(Byte)]
    /\ available \in [Conns -> Seq(Byte)]
    /\ buffer \in [Conns -> Seq(Byte)]
    /\ sent \in [Conns -> Seq(Frames)]
    /\ delivered \in [Conns -> Seq(Seq(Byte))]
    /\ disconnects \in Seq(Conns)

Waiting(n) == state[n] \in {"waitHeader", "waitPayload"}

\* A connection that reads or may read is one of the Server's; nothing has
\* happened on one that was not made, and the queue names closed ones.
Lives ==
    /\ reading # NoConn => Waiting(reading)
    /\ \A n \in Conns : Waiting(n) => n \in connections
    /\ \A n \in Conns : peer[n] = "none" =>
        wire[n] = <<>> /\ available[n] = <<>> /\ sent[n] = <<>> /\ delivered[n] = <<>> /\ state[n] = "none"
    /\ \A n \in Conns : state[n] \in {"none", "waitHeader"} => expected[n] = HeaderLength
    /\ \A i \in 1 .. Len(disconnects) : peer[disconnects[i]] = "closed"

\* The header that waits for its payload.
Held(n) == IF state[n] = "waitPayload" THEN buffer[n] ELSE <<>>

\* What was sent and not delivered, wherever it is.
Stream(n) == (Held(n) \o available[n]) \o wire[n]

Framed(n) ==
    Waiting(n) =>
        /\ LaidOut(sent[n], Len(delivered[n]), Stream(n))
        /\ state[n] = "waitPayload" =>
            /\ Len(buffer[n]) = HeaderLength
            /\ expected[n] = sent[n][Len(delivered[n]) + 1].length

\* A connection that is not being read has too little to be read.
Unread == \A n \in Conns : Waiting(n) /\ reading # n => Len(available[n]) < expected[n]

Inv ==
    /\ Types
    /\ Lives
    /\ \A n \in Conns : Framed(n)
    /\ DeliveredAsSent
    /\ Unread
    /\ NoDanglingConnection
    /\ OwnersAreKnown

-----------------------------------------------------------------------------
(* What the steps do.                                                      *)

LEMMA ConnsAreNot0 == NoConn \notin Conns
    BY DEF NoConn, Conns

LEMMA TypesOf ==
    ASSUME Inv, NEW n \in Conns
    PROVE  /\ wire[n] \in Seq(Byte) /\ available[n] \in Seq(Byte) /\ buffer[n] \in Seq(Byte)
           /\ Held(n) \in Seq(Byte) /\ Held(n) \o available[n] \in Seq(Byte) /\ Stream(n) \in Seq(Byte)
           /\ sent[n] \in Seq(Frames) /\ delivered[n] \in Seq(Seq(Byte))
           /\ expected[n] \in Nat
           /\ Len(delivered[n]) \in 0 .. Len(sent[n])
<1>1. wire[n] \in Seq(Byte) /\ available[n] \in Seq(Byte) /\ buffer[n] \in Seq(Byte)
    BY Zenon DEF Inv, Types
<1>2. Held(n) \in Seq(Byte)
    BY <1>1 DEF Held
<1>3. Held(n) \o available[n] \in Seq(Byte)
    BY <1>1, <1>2
<1>4. Stream(n) \in Seq(Byte)
    BY <1>1, <1>3 DEF Stream
<1>5. sent[n] \in Seq(Frames) /\ delivered[n] \in Seq(Seq(Byte))
    BY Zenon DEF Inv, Types
<1>6. expected[n] \in Nat
    <2>1. expected[n] \in Payloads \cup {HeaderLength}
        BY Zenon DEF Inv, Types, ServerTypeOK
    <2>. QED  BY <2>1, LengthAssumption, Zenon
<1>7. Len(delivered[n]) \in 0 .. Len(sent[n])
    BY <1>5 DEF Inv, DeliveredAsSent
<1>. QED  BY <1>1, <1>2, <1>3, <1>4, <1>5, <1>6, <1>7, Zenon

\* A header that is complete is that of the next frame.
LEMMA HeaderRead ==
    ASSUME Inv, NEW n \in Conns, ReadHeader(n)
    PROVE  /\ Len(delivered[n]) + 1 \in 1 .. Len(sent[n])
           /\ state' = [state EXCEPT ![n] = "waitPayload"]
           /\ expected' = [expected EXCEPT ![n] = sent[n][Len(delivered[n]) + 1].length]
           /\ reading' = Again(n, Left(n), sent[n][Len(delivered[n]) + 1].length)
           /\ Taken(n) \in Seq(Byte) /\ Len(Taken(n)) = HeaderLength
           /\ Left(n) \in Seq(Byte) /\ Taken(n) \o Left(n) = available[n]
<1>. DEFINE d == Len(delivered[n])
            f == sent[n][d + 1]
<1>1. Waiting(n) /\ state[n] = "waitHeader" /\ Held(n) = <<>> /\ expected[n] = HeaderLength
    BY Zenon DEF ReadHeader, Waiting, Held, Inv, Lives
<1>2. HeaderLength \in 0 .. Len(available[n]) /\ HeaderLength > 0 /\ HeaderLength \in Nat
    BY <1>1, TypesOf, LengthAssumption DEF ReadHeader, Ready
<1>3. /\ Taken(n) \in Seq(Byte) /\ Len(Taken(n)) = HeaderLength
      /\ Left(n) \in Seq(Byte) /\ Taken(n) \o Left(n) = available[n]
      /\ \A p \in 1 .. HeaderLength : Taken(n)[p] = available[n][p]
    BY <1>1, <1>2, TypesOf, Cut, Zenon DEF Taken, Left
<1>4. /\ Len(Stream(n)) >= Len(available[n])
      /\ \A p \in 1 .. Len(available[n]) : Stream(n)[p] = available[n][p]
    <2>1. <<>> \o available[n] = available[n]
        BY TypesOf, AfterNothing, Zenon
    <2>2. Stream(n) = available[n] \o wire[n]
        BY <1>1, <2>1, Zenon DEF Stream
    <2>3. available[n] \in Seq(Byte) /\ wire[n] \in Seq(Byte)
        BY TypesOf, Zenon
    <2>. DEFINE a == available[n]
                w == wire[n]
    <2>4. a \in Seq(Byte) /\ w \in Seq(Byte) /\ Stream(n) = a \o w
        BY <2>2, <2>3, Zenon
    <2>. HIDE DEF a, w
    <2>5. Len(a \o w) >= Len(a) /\ \A p \in 1 .. Len(a) : (a \o w)[p] = a[p]
        BY <2>4, Joined, Zenon
    <2>. QED  BY <2>4, <2>5, Zenon DEF a
<1>5. /\ d + 1 \in 1 .. Len(sent[n])
      /\ \A p \in 1 .. Size(f) : Stream(n)[p] = [frame |-> f, pos |-> p]
    <2>1. LaidOut(sent[n], d, Stream(n))
        BY <1>1, Zenon DEF Inv, Framed
    <2>2. Len(Stream(n)) > 0
        BY <1>2, <1>4, TypesOf
    <2>. QED  BY <2>1, <2>2, TypesOf, FrontOfStream, ZenonT(60)
<1>6. f \in Frames
    BY <1>5, TypesOf
<1>7. \A p \in 1 .. HeaderLength : Taken(n)[p] = [frame |-> f, pos |-> p]
    <2>1. HeaderLength <= Size(f) /\ Size(f) \in Nat
        BY <1>6, SizeIsNat, Zenon
    <2>. SUFFICES ASSUME NEW p \in 1 .. HeaderLength
                  PROVE  Taken(n)[p] = [frame |-> f, pos |-> p]
        BY Zenon
    <2>2. p \in 1 .. Size(f) /\ p \in 1 .. Len(available[n])
        BY <1>2, <2>1, TypesOf
    <2>. QED  BY <1>3, <1>4, <1>5, <2>2, Zenon
<1>. HIDE DEF f, d
<1>8. Taken(n)[1].frame = f
    <2>1. 1 \in 1 .. HeaderLength
        BY <1>2
    <2>2. Taken(n)[1] = [frame |-> f, pos |-> 1]
        BY <1>7, <2>1, Zenon
    <2>. QED  BY <2>2
<1>9. deserializes(Taken(n))
    <2>. DEFINE b == Bytes(f)
                h == SubSeq(b, 1, HeaderLength)
    <2>1. /\ b \in Seq(Byte) /\ Len(b) = Size(f)
          /\ \A p \in 1 .. Size(f) : b[p] = [frame |-> f, pos |-> p]
        BY <1>6, BytesOfFrame, Zenon
    <2>2. HeaderLength \in 0 .. Len(b) /\ HeaderLength <= Size(f) /\ Size(f) \in Nat
        BY <1>2, <1>6, <2>1, SizeIsNat
    <2>. HIDE DEF b
    <2>3. h \in Seq(Byte) /\ Len(h) = HeaderLength /\ \A p \in 1 .. HeaderLength : h[p] = b[p]
        BY <2>1, <2>2, Cut, Zenon
    <2>. HIDE DEF h
    <2>4. \A p \in 1 .. HeaderLength : Taken(n)[p] = h[p]
        BY <1>2, <1>7, <2>1, <2>2, <2>3, SMTT(60)
    <2>5. Taken(n) = h
        BY <1>3, <2>3, <2>4, SameBytes, Zenon
    <2>. QED  BY <1>3, <1>8, <2>5, Zenon DEF deserializes, h, b
<1>10. /\ state' = [state EXCEPT ![n] = "waitPayload"]
       /\ expected' = [expected EXCEPT ![n] = f.length]
       /\ reading' = Again(n, Left(n), f.length)
    BY <1>8, <1>9, Zenon DEF ReadHeader
<1>. QED  BY <1>3, <1>5, <1>10, Zenon DEF f, d

\* A message that is complete is the next frame, and is taken off the stream.
LEMMA PayloadRead ==
    ASSUME Inv, NEW n \in Conns, ReadPayload(n)
    PROVE  /\ Len(delivered[n]) + 1 \in 1 .. Len(sent[n])
           /\ buffer[n] \o Taken(n) = Bytes(sent[n][Len(delivered[n]) + 1])
           /\ Left(n) \in Seq(Byte)
           /\ Stream(n) = Bytes(sent[n][Len(delivered[n]) + 1]) \o (Left(n) \o wire[n])
<1>. DEFINE d == Len(delivered[n])
            f == sent[n][d + 1]
            message == buffer[n] \o Taken(n)
<1>1. /\ Waiting(n) /\ Held(n) = buffer[n] /\ Len(buffer[n]) = HeaderLength
      /\ LaidOut(sent[n], d, Stream(n)) /\ expected[n] = f.length
    BY Zenon DEF ReadPayload, Waiting, Held, Inv, Framed
<1>2. expected[n] \in 0 .. Len(available[n])
    BY TypesOf DEF ReadPayload, Ready
<1>3. /\ Taken(n) \in Seq(Byte) /\ Len(Taken(n)) = expected[n]
      /\ Left(n) \in Seq(Byte) /\ Taken(n) \o Left(n) = available[n]
    BY <1>2, TypesOf, Cut, Zenon DEF Taken, Left
<1>4. message \in Seq(Byte) /\ Len(message) = HeaderLength + expected[n]
    <2>1. buffer[n] \in Seq(Byte)
        BY TypesOf, Zenon
    <2>. DEFINE b == buffer[n]
                t == Taken(n)
    <2>2. b \in Seq(Byte) /\ t \in Seq(Byte) /\ Len(b) = HeaderLength /\ Len(t) = expected[n]
        BY <1>1, <1>3, <2>1, Zenon
    <2>. HIDE DEF b, t
    <2>3. b \o t \in Seq(Byte) /\ Len(b \o t) = Len(b) + Len(t)
        BY <2>2, Joined, Zenon
    <2>. QED  BY <2>2, <2>3, Zenon DEF b, t
<1>5. Stream(n) = message \o (Left(n) \o wire[n])
    <2>1. buffer[n] \in Seq(Byte) /\ wire[n] \in Seq(Byte)
        BY TypesOf, Zenon
    <2>2. (buffer[n] \o (Taken(n) \o Left(n))) \o wire[n] = message \o (Left(n) \o wire[n])
        <3>. DEFINE b == buffer[n]
                    t == Taken(n)
                    l == Left(n)
                    w == wire[n]
        <3>1. b \in Seq(Byte) /\ t \in Seq(Byte) /\ l \in Seq(Byte) /\ w \in Seq(Byte)
            BY <1>3, <2>1, Zenon
        <3>. HIDE DEF b, t, l, w
        <3>2. (b \o (t \o l)) \o w = (b \o t) \o (l \o w)
            <4>1. b \o (t \o l) = (b \o t) \o l
                BY <3>1, JoinedInAnyOrder, ZenonT(120)
            <4>2. b \o t \in Seq(Byte)
                BY <3>1
            <4>3. ((b \o t) \o l) \o w = (b \o t) \o (l \o w)
                BY <3>1, <4>2, JoinedInAnyOrder, ZenonT(60)
            <4>. QED  BY <4>1, <4>3, Zenon
        <3>. QED  BY <3>2, Zenon DEF b, t, l, w
    <2>. QED  BY <1>1, <1>3, <2>2, Zenon DEF Stream
<1>. HIDE DEF message
<1>6. /\ Len(Stream(n)) >= Len(message)
      /\ \A p \in 1 .. Len(message) : Stream(n)[p] = message[p]
    <2>. DEFINE q == Left(n) \o wire[n]
    <2>1. q \in Seq(Byte)
        BY <1>3, TypesOf
    <2>. HIDE DEF q
    <2>2. Stream(n) = message \o q
        BY <1>5, Zenon DEF q
    <2>. QED  BY <1>4, <2>1, <2>2
<1>7. HeaderLength \in Nat /\ HeaderLength > 0 /\ expected[n] \in Nat
    BY TypesOf, LengthAssumption
<1>8. /\ d + 1 \in 1 .. Len(sent[n])
      /\ \A p \in 1 .. Size(f) : Stream(n)[p] = [frame |-> f, pos |-> p]
    <2>1. Len(Stream(n)) > 0
        BY <1>4, <1>6, <1>7, TypesOf
    <2>. QED  BY <1>1, <2>1, TypesOf, FrontOfStream, ZenonT(60)
<1>9. f \in Frames
    BY <1>8, TypesOf
<1>10. Len(message) = Size(f)
    BY <1>1, <1>4, Zenon DEF Size
<1>11. message = Bytes(f)
    <2>. DEFINE b == Bytes(f)
    <2>1. /\ b \in Seq(Byte) /\ Len(b) = Size(f)
          /\ \A p \in 1 .. Size(f) : b[p] = [frame |-> f, pos |-> p]
        BY <1>9, BytesOfFrame, Zenon
    <2>. HIDE DEF b, f
    <2>2. \A p \in 1 .. Len(message) : message[p] = b[p]
        BY <1>6, <1>8, <1>10, <2>1, Zenon
    <2>3. message = b
        BY <1>4, <1>10, <2>1, <2>2, SameBytes, Zenon
    <2>. QED  BY <2>3, Zenon DEF b
<1>. QED  BY <1>3, <1>5, <1>8, <1>11, Zenon DEF message

\* What the Server does with a message.
Entered(n, f) ==
    /\ connectionClientMap' =
           [connectionClientMap EXCEPT ![f.client] = IF @ = NoConn THEN n ELSE @]
    /\ holds' \in {holds \cup {f.client}, holds \ {f.client}}

LEMMA MessageHandled ==
    ASSUME Inv, NEW n \in Conns, ReadPayload(n)
    PROVE  \E f \in Frames :
               /\ f = sent[n][Len(delivered[n]) + 1]
               /\ delivered' = [delivered EXCEPT ![n] = Append(@, Bytes(f))]
               /\ UNCHANGED <<connections, disconnects, network>>
               /\ \/ Entered(n, f)
                  \/ f.length = 0 /\ Forget({f.client}) /\ connectionClientMap[f.client] \in {NoConn, n}
                  \/ UNCHANGED <<connectionClientMap, holds>>
<1>. DEFINE f == sent[n][Len(delivered[n]) + 1]
            b == Bytes(f)
            c == f.client
<1>1. f \in Frames /\ buffer[n] \o Taken(n) = b
    <2>1. Len(delivered[n]) + 1 \in 1 .. Len(sent[n]) /\ buffer[n] \o Taken(n) = b
        BY PayloadRead, Zenon
    <2>2. sent[n] \in Seq(Frames)
        BY TypesOf, Zenon
    <2>3. f \in Frames
        BY <2>1, <2>2
    <2>. QED  BY <2>1, <2>3, Zenon
<1>2. b[1].frame = f /\ Len(b) = HeaderLength + f.length /\ f.length \in Nat /\ HeaderLength \in Nat /\ c \in Clients
    <2>1. 1 \in 1 .. Size(f) /\ f.length \in Nat /\ c \in Clients
        BY <1>1, SizeIsNat
    <2>2. Len(b) = Size(f) /\ b[1] = [frame |-> f, pos |-> 1]
        BY <1>1, <2>1, BytesOfFrame, Zenon
    <2>3. b[1].frame = f
        BY <2>2
    <2>. QED  BY <2>1, <2>2, <2>3, LengthAssumption, Zenon DEF Size
<1>3. onMessageReceived(n, b) /\ delivered' = [delivered EXCEPT ![n] = Append(@, b)] /\ UNCHANGED network
    BY <1>1, Zenon DEF ReadPayload
<1>. HIDE DEF b, f
<1>4. UNCHANGED <<connections, disconnects>>
    BY <1>3, Zenon DEF onMessageReceived
<1>5. CASE f.length > 0
    <2>1. Len(b) > HeaderLength
        BY <1>2, <1>5
    <2>2. Entered(n, f)
        BY <1>2, <1>3, <2>1, Zenon DEF onMessageReceived, Entered
    <2>. QED  BY <1>1, <1>3, <1>4, <2>2, Zenon DEF f, b
<1>6. CASE f.length = 0
    <2>1. ~(Len(b) > HeaderLength)
        BY <1>2, <1>6
    <2>2. Forget(IF (IF connectionClientMap[c] = NoConn THEN n ELSE connectionClientMap[c]) = n THEN {c} ELSE {})
        BY <1>2, <1>3, <2>1, Zenon DEF onMessageReceived
    <2>3. CASE connectionClientMap[c] \in {NoConn, n}
        <3>1. Forget({c})
            BY <2>2, <2>3, Zenon
        <3>. QED  BY <1>1, <1>3, <1>4, <1>6, <2>3, <3>1, Zenon DEF f, b
    <2>4. CASE connectionClientMap[c] \notin {NoConn, n}
        <3>1. Forget({})
            BY <2>2, <2>4, Zenon
        <3>2. UNCHANGED <<connectionClientMap, holds>>
            BY <3>1, Zenon DEF Forget, Inv, Types, ServerTypeOK
        <3>. QED  BY <1>1, <1>3, <1>4, <3>2, Zenon DEF f, b
    <2>. QED  BY <2>3, <2>4, Zenon
<1>7. f.length > 0 \/ f.length = 0
    BY <1>2
<1>. QED  BY <1>5, <1>6, <1>7, Zenon

\* What is forgotten with a connection.
LEMMA Forgotten ==
    ASSUME Inv, NEW S \in SUBSET Clients, Forget(S)
    PROVE  /\ holds' = holds \ S
           /\ connectionClientMap' \in [Clients -> Conns \cup {NoConn}]
           /\ \A c \in Clients : connectionClientMap'[c] = IF c \in S THEN NoConn ELSE connectionClientMap[c]
    BY Zenon DEF Forget, Inv, Types, ServerTypeOK

LEMMA FirstDisconnect ==
    ASSUME Inv, disconnects # <<>>
    PROVE  Head(disconnects) \in Conns /\ peer[Head(disconnects)] = "closed"
<1>1. Head(disconnects) = disconnects[1] /\ 1 \in 1 .. Len(disconnects) /\ Head(disconnects) \in Conns
    BY SMTT(60) DEF Inv, Types
<1>. QED  BY <1>1 DEF Inv, Lives

-----------------------------------------------------------------------------
(* The steps keep the invariant.                                           *)

LEMMA NextTypes ==
    ASSUME Inv, [ServerNext]_vars
    PROVE  Types'
<1>. USE DEF Types, ServerTypeOK
<1>0. Types
    BY Zenon DEF Inv
<1>1. ASSUME NEW n \in Conns, onNewConnection(n)
      PROVE  Types'
    BY <1>0, <1>1, Zenon DEF onNewConnection
<1>2. ASSUME NEW c \in Clients, NEW n \in Conns, NEW length \in Payloads, Send(c, n, length)
      PROVE  Types'
    <2>. DEFINE f == [client |-> c, length |-> length, id |-> written + 1]
    <2>1. written + 1 \in 1 .. MaxFrames
        BY <1>0, <1>2, MaxFramesAssumption DEF Send
    <2>2. f \in Frames
        BY <2>1, SMTT(60) DEF Frames
    <2>3. wire' = [wire EXCEPT ![n] = @ \o Bytes(f)] /\ sent' = [sent EXCEPT ![n] = Append(@, f)]
        BY <1>2, Zenon DEF Send
    <2>. HIDE DEF f
    <2>. DEFINE b == Bytes(f)
    <2>4. b \in Seq(Byte)
        BY <2>2, BytesOfFrame, Zenon
    <2>5. wire' = [wire EXCEPT ![n] = @ \o b]
        BY <2>3, Zenon
    <2>. HIDE DEF b
    <2>6. wire' \in [Conns -> Seq(Byte)]
        BY <1>0, <2>4, <2>5
    <2>7. sent' \in [Conns -> Seq(Frames)]
        BY <1>0, <2>2, <2>3
    <2>8. home' \in [Clients -> Conns \cup {NoConn}]
        BY <1>0, <1>2, Zenon DEF Send
    <2>9. written' \in 0 .. MaxFrames
        BY <1>0, <1>2, MaxFramesAssumption DEF Send
    <2>. QED  BY <1>0, <1>2, <2>6, <2>7, <2>8, <2>9, Zenon DEF Send, framing, server
<1>3. ASSUME NEW n \in Conns, PeerClose(n)
      PROVE  Types'
    BY <1>0, <1>3, Zenon DEF PeerClose, framing, server
<1>4. ASSUME NEW n \in Conns, NEW k \in 1 .. Len(wire[n]), Arrive(n, k)
      PROVE  Types'
    <2>. DEFINE w1 == SubSeq(wire[n], 1, k)
                w2 == SubSeq(wire[n], k + 1, Len(wire[n]))
    <2>1. w1 \in Seq(Byte) /\ w2 \in Seq(Byte)
        <3>1. wire[n] \in Seq(Byte)
            BY TypesOf, Zenon
        <3>2. k \in 0 .. Len(wire[n])
            BY <3>1
        <3>. QED  BY <3>1, <3>2, Cut, Zenon
    <2>2. available' = [available EXCEPT ![n] = @ \o w1] /\ wire' = [wire EXCEPT ![n] = w2]
        BY <1>4, Zenon DEF Arrive
    <2>. HIDE DEF w1, w2
    <2>3. wire' \in [Conns -> Seq(Byte)] /\ available' \in [Conns -> Seq(Byte)]
        BY <1>0, <2>1, <2>2, SMTT(60)
    <2>. QED  BY <1>0, <1>4, <2>3, SMTT(60) DEF Arrive, server
<1>5. ASSUME NEW n \in Conns, NotEnoughData(n)
      PROVE  Types'
    <2>1. buffer' \in [Conns -> Seq(Byte)]
        BY <1>0, <1>5 DEF NotEnoughData
    <2>. QED  BY <1>0, <1>5, <2>1, Zenon DEF NotEnoughData, network, server
<1>6. ASSUME NEW n \in Conns, ReadHeader(n)
      PROVE  Types'
    <2>1. /\ Taken(n) \in Seq(Byte) /\ Left(n) \in Seq(Byte)
          /\ sent[n][Len(delivered[n]) + 1] \in Frames
        <3>1. Taken(n) \in Seq(Byte) /\ Left(n) \in Seq(Byte) /\ Len(delivered[n]) + 1 \in 1 .. Len(sent[n])
            BY <1>6, HeaderRead, Zenon
        <3>2. sent[n] \in Seq(Frames)
            BY TypesOf, Zenon
        <3>. QED  BY <3>1, <3>2
    <2>2. sent[n][Len(delivered[n]) + 1].length \in Payloads
        BY <2>1, SMTT(60) DEF Frames
    <2>3. reading' \in Conns \cup {NoConn}
        BY <1>6, HeaderRead, Zenon DEF Again
    <2>4. available' \in [Conns -> Seq(Byte)] /\ buffer' \in [Conns -> Seq(Byte)]
        BY <1>0, <1>6, <2>1, Zenon DEF ReadHeader
    <2>5. /\ state' \in [Conns -> {"none", "waitHeader", "waitPayload", "idle", "deleted"}]
          /\ expected' \in [Conns -> Payloads \cup {HeaderLength}]
        <3>1. /\ state' = [state EXCEPT ![n] = "waitPayload"]
              /\ expected' = [expected EXCEPT ![n] = sent[n][Len(delivered[n]) + 1].length]
            BY <1>6, HeaderRead, Zenon
        <3>. QED  BY <1>0, <2>2, <3>1, SMTT(60)
    <2>. QED  BY <1>0, <1>6, <2>3, <2>4, <2>5, Zenon DEF ReadHeader, network, server
<1>7. ASSUME NEW n \in Conns, ReadPayload(n)
      PROVE  Types'
    <2>1. PICK f \in Frames :
               /\ delivered' = [delivered EXCEPT ![n] = Append(@, Bytes(f))]
               /\ UNCHANGED <<connections, disconnects, network>>
               /\ \/ Entered(n, f)
                  \/ Forget({f.client})
                  \/ UNCHANGED <<connectionClientMap, holds>>
        BY <1>7, MessageHandled, Zenon
    <2>2. f.client \in Clients
        BY SizeIsNat, Zenon
    <2>3. connectionClientMap' \in [Clients -> Conns \cup {NoConn}] /\ holds' \subseteq Clients
        <3>1. CASE Entered(n, f)
            BY <1>0, <2>2, <3>1, SMTT(60) DEF Entered
        <3>2. CASE Forget({f.client})
            <4>1. {f.client} \in SUBSET Clients
                BY <2>2, Zenon
            <4>2. connectionClientMap' \in [Clients -> Conns \cup {NoConn}] /\ holds' = holds \ {f.client}
                BY <3>2, <4>1, Forgotten, Zenon
            <4>. QED  BY <1>0, <4>2, Zenon
        <3>3. CASE UNCHANGED <<connectionClientMap, holds>>
            BY <1>0, <3>3, Zenon
        <3>. QED  BY <2>1, <3>1, <3>2, <3>3, Zenon
    <2>. DEFINE b == Bytes(f)
    <2>4. b \in Seq(Byte) /\ delivered' = [delivered EXCEPT ![n] = Append(@, b)]
        BY <2>1, BytesOfFrame, Zenon
    <2>. HIDE DEF b
    <2>5. delivered' \in [Conns -> Seq(Seq(Byte))]
        BY <1>0, <2>4
    <2>6. Left(n) \in Seq(Byte)
        BY <1>7, PayloadRead, Zenon
    <2>7. available' \in [Conns -> Seq(Byte)] /\ buffer' \in [Conns -> Seq(Byte)]
        BY <1>0, <1>7, <2>6, SMTT(60) DEF ReadPayload
    <2>8. /\ state' \in [Conns -> {"none", "waitHeader", "waitPayload", "idle", "deleted"}]
          /\ expected' \in [Conns -> Payloads \cup {HeaderLength}]
          /\ reading' \in Conns \cup {NoConn}
        BY <1>0, <1>7, Zenon DEF ReadPayload, Again
    <2>. QED  BY <1>0, <2>1, <2>3, <2>5, <2>7, <2>8, Zenon DEF network
<1>8. ASSUME NEW n \in Conns, onSocketDisconnected(n)
      PROVE  Types'
    BY <1>0, <1>8 DEF onSocketDisconnected
<1>9. CASE onDisconnected
    <2>. DEFINE n == Head(disconnects)
    <2>1. n \in Conns /\ ClientsOf(n) \in SUBSET Clients
        BY <1>9, FirstDisconnect, Zenon DEF onDisconnected, ClientsOf
    <2>2. Forget(ClientsOf(n))
        BY <1>9, Zenon DEF onDisconnected
    <2>3. connectionClientMap' \in [Clients -> Conns \cup {NoConn}] /\ holds' \subseteq Clients
        BY <1>0, <2>1, <2>2, Forgotten, ZenonT(60)
    <2>4. disconnects' \in Seq(Conns)
        BY <1>0, <1>9 DEF onDisconnected
    <2>5. available' \in [Conns -> Seq(Byte)] /\ buffer' \in [Conns -> Seq(Byte)]
        BY <1>0, <1>9, <2>1, SMTT(60) DEF onDisconnected
    <2>. QED  BY <1>0, <1>9, <2>3, <2>4, <2>5, Zenon DEF onDisconnected, network
<1>10. CASE Managed
    BY <1>0, <1>10, RecorderAssumption, Zenon DEF Managed, network, framing
<1>11. CASE UNCHANGED vars
    BY <1>0, <1>11, Zenon DEF vars, network, framing, server
<1>. QED  BY <1>1, <1>2, <1>3, <1>4, <1>5, <1>6, <1>7, <1>8, <1>9, <1>10, <1>11, Zenon DEF ServerNext

\* The functions a step updates, as TypeCorrect has them.
LEMMA FunctionsOf ==
    ASSUME Inv
    PROVE  /\ state \in [Conns -> {"none", "waitHeader", "waitPayload", "idle", "deleted"}]
           /\ peer \in [Conns -> {"none", "open", "closed"}]
           /\ expected \in [Conns -> Payloads \cup {HeaderLength}]
           /\ wire \in [Conns -> Seq(Byte)] /\ available \in [Conns -> Seq(Byte)]
           /\ buffer \in [Conns -> Seq(Byte)] /\ sent \in [Conns -> Seq(Frames)]
           /\ delivered \in [Conns -> Seq(Seq(Byte))]
           /\ connectionClientMap \in [Clients -> Conns \cup {NoConn}]
           /\ disconnects \in Seq(Conns) /\ reading \in Conns \cup {NoConn}
    BY Zenon DEF Inv, Types, ServerTypeOK

LEMMA NextLives ==
    ASSUME Inv, [ServerNext]_vars
    PROVE  Lives'
<1>0. Lives
    BY Zenon DEF Inv
<1>1. ASSUME NEW n \in Conns, onNewConnection(n)
      PROVE  Lives'
    <2>1. peer[n] = "none"
        BY <1>1 DEF onNewConnection, Conns
    <2>2. \A i \in 1 .. Len(disconnects) : disconnects[i] \in Conns /\ disconnects[i] # n
        <3>1. \A i \in 1 .. Len(disconnects) : disconnects[i] \in Conns
            BY FunctionsOf
        <3>2. \A i \in 1 .. Len(disconnects) : peer[disconnects[i]] = "closed"
            BY <1>0, Zenon DEF Lives
        <3>. QED  BY <2>1, <3>1, <3>2, Zenon
    <2>3. \A i \in 1 .. Len(disconnects) : peer'[disconnects[i]] = "closed"
        BY <1>0, <1>1, <2>2, FunctionsOf, ZenonT(60) DEF Lives, onNewConnection
    <2>. QED  BY <1>0, <1>1, <2>1, <2>3, FunctionsOf DEF Lives, onNewConnection, Waiting
<1>2. ASSUME NEW c \in Clients, NEW n \in Conns, NEW length \in Payloads, Send(c, n, length)
      PROVE  Lives'
    BY <1>0, <1>2, FunctionsOf, Zenon DEF Lives, Send, framing, server, Waiting
<1>3. ASSUME NEW n \in Conns, PeerClose(n)
      PROVE  Lives'
    <2>1. \A i \in 1 .. Len(disconnects) : disconnects[i] \in Conns
        BY FunctionsOf
    <2>2. \A i \in 1 .. Len(disconnects) : peer'[disconnects[i]] = "closed"
        BY <1>0, <1>3, <2>1, FunctionsOf, Zenon DEF Lives, PeerClose
    <2>. QED  BY <1>0, <1>3, <2>2, FunctionsOf, ZenonT(60) DEF Lives, PeerClose, framing, server, Waiting
<1>4. ASSUME NEW n \in Conns, NEW k \in 1 .. Len(wire[n]), Arrive(n, k)
      PROVE  Lives'
    <2>1. wire[n] # <<>> /\ Waiting(n)
        BY <1>4 DEF Arrive, Waiting
    <2>2. peer[n] # "none"
        BY <1>0, <2>1, Zenon DEF Lives
    <2>3. \A m \in Conns : m # n => wire'[m] = wire[m] /\ available'[m] = available[m]
        BY <1>4, FunctionsOf, Zenon DEF Arrive
    <2>4. reading' = n /\ UNCHANGED <<peer, sent, state, expected, delivered, connections, disconnects>>
        BY <1>4, Zenon DEF Arrive, server
    <2>. QED  BY <1>0, <2>1, <2>2, <2>3, <2>4 DEF Lives, Waiting
<1>5. ASSUME NEW n \in Conns, NotEnoughData(n)
      PROVE  Lives'
    BY <1>0, <1>5, SMTT(60) DEF Lives, NotEnoughData, network, server, Waiting
<1>6. ASSUME NEW n \in Conns, ReadHeader(n)
      PROVE  Lives'
    <2>1. Waiting(n) /\ peer[n] # "none"
        BY <1>0, <1>6, Zenon DEF ReadHeader, Waiting, Lives
    <2>2. /\ state' = [state EXCEPT ![n] = "waitPayload"]
          /\ \E length \in {sent[n][Len(delivered[n]) + 1].length} :
                expected' = [expected EXCEPT ![n] = length]
          /\ reading' \in {n, NoConn}
        BY <1>6, HeaderRead, Zenon DEF Again
    <2>3. available' = [available EXCEPT ![n] = Left(n)] /\ UNCHANGED <<network, delivered, server>>
        BY <1>6, SMTT(60) DEF ReadHeader
    <2>4. \A m \in Conns : m # n =>
             state'[m] = state[m] /\ expected'[m] = expected[m] /\ available'[m] = available[m]
        BY <2>2, <2>3, FunctionsOf
    <2>5. state'[n] = "waitPayload"
        BY <2>2, FunctionsOf
    <2>6. /\ UNCHANGED <<peer, wire, sent, delivered, connections, disconnects>>
          /\ reading' \in {n, NoConn}
        BY <2>2, <2>3, Zenon DEF network, server
    <2>. QED  BY <1>0, <2>1, <2>4, <2>5, <2>6, SMTT(60) DEF Lives, Waiting
<1>7. ASSUME NEW n \in Conns, ReadPayload(n)
      PROVE  Lives'
    <2>1. Waiting(n) /\ peer[n] # "none"
        BY <1>0, <1>7, Zenon DEF ReadPayload, Waiting, Lives
    <2>2. /\ state' = [state EXCEPT ![n] = "waitHeader"]
          /\ expected' = [expected EXCEPT ![n] = HeaderLength]
          /\ reading' \in {n, NoConn}
          /\ available' = [available EXCEPT ![n] = Left(n)]
        BY <1>7, Zenon DEF ReadPayload, Again
    <2>3. UNCHANGED <<connections, disconnects, network>>
        BY <1>7, MessageHandled, Zenon
    <2>4. \A m \in Conns : m # n => delivered'[m] = delivered[m] /\ available'[m] = available[m]
        BY <1>7, <2>2, FunctionsOf, ZenonT(60) DEF ReadPayload
    <2>5. /\ state'[n] = "waitHeader" /\ expected'[n] = HeaderLength
          /\ \A m \in Conns : m # n => state'[m] = state[m] /\ expected'[m] = expected[m]
        BY <2>2, FunctionsOf, Zenon
    <2>6. UNCHANGED <<peer, wire, sent, connections, disconnects>> /\ reading' \in {n, NoConn}
        BY <2>2, <2>3, Zenon DEF network
    <2>. QED  BY <1>0, <2>1, <2>4, <2>5, <2>6, SMTT(60) DEF Lives, Waiting
<1>8. ASSUME NEW n \in Conns, onSocketDisconnected(n)
      PROVE  Lives'
    <2>1. \A i \in 1 .. Len(disconnects') : peer[disconnects'[i]] = "closed"
        <3>. DEFINE q == disconnects
        <3>1. q \in Seq(Conns) /\ disconnects' = Append(q, n) /\ peer[n] = "closed"
            BY <1>8, FunctionsOf, Zenon DEF onSocketDisconnected
        <3>2. \A i \in 1 .. Len(q) : peer[q[i]] = "closed"
            BY <1>0, Zenon DEF Lives
        <3>. HIDE DEF q
        <3>. SUFFICES ASSUME NEW i \in 1 .. Len(Append(q, n))
                      PROVE  peer[Append(q, n)[i]] = "closed"
            BY <3>1, Zenon
        <3>3. i \in 1 .. Len(q) \/ i = Len(q) + 1
            BY <3>1
        <3>4. CASE i \in 1 .. Len(q)
            <4>1. Append(q, n)[i] = q[i]
                BY <3>1, <3>4
            <4>. QED  BY <3>2, <3>4, <4>1, Zenon
        <3>5. CASE i = Len(q) + 1
            <4>1. Append(q, n)[i] = n
                BY <3>1, <3>5
            <4>. QED  BY <3>1, <4>1, Zenon
        <3>. QED  BY <3>3, <3>4, <3>5, Zenon
    <2>2. \A m \in Conns : m # n => state'[m] = state[m] /\ wire'[m] = wire[m]
        BY <1>8, FunctionsOf, Zenon DEF onSocketDisconnected
    <2>3. /\ state'[n] = "idle" /\ peer[n] = "closed" /\ reading' = NoConn
          /\ UNCHANGED <<peer, sent, available, expected, delivered, connections>>
        BY <1>8, FunctionsOf, Zenon DEF onSocketDisconnected
    <2>. QED  BY <1>0, <2>1, <2>2, <2>3 DEF Lives, Waiting
<1>9. CASE onDisconnected
    <2>. DEFINE n == Head(disconnects)
    <2>1. n \in Conns /\ peer[n] = "closed"
        BY <1>9, FirstDisconnect, Zenon DEF onDisconnected
    <2>2. \A i \in 1 .. Len(disconnects') : peer[disconnects'[i]] = "closed"
        BY <1>0, <1>9, FunctionsOf DEF Lives, onDisconnected
    <2>3. /\ state' = [state EXCEPT ![n] = "deleted"] /\ connections' = connections \ {n}
          /\ available' = [available EXCEPT ![n] = <<>>]
          /\ UNCHANGED <<network, expected, reading, delivered>> /\ reading = NoConn
        BY <1>9, Zenon DEF onDisconnected
    <2>. HIDE DEF n
    <2>4. /\ state'[n] = "deleted"
          /\ \A m \in Conns : m # n => state'[m] = state[m] /\ available'[m] = available[m]
        BY <2>1, <2>3, FunctionsOf, Zenon
    <2>. QED  BY <1>0, <2>1, <2>2, <2>3, <2>4 DEF Lives, Waiting, network
<1>10. CASE Managed
    BY <1>0, <1>10, Zenon DEF Lives, Managed, network, framing, Waiting
<1>11. CASE UNCHANGED vars
    BY <1>0, <1>11, SMTT(60) DEF Lives, vars, network, framing, server, Waiting
<1>. QED  BY <1>1, <1>2, <1>3, <1>4, <1>5, <1>6, <1>7, <1>8, <1>9, <1>10, <1>11, Zenon DEF ServerNext

LEMMA NextDelivered ==
    ASSUME Inv, [ServerNext]_vars
    PROVE  DeliveredAsSent'
<1>0. DeliveredAsSent
    BY SMTT(60) DEF Inv
<1>1. ASSUME NEW c \in Clients, NEW n \in Conns, NEW length \in Payloads, Send(c, n, length)
      PROVE  DeliveredAsSent'
    <2>. SUFFICES ASSUME NEW m \in Conns
                  PROVE  /\ Len(delivered[m]) <= Len(sent'[m])
                         /\ \A i \in DOMAIN delivered[m] : delivered[m][i] = Bytes(sent'[m][i])
        BY <1>1, Zenon DEF DeliveredAsSent, Send, framing
    <2>0. /\ sent[m] \in Seq(Frames) /\ delivered[m] \in Seq(Seq(Byte))
          /\ Len(delivered[m]) <= Len(sent[m]) /\ DOMAIN delivered[m] = 1 .. Len(delivered[m])
        <3>1. sent[m] \in Seq(Frames) /\ delivered[m] \in Seq(Seq(Byte))
            BY TypesOf, Zenon
        <3>2. Len(delivered[m]) <= Len(sent[m])
            BY <1>0, Zenon DEF DeliveredAsSent
        <3>. QED  BY <3>1, <3>2
    <2>1. PICK f : sent' = [sent EXCEPT ![n] = Append(@, f)]
        BY <1>1, Zenon DEF Send
    <2>2. Len(sent'[m]) >= Len(sent[m]) /\ \A i \in 1 .. Len(sent[m]) : sent'[m][i] = sent[m][i]
        <3>1. CASE m # n
            BY <2>0, <2>1, <3>1, FunctionsOf
        <3>2. CASE m = n
            <4>1. sent'[m] = Append(sent[m], f)
                BY <2>1, <3>2, FunctionsOf, Zenon
            <4>. QED  BY <2>0, <4>1
        <3>. QED  BY <3>1, <3>2, Zenon
    <2>3. sent'[m] \in Seq(Frames)
        BY NextTypes, Zenon DEF Types
    <2>4. Len(delivered[m]) <= Len(sent'[m])
        BY <2>0, <2>2, <2>3
    <2>5. \A i \in DOMAIN delivered[m] : i \in 1 .. Len(sent[m])
        BY <2>0, SMTT(60)
    <2>. QED  BY <1>0, <2>2, <2>4, <2>5, Zenon DEF DeliveredAsSent
<1>2. ASSUME NEW n \in Conns, ReadPayload(n)
      PROVE  DeliveredAsSent'
    <2>1. PICK f \in Frames :
               /\ f = sent[n][Len(delivered[n]) + 1]
               /\ delivered' = [delivered EXCEPT ![n] = Append(@, Bytes(f))]
               /\ UNCHANGED network
        BY <1>2, MessageHandled, Zenon
    <2>2. \A m \in Conns : m # n => delivered'[m] = delivered[m]
        BY <2>1, FunctionsOf, Zenon
    <2>. DEFINE b == Bytes(f)
                d == delivered[n]
    <2>3. delivered'[n] = Append(d, b) /\ d \in Seq(Seq(Byte)) /\ b \in Seq(Byte)
        BY <2>1, FunctionsOf, BytesOfFrame, Zenon
    <2>4. Len(d) + 1 \in 1 .. Len(sent[n]) /\ b = Bytes(sent[n][Len(d) + 1])
        BY <1>2, <2>1, PayloadRead, Zenon
    <2>5. \A i \in 1 .. Len(d) : d[i] = Bytes(sent[n][i])
        <3>1. DOMAIN d = 1 .. Len(d)
            BY <2>3
        <3>. QED  BY <1>0, <3>1, Zenon DEF DeliveredAsSent
    <2>. HIDE DEF b, d
    <2>6. /\ Len(delivered'[n]) = Len(d) + 1 /\ DOMAIN delivered'[n] = 1 .. Len(d) + 1
          /\ \A i \in 1 .. Len(d) : delivered'[n][i] = d[i]
          /\ delivered'[n][Len(d) + 1] = b
        BY <2>3
    <2>7. Len(delivered'[n]) <= Len(sent[n])
        BY <2>4, <2>6
    <2>8. \A i \in DOMAIN delivered'[n] : delivered'[n][i] = Bytes(sent[n][i])
        <3>. SUFFICES ASSUME NEW i \in 1 .. Len(d) + 1
                      PROVE  delivered'[n][i] = Bytes(sent[n][i])
            BY <2>6, Zenon
        <3>1. i \in 1 .. Len(d) \/ i = Len(d) + 1
            BY <2>3
        <3>. QED  BY <2>4, <2>5, <2>6, <3>1, Zenon
    <2>. QED  BY <1>0, <2>1, <2>2, <2>7, <2>8 DEF DeliveredAsSent, network
<1>3. CASE UNCHANGED <<sent, delivered>>
    BY <1>0, <1>3, Zenon DEF DeliveredAsSent
<1>. QED  BY <1>1, <1>2, <1>3, Zenon DEF ServerNext, onNewConnection, PeerClose, Arrive, NotEnoughData, ReadHeader,
            onSocketDisconnected, onDisconnected, Managed, vars, network, framing

LEMMA NextUnread ==
    ASSUME Inv, [ServerNext]_vars
    PROVE  Unread'
<1>0. Unread
    BY Zenon DEF Inv
<1>00. HeaderLength \in Nat /\ HeaderLength > 0
    BY LengthAssumption
<1>1. ASSUME NEW n \in Conns, onNewConnection(n)
      PROVE  Unread'
    <2>1. peer[n] = "none"
        BY <1>1 DEF onNewConnection, Conns
    <2>2. available[n] = <<>> /\ expected[n] = HeaderLength
        BY <2>1, Zenon DEF Inv, Lives
    <2>3. Len(available[n]) < expected[n]
        BY <1>00, <2>2, Zenon
    <2>4. \A m \in Conns : m # n => state'[m] = state[m]
        BY <1>1, FunctionsOf, SMTT(60) DEF onNewConnection
    <2>. QED  BY <1>0, <1>1, <2>3, <2>4, Zenon DEF Unread, onNewConnection, Waiting
<1>2. ASSUME NEW n \in Conns, NEW k \in 1 .. Len(wire[n]), Arrive(n, k)
      PROVE  Unread'
    <2>1. \A m \in Conns : m # n => available'[m] = available[m]
        BY <1>2, FunctionsOf, Zenon DEF Arrive
    <2>. QED  BY <1>0, <1>2, <2>1, ConnsAreNot0, Zenon DEF Unread, Arrive, Waiting
<1>3. ASSUME NEW n \in Conns, NotEnoughData(n)
      PROVE  Unread'
    <2>1. ~(Len(available[n]) >= expected[n])
        BY <1>3, Zenon DEF NotEnoughData, Ready
    <2>2. Len(available[n]) < expected[n]
        BY <2>1, TypesOf
    <2>. QED  BY <1>0, <1>3, <2>2, Zenon DEF Unread, NotEnoughData, Waiting
<1>4. ASSUME NEW n \in Conns, reading = n, available' = [available EXCEPT ![n] = Left(n)],
             NEW length \in Nat, expected' = [expected EXCEPT ![n] = length],
             reading' = Again(n, Left(n), length),
             \A m \in Conns : m # n => state'[m] = state[m]
      PROVE  Unread'
    <2>1. /\ available'[n] = Left(n) /\ expected'[n] = length
          /\ \A m \in Conns : m # n => available'[m] = available[m] /\ expected'[m] = expected[m]
        BY <1>4, FunctionsOf, Zenon
    <2>2. ASSUME reading' # n
          PROVE  Len(available'[n]) < expected'[n]
        <3>1. Left(n) = <<>> /\ length # 0
            BY <1>4, <2>2, Zenon DEF Again
        <3>. QED  BY <2>1, <3>1
    <2>. QED  BY <1>0, <1>4, <2>1, <2>2, Zenon DEF Unread, Waiting
<1>5. ASSUME NEW n \in Conns, ReadHeader(n)
      PROVE  Unread'
    <2>. DEFINE g == sent[n][Len(delivered[n]) + 1]
    <2>1. /\ Len(delivered[n]) + 1 \in 1 .. Len(sent[n])
          /\ state' = [state EXCEPT ![n] = "waitPayload"]
          /\ expected' = [expected EXCEPT ![n] = g.length]
          /\ reading' = Again(n, Left(n), g.length)
        BY <1>5, HeaderRead, SMTT(60)
    <2>2. g \in Frames
        BY <2>1, TypesOf
    <2>3. g.length \in Nat
        BY <2>2, SizeIsNat, Zenon
    <2>4. \A m \in Conns : m # n => state'[m] = state[m]
        BY <2>1, FunctionsOf, Zenon
    <2>5. reading = n /\ available' = [available EXCEPT ![n] = Left(n)]
        BY <1>5, Zenon DEF ReadHeader
    <2>. HIDE DEF g
    <2>. QED  BY <1>4, <2>1, <2>3, <2>4, <2>5, ZenonT(60)
<1>6. ASSUME NEW n \in Conns, ReadPayload(n)
      PROVE  Unread'
    <2>1. /\ reading = n /\ available' = [available EXCEPT ![n] = Left(n)]
          /\ state' = [state EXCEPT ![n] = "waitHeader"]
          /\ expected' = [expected EXCEPT ![n] = HeaderLength]
          /\ reading' = Again(n, Left(n), HeaderLength)
        BY <1>6, Zenon DEF ReadPayload
    <2>2. \A m \in Conns : m # n => state'[m] = state[m]
        BY <2>1, FunctionsOf, Zenon
    <2>. QED  BY <1>00, <1>4, <2>1, <2>2, Zenon
<1>7. ASSUME NEW n \in Conns, onSocketDisconnected(n)
      PROVE  Unread'
    <2>1. state'[n] = "idle" /\ \A m \in Conns : m # n => state'[m] = state[m]
        BY <1>7, FunctionsOf, Zenon DEF onSocketDisconnected
    <2>. QED  BY <1>0, <1>7, <2>1, Zenon DEF Unread, onSocketDisconnected, Waiting
<1>8. CASE onDisconnected
    <2>. DEFINE n == Head(disconnects)
    <2>1. n \in Conns
        BY <1>8, FirstDisconnect, Zenon DEF onDisconnected
    <2>2. /\ state' = [state EXCEPT ![n] = "deleted"]
          /\ available' = [available EXCEPT ![n] = <<>>]
          /\ UNCHANGED <<expected, reading>>
        BY <1>8, Zenon DEF onDisconnected
    <2>. HIDE DEF n
    <2>3. /\ state'[n] = "deleted"
          /\ \A m \in Conns : m # n => state'[m] = state[m] /\ available'[m] = available[m]
        BY <2>1, <2>2, FunctionsOf, Zenon
    <2>. QED  BY <1>0, <2>2, <2>3, Zenon DEF Unread, Waiting
<1>9. CASE UNCHANGED <<state, reading, available, expected>>
    BY <1>0, <1>9, Zenon DEF Unread, Waiting
<1>. QED  BY <1>1, <1>2, <1>3, <1>5, <1>6, <1>7, <1>8, <1>9, Zenon DEF ServerNext, Send, PeerClose, Managed,
            vars, framing

LEMMA NextMap ==
    ASSUME Inv, [ServerNext]_vars
    PROVE  NoDanglingConnection' /\ OwnersAreKnown'
<1>0. NoDanglingConnection /\ OwnersAreKnown /\ holds \subseteq Clients
    BY Zenon DEF Inv, Types, ServerTypeOK
<1>1. ASSUME NEW n \in Conns, onNewConnection(n)
      PROVE  NoDanglingConnection' /\ OwnersAreKnown'
    BY <1>0, <1>1, Zenon DEF NoDanglingConnection, OwnersAreKnown, onNewConnection
<1>2. ASSUME NEW n \in Conns, ReadPayload(n)
      PROVE  NoDanglingConnection' /\ OwnersAreKnown'
    <2>1. n \in connections
        BY <1>2, Zenon DEF ReadPayload, Inv, Lives, Waiting
    <2>2. PICK f \in Frames :
               /\ connections' = connections
               /\ \/ Entered(n, f)
                  \/ f.length = 0 /\ Forget({f.client})
                  \/ UNCHANGED <<connectionClientMap, holds>>
        BY <1>2, MessageHandled, Zenon
    <2>3. f.client \in Clients
        BY SizeIsNat, Zenon
    <2>4. CASE Entered(n, f)
        <3>1. /\ connectionClientMap'[f.client] \in {connectionClientMap[f.client], n}
              /\ connectionClientMap'[f.client] # NoConn
              /\ \A c \in Clients : c # f.client => connectionClientMap'[c] = connectionClientMap[c]
            BY <2>3, <2>4, FunctionsOf, ConnsAreNot0, SMTT(60) DEF Entered
        <3>2. holds' \subseteq holds \cup {f.client}
            BY <2>4, Zenon DEF Entered
        <3>3. NoDanglingConnection'
            BY <1>0, <2>1, <2>2, <3>1, Zenon DEF NoDanglingConnection
        <3>4. OwnersAreKnown'
            BY <1>0, <3>1, <3>2, Zenon DEF OwnersAreKnown
        <3>. QED  BY <3>3, <3>4, Zenon
    <2>5. CASE Forget({f.client})
        <3>1. /\ holds' = holds \ {f.client}
              /\ \A c \in Clients :
                    connectionClientMap'[c] = IF c \in {f.client} THEN NoConn ELSE connectionClientMap[c]
            BY <2>3, <2>5, Forgotten
        <3>3. NoDanglingConnection'
            BY <1>0, <2>2, <3>1, Zenon DEF NoDanglingConnection
        <3>4. OwnersAreKnown'
            BY <1>0, <3>1, Zenon DEF OwnersAreKnown
        <3>. QED  BY <3>3, <3>4, Zenon
    <2>6. CASE UNCHANGED <<connectionClientMap, holds>>
        BY <1>0, <2>2, <2>6, Zenon DEF NoDanglingConnection, OwnersAreKnown
    <2>. QED  BY <2>2, <2>4, <2>5, <2>6, SMTT(60)
<1>3. CASE onDisconnected
    <2>. DEFINE n == Head(disconnects)
    <2>1. Forget(ClientsOf(n)) /\ connections' = connections \ {n}
        BY <1>3, Zenon DEF onDisconnected
    <2>. HIDE DEF n
    <2>2. ClientsOf(n) \in SUBSET Clients
        BY SMTT(60) DEF ClientsOf
    <2>3. /\ holds' = holds \ ClientsOf(n)
          /\ \A c \in Clients :
                connectionClientMap'[c] = IF c \in ClientsOf(n) THEN NoConn ELSE connectionClientMap[c]
        BY <2>1, <2>2, Forgotten, SMTT(60)
    <2>4. NoDanglingConnection'
        BY <1>0, <2>1, <2>3, Zenon DEF NoDanglingConnection, ClientsOf
    <2>5. OwnersAreKnown'
        BY <1>0, <2>3, Zenon DEF OwnersAreKnown
    <2>. QED  BY <2>4, <2>5, Zenon
<1>4. CASE Managed
    BY <1>0, <1>4, Zenon DEF NoDanglingConnection, OwnersAreKnown, Managed
<1>5. CASE UNCHANGED <<connections, connectionClientMap, holds>>
    BY <1>0, <1>5, SMTT(60) DEF NoDanglingConnection, OwnersAreKnown
<1>. QED  BY <1>1, <1>2, <1>3, <1>4, <1>5, ZenonT(60) DEF ServerNext, Send, PeerClose, Arrive, NotEnoughData, ReadHeader,
            onSocketDisconnected, vars, server

\* A connection that a step does not touch.
Untouched(n) ==
    /\ state'[n] = state[n] /\ buffer'[n] = buffer[n] /\ available'[n] = available[n] /\ wire'[n] = wire[n]
    /\ sent'[n] = sent[n] /\ delivered'[n] = delivered[n] /\ expected'[n] = expected[n]

LEMMA UntouchedFramed ==
    ASSUME Inv, NEW n \in Conns, Untouched(n)
    PROVE  Framed(n)'
<1>1. Framed(n)
    BY SMTT(60) DEF Inv
<1>2. Waiting(n)' = Waiting(n) /\ Held(n)' = Held(n) /\ Stream(n)' = Stream(n)
    BY Zenon DEF Untouched, Waiting, Held, Stream
<1>. QED  BY <1>1, <1>2, Zenon DEF Framed, Untouched

LEMMA ReadLeavesStream ==
    ASSUME NEW h \in Seq(Byte), NEW a \in Seq(Byte), NEW w \in Seq(Byte), NEW k \in 0 .. Len(w)
    PROVE  (h \o (a \o SubSeq(w, 1, k))) \o SubSeq(w, k + 1, Len(w)) = (h \o a) \o w
<1>. DEFINE u == SubSeq(w, 1, k)
            v == SubSeq(w, k + 1, Len(w))
<1>1. u \in Seq(Byte) /\ v \in Seq(Byte)
    BY Cut, Zenon
<1>2. u \o v = w
    BY Cut, Zenon
<1>. HIDE DEF u, v
<1>3. (h \o a) \o u = h \o (a \o u)
    BY <1>1, JoinedInAnyOrder, ZenonT(120)
<1>4. ((h \o a) \o u) \o v = (h \o a) \o (u \o v)
    <2>. DEFINE x == h \o a
    <2>1. x \in Seq(Byte)
        BY Joined, Zenon
    <2>. HIDE DEF x
    <2>2. (x \o u) \o v = x \o (u \o v)
        BY <1>1, <2>1, JoinedInAnyOrder, ZenonT(60)
    <2>. QED  BY <2>2, Zenon DEF x
<1>5. (h \o (a \o u)) \o v = (h \o a) \o w
    BY <1>2, <1>3, <1>4, Zenon
<1>. QED  BY <1>5, Zenon DEF u, v

LEMMA NewConnectionFramed ==
    ASSUME Inv, NEW n \in Conns, onNewConnection(n)
    PROVE  Framed(n)'
<1>1. peer[n] = "none"
    BY DEF onNewConnection, Conns
<1>2. wire[n] = <<>> /\ available[n] = <<>> /\ sent[n] = <<>> /\ delivered[n] = <<>>
    BY <1>1, Zenon DEF Inv, Lives
<1>3. state'[n] = "waitHeader" /\ UNCHANGED <<wire, available, sent, delivered>>
    BY FunctionsOf, Zenon DEF onNewConnection
<1>4. Held(n)' = <<>>
    BY <1>3, Zenon DEF Held
<1>5. Stream(n)' = <<>>
    <2>1. (<<>> \o <<>>) \o <<>> = <<>>
        <3>1. <<>> \in Seq(Byte)
            OBVIOUS
        <3>. QED  BY <3>1, AfterNothing, Zenon
    <2>. QED  BY <1>2, <1>3, <1>4, <2>1, Zenon DEF Stream
<1>6. Len(delivered'[n]) = 0
    BY <1>2, <1>3, Zenon
<1>7. LaidOut(sent'[n], Len(delivered'[n]), Stream(n)')
    BY <1>2, <1>3, <1>5, <1>6, NothingLaidOut, Zenon
<1>. QED  BY <1>3, <1>7, Zenon DEF Framed

LEMMA SendFramed ==
    ASSUME Inv, NEW c \in Clients, NEW n \in Conns, NEW length \in Payloads, Send(c, n, length)
    PROVE  Framed(n)'
<1>. SUFFICES ASSUME Waiting(n)'
              PROVE  /\ LaidOut(sent'[n], Len(delivered'[n]), Stream(n)')
                     /\ state'[n] = "waitPayload" =>
                          /\ Len(buffer'[n]) = HeaderLength
                          /\ expected'[n] = sent'[n][Len(delivered'[n]) + 1].length
    BY ZenonT(60) DEF Framed
<1>1. UNCHANGED <<available, state, expected, buffer, delivered>>
    BY SMTT(60) DEF Send, framing
<1>. DEFINE f == [client |-> c, length |-> length, id |-> written + 1]
            s == sent[n]
            d == Len(delivered[n])
            w == wire[n]
            h == Held(n) \o available[n]
            b == Bytes(f)
<1>2. f \in Frames
    BY MaxFramesAssumption, SMTT(60) DEF Send, Frames, Inv, Types, ServerTypeOK
<1>3. /\ wire' = [wire EXCEPT ![n] = @ \o Bytes(f)] /\ sent' = [sent EXCEPT ![n] = Append(@, f)]
    BY Zenon DEF Send
<1>4. wire'[n] = w \o b /\ sent'[n] = Append(s, f)
    BY <1>3, FunctionsOf, SMTT(60)
<1>5. /\ s \in Seq(Frames) /\ d \in 0 .. Len(s) /\ w \in Seq(Byte) /\ h \in Seq(Byte) /\ b \in Seq(Byte)
      /\ h \o w \in Seq(Byte)
    BY <1>2, TypesOf, BytesOfFrame, Zenon DEF Stream
<1>6. Framed(n) /\ Waiting(n)
    BY <1>1, Zenon DEF Inv, Waiting
<1>7. LaidOut(s, d, h \o w)
    BY <1>6, Zenon DEF Framed, Stream
<1>8. Stream(n)' = h \o (w \o b)
    <2>1. Held(n)' = Held(n)
        BY <1>1, Zenon DEF Held
    <2>. QED  BY <1>1, <1>4, <2>1, ZenonT(60) DEF Stream
<1>9. h \o (w \o b) = (h \o w) \o b
    <2>. HIDE DEF h, w, b
    <2>. QED  BY <1>5, JoinedInAnyOrder, ZenonT(60)
<1>10. LaidOut(Append(s, f), d, (h \o w) \o b)
    <2>. DEFINE r == h \o w
    <2>1. r \in Seq(Byte) /\ LaidOut(s, d, r)
        BY <1>5, <1>7, Zenon
    <2>. HIDE DEF r, s, d, f
    <2>2. LaidOut(Append(s, f), d, r \o Bytes(f))
        BY <1>2, <1>5, <2>1, FrameWritten, SMTT(60)
    <2>. QED  BY <2>2, Zenon DEF r
<1>11. LaidOut(sent'[n], Len(delivered'[n]), Stream(n)')
    <2>1. Len(delivered'[n]) = d
        BY <1>1, ZenonT(60)
    <2>. HIDE DEF h, w, b, s, d, f
    <2>. QED  BY <1>4, <1>8, <1>9, <1>10, <2>1, Zenon
<1>12. ASSUME state[n] = "waitPayload"
       PROVE  Len(buffer[n]) = HeaderLength /\ expected[n] = sent'[n][d + 1].length
    <2>1. Len(buffer[n]) = HeaderLength /\ expected[n] = s[d + 1].length
        BY <1>6, <1>12, ZenonT(60) DEF Framed
    <2>2. d + 1 \in 1 .. Len(s)
        <3>. DEFINE u == buffer[n]
                    a == available[n]
        <3>1. u \in Seq(Byte) /\ a \in Seq(Byte) /\ h = u \o a
            BY <1>12, TypesOf, Zenon DEF Held
        <3>2. Len(u) > 0
            BY <2>1, LengthAssumption, SMTT(60)
        <3>. HIDE DEF u, a, h, w
        <3>3. Len(h) > 0
            BY <3>1, <3>2, Joined, SMTT(60), Z3T(60)
        <3>4. Len(h \o w) > 0
            BY <1>5, <3>3, Joined
        <3>. DEFINE r == h \o w
        <3>5. r \in Seq(Byte) /\ LaidOut(s, d, r) /\ Len(r) > 0
            BY <1>5, <1>7, <3>4, Zenon
        <3>. HIDE DEF r, s, d
        <3>. QED  BY <1>5, <3>5, FrontOfStream, Zenon
    <2>. HIDE DEF s, d, f
    <2>3. Append(s, f)[d + 1] = s[d + 1]
        BY <1>5, <2>2
    <2>. QED  BY <1>4, <2>1, <2>3, SMTT(60), Z3T(60)
<1>. QED  BY <1>1, <1>11, <1>12, Zenon

LEMMA ArriveFramed ==
    ASSUME Inv, NEW n \in Conns, NEW k \in 1 .. Len(wire[n]), Arrive(n, k)
    PROVE  Framed(n)'
<1>. DEFINE h == Held(n)
            a == available[n]
            w == wire[n]
<1>1. UNCHANGED <<sent, state, expected, buffer, delivered>>
    BY Zenon DEF Arrive
<1>2. available'[n] = a \o SubSeq(w, 1, k) /\ wire'[n] = SubSeq(w, k + 1, Len(w))
    BY FunctionsOf, SMTT(60) DEF Arrive
<1>3. h \in Seq(Byte) /\ a \in Seq(Byte) /\ w \in Seq(Byte) /\ k \in 0 .. Len(w)
    BY TypesOf
<1>4. Held(n)' = h /\ Waiting(n)' = Waiting(n)
    BY <1>1, Zenon DEF Held, Waiting
<1>5. Stream(n) = (h \o a) \o w
    BY Zenon DEF Stream
<1>6. Stream(n)' = (h \o (a \o SubSeq(w, 1, k))) \o SubSeq(w, k + 1, Len(w))
    BY <1>2, <1>4, Zenon DEF Stream
<1>7. Stream(n)' = Stream(n)
    <2>. HIDE DEF h, a, w
    <2>. QED  BY <1>3, <1>5, <1>6, ReadLeavesStream, ZenonT(120)
<1>8. Framed(n)
    BY Zenon DEF Inv
<1>. QED  BY <1>1, <1>4, <1>7, <1>8, Zenon DEF Framed

LEMMA NotEnoughDataFramed ==
    ASSUME Inv, NEW n \in Conns, NotEnoughData(n)
    PROVE  Framed(n)'
<1>1. UNCHANGED <<sent, state, expected, available, wire, delivered>>
    BY Zenon DEF NotEnoughData, network
<1>2. state[n] = "waitPayload" => buffer'[n] = buffer[n]
    BY Zenon DEF NotEnoughData
<1>3. Held(n)' = Held(n) /\ Waiting(n)' = Waiting(n)
    BY <1>1, <1>2, Zenon DEF Held, Waiting
<1>4. Stream(n)' = Stream(n)
    BY <1>1, <1>3, Zenon DEF Stream
<1>5. Framed(n)
    BY Zenon DEF Inv
<1>. QED  BY <1>1, <1>2, <1>3, <1>4, <1>5, Zenon DEF Framed

LEMMA ReadHeaderFramed ==
    ASSUME Inv, NEW n \in Conns, ReadHeader(n)
    PROVE  Framed(n)'
<1>. DEFINE t == Taken(n)
            q == Left(n)
            a == available[n]
            w == wire[n]
<1>1. state[n] = "waitHeader" /\ UNCHANGED <<sent, wire, delivered>>
    BY Zenon DEF ReadHeader, network
<1>2. /\ t \in Seq(Byte) /\ Len(t) = HeaderLength /\ q \in Seq(Byte) /\ t \o q = a
    BY HeaderRead, Zenon
<1>3. /\ state'[n] = "waitPayload" /\ expected'[n] = sent[n][Len(delivered[n]) + 1].length
    BY HeaderRead, FunctionsOf, ZenonT(60)
<1>4. available'[n] = q /\ buffer'[n] = t
    BY FunctionsOf, Zenon DEF ReadHeader
<1>5. a \in Seq(Byte) /\ w \in Seq(Byte)
    BY TypesOf, Zenon
<1>6. Stream(n) = (<<>> \o a) \o w
    BY <1>1, Zenon DEF Stream, Held
<1>7. Stream(n)' = (t \o q) \o w
    BY <1>1, <1>3, <1>4, Zenon DEF Stream, Held
<1>8. Stream(n)' = Stream(n)
    <2>. HIDE DEF t, q, a, w
    <2>1. <<>> \o a = a
        BY <1>5, AfterNothing, SMTT(60)
    <2>. QED  BY <1>2, <1>6, <1>7, <2>1, Zenon
<1>9. LaidOut(sent[n], Len(delivered[n]), Stream(n))
    BY <1>1, SMTT(60) DEF Inv, Framed, Waiting
<1>. QED  BY <1>1, <1>2, <1>3, <1>4, <1>8, <1>9, Zenon DEF Framed

LEMMA ReadPayloadFramed ==
    ASSUME Inv, NEW n \in Conns, ReadPayload(n)
    PROVE  Framed(n)'
<1>. DEFINE s == sent[n]
            d == Len(delivered[n])
            q == Left(n) \o wire[n]
<1>1. state[n] = "waitPayload" /\ UNCHANGED <<sent, wire>>
    BY Zenon DEF ReadPayload, network
<1>2. d + 1 \in 1 .. Len(s) /\ Left(n) \in Seq(Byte) /\ Stream(n) = Bytes(s[d + 1]) \o q
    BY PayloadRead, Zenon
<1>3. s \in Seq(Frames) /\ d \in 0 .. Len(s) /\ wire[n] \in Seq(Byte)
    BY TypesOf, SMTT(60)
<1>4. q \in Seq(Byte) /\ d # Len(s)
    BY <1>2, <1>3, Joined, SMTT(60), Z3T(60)
<1>5. LaidOut(s, d, Stream(n))
    BY <1>1, Zenon DEF Inv, Framed, Waiting
<1>6. LaidOut(s, d + 1, q)
    <2>. HIDE DEF s, d, q
    <2>1. LaidOut(s, d, Bytes(s[d + 1]) \o q)
        BY <1>2, <1>5, Zenon
    <2>. QED  BY <1>3, <1>4, <2>1, FrameTaken, Zenon
<1>7. state'[n] = "waitHeader" /\ available'[n] = Left(n)
    BY FunctionsOf, Zenon DEF ReadPayload
<1>8. Len(delivered'[n]) = d + 1
    <2>1. PICK f \in Frames : delivered' = [delivered EXCEPT ![n] = Append(@, Bytes(f))]
        BY MessageHandled, ZenonT(60)
    <2>. DEFINE b == Bytes(f)
                e == delivered[n]
    <2>2. delivered'[n] = Append(e, b) /\ e \in Seq(Seq(Byte)) /\ b \in Seq(Byte)
        BY <2>1, FunctionsOf, BytesOfFrame, Zenon
    <2>. HIDE DEF b, e
    <2>3. Len(delivered'[n]) = Len(e) + 1
        BY <2>2
    <2>. QED  BY <2>3, Zenon DEF e
<1>9. Stream(n)' = q
    <2>. DEFINE l == Left(n)
    <2>1. Stream(n)' = (<<>> \o l) \o wire[n]
        BY <1>1, <1>7, Zenon DEF Stream, Held
    <2>2. <<>> \o l = l
        BY <1>2, AfterNothing, Zenon
    <2>. HIDE DEF l
    <2>3. Stream(n)' = l \o wire[n]
        BY <2>1, <2>2, SMTT(60)
    <2>. QED  BY <2>3, Zenon DEF l
<1>. QED  BY <1>1, <1>6, <1>7, <1>8, <1>9, Zenon DEF Framed

LEMMA NextFramed ==
    ASSUME Inv, [ServerNext]_vars
    PROVE  \A m \in Conns : Framed(m)'
<1>. TAKE m \in Conns
<1>1. ASSUME NEW n \in Conns, onNewConnection(n)
      PROVE  Framed(m)'
    <2>1. n # m => Untouched(m)
        BY <1>1, FunctionsOf, Zenon DEF onNewConnection, Untouched
    <2>. QED  BY <1>1, <2>1, NewConnectionFramed, UntouchedFramed, Zenon
<1>2. ASSUME NEW c \in Clients, NEW n \in Conns, NEW length \in Payloads, Send(c, n, length)
      PROVE  Framed(m)'
    <2>1. n # m => Untouched(m)
        BY <1>2, FunctionsOf, Zenon DEF Send, framing, Untouched
    <2>. QED  BY <1>2, <2>1, SendFramed, UntouchedFramed, SMTT(60)
<1>3. ASSUME NEW n \in Conns, NEW k \in 1 .. Len(wire[n]), Arrive(n, k)
      PROVE  Framed(m)'
    <2>1. n # m => Untouched(m)
        BY <1>3, FunctionsOf, SMTT(60) DEF Arrive, Untouched
    <2>. QED  BY <1>3, <2>1, ArriveFramed, UntouchedFramed, SMTT(60)
<1>4. ASSUME NEW n \in Conns, NotEnoughData(n)
      PROVE  Framed(m)'
    <2>1. n # m => Untouched(m)
        BY <1>4, FunctionsOf, Zenon DEF NotEnoughData, network, Untouched
    <2>. QED  BY <1>4, <2>1, NotEnoughDataFramed, UntouchedFramed, Zenon
<1>5. ASSUME NEW n \in Conns, ReadHeader(n)
      PROVE  Framed(m)'
    <2>1. n # m => Untouched(m)
        <3>1. n # m => state'[m] = state[m] /\ expected'[m] = expected[m]
            BY <1>5, HeaderRead, FunctionsOf, ZenonT(60)
        <3>2. n # m => /\ available'[m] = available[m] /\ buffer'[m] = buffer[m]
                       /\ UNCHANGED <<wire, sent, delivered>>
            BY <1>5, FunctionsOf, Zenon DEF ReadHeader, network
        <3>. QED  BY <3>1, <3>2, Zenon DEF Untouched
    <2>. QED  BY <1>5, <2>1, ReadHeaderFramed, UntouchedFramed, Zenon
<1>6. ASSUME NEW n \in Conns, ReadPayload(n)
      PROVE  Framed(m)'
    <2>1. n # m => Untouched(m)
        BY <1>6, FunctionsOf, Zenon DEF ReadPayload, network, Untouched
    <2>. QED  BY <1>6, <2>1, ReadPayloadFramed, UntouchedFramed, Zenon
<1>7. ASSUME NEW n \in Conns, onSocketDisconnected(n)
      PROVE  Framed(m)'
    <2>1. n # m => Untouched(m)
        BY <1>7, FunctionsOf, Zenon DEF onSocketDisconnected, Untouched
    <2>2. state'[n] = "idle"
        BY <1>7, FunctionsOf, Zenon DEF onSocketDisconnected
    <2>3. Framed(n)'
        BY <2>2, Zenon DEF Framed, Waiting
    <2>. QED  BY <2>1, <2>3, UntouchedFramed, Zenon
<1>8. CASE onDisconnected
    <2>. DEFINE n == Head(disconnects)
    <2>1. n \in Conns
        BY <1>8, FirstDisconnect, Zenon DEF onDisconnected
    <2>2. /\ state' = [state EXCEPT ![n] = "deleted"]
          /\ available' = [available EXCEPT ![n] = <<>>]
          /\ buffer' = [buffer EXCEPT ![n] = <<>>]
          /\ UNCHANGED <<wire, sent, delivered, expected>>
        BY <1>8, Zenon DEF onDisconnected, network
    <2>. HIDE DEF n
    <2>3. n # m => Untouched(m)
        BY <2>1, <2>2, FunctionsOf, Zenon DEF Untouched
    <2>4. n = m => state'[m] = "deleted"
        BY <2>1, <2>2, FunctionsOf, Zenon
    <2>5. n = m => Framed(m)'
        BY <2>4, Zenon DEF Framed, Waiting
    <2>. QED  BY <2>3, <2>5, UntouchedFramed, Zenon
<1>9. CASE UNCHANGED <<state, buffer, available, wire, sent, delivered, expected>>
    <2>1. Untouched(m)
        BY <1>9, Zenon DEF Untouched
    <2>. QED  BY <2>1, UntouchedFramed, Zenon
<1>. QED  BY <1>1, <1>2, <1>3, <1>4, <1>5, <1>6, <1>7, <1>8, <1>9, Zenon DEF ServerNext, PeerClose, Managed, vars,
            network, framing

-----------------------------------------------------------------------------
(* The theorems.                                                           *)

LEMMA InitInv == ServerInit => Inv
<1>. SUFFICES ASSUME ServerInit
              PROVE  Inv
    BY Zenon
<1>0. HeaderLength \in Nat /\ HeaderLength > 0 /\ <<>> \in Seq(Byte) /\ <<>> \in Seq(Frames)
      /\ <<>> \in Seq(Seq(Byte)) /\ <<>> \in Seq(Conns)
    BY LengthAssumption
<1>1. Types
    BY <1>0, MaxFramesAssumption DEF ServerInit, Types, ServerTypeOK
<1>2. Lives
    BY DEF ServerInit, Lives, Waiting
<1>3. \A n \in Conns : Framed(n)
    BY Zenon DEF ServerInit, Framed, Waiting
<1>4. DeliveredAsSent
    BY DEF ServerInit, DeliveredAsSent
<1>5. Unread
    BY Zenon DEF ServerInit, Unread, Waiting
<1>6. NoDanglingConnection /\ OwnersAreKnown
    BY Zenon DEF ServerInit, NoDanglingConnection, OwnersAreKnown
<1>. QED  BY <1>1, <1>2, <1>3, <1>4, <1>5, <1>6, Zenon DEF Inv

LEMMA NextInv == Inv /\ [ServerNext]_vars => Inv'
<1>. SUFFICES ASSUME Inv, [ServerNext]_vars
              PROVE  Inv'
    BY Zenon
<1>1. Types' /\ Lives' /\ (\A n \in Conns : Framed(n)')
    BY NextTypes, NextLives, NextFramed, Zenon
<1>2. DeliveredAsSent' /\ Unread' /\ NoDanglingConnection' /\ OwnersAreKnown'
    BY NextDelivered, NextUnread, NextMap, Zenon
<1>. QED  BY <1>1, <1>2, Zenon DEF Inv

LEMMA InvHolds == ServerSpec => []Inv
    BY InitInv, NextInv, PTL DEF ServerSpec

\* The transport's variables keep their types: a connection reads with a
\* length that a header announced or with kHeaderLength.
THEOREM TransportTyped == ServerSpec => []ServerTypeOK
<1>1. Inv => ServerTypeOK
    BY Zenon DEF Inv, Types
<1>. QED  BY <1>1, InvHolds, PTL

\* Connection::onReadyRead hands over the frames the peer wrote, whole and in
\* order and none twice, for every header and payload length and every way
\* the bytes are cut into chunks: a header is read only where a header
\* starts.
THEOREM FramesDelivered == ServerSpec => []DeliveredAsSent
<1>1. Inv => DeliveredAsSent
    BY Zenon DEF Inv
<1>. QED  BY <1>1, InvHolds, PTL

\* When onReadyRead has returned no complete message is left in a socket, an
\* empty payload included: the emit readyRead at its end has read it.
THEOREM AllRead == ServerSpec => []NothingLeftUnread
<1>1. Inv => NothingLeftUnread
    BY ConnsAreNot0, Zenon DEF Inv, Unread, NothingLeftUnread, Waiting
<1>. QED  BY <1>1, InvHolds, PTL

\* connectionClientMap never names a Connection that Server::onDisconnected
\* has deleted, although messages that enter clients in it and disconnections
\* that wait in the queue cross.
THEOREM MapNamesConnections == ServerSpec => []NoDanglingConnection
<1>1. Inv => NoDanglingConnection
    BY Zenon DEF Inv
<1>. QED  BY <1>1, InvHolds, PTL

\* A client that owns reservations, other than the recorder, has an entry in
\* connectionClientMap, by which its disconnection releases them.
THEOREM OwnersHaveAnEntry == ServerSpec => []OwnersAreKnown
<1>1. Inv => OwnersAreKnown
    BY Zenon DEF Inv
<1>. QED  BY <1>1, InvHolds, PTL

ForgetsTheGone ==
    \A c \in Clients :
        (connectionClientMap[c] # NoConn /\ connectionClientMap'[c] = NoConn) =>
            LET n == connectionClientMap[c]
            IN  \/ peer[n] = "closed" /\ n \notin connections'
                \/ \E f \in Frames : /\ f.client = c /\ f.length = 0
                                     /\ delivered'[n] = Append(delivered[n], Bytes(f))

LEMMA ForgetsOnlyTheGone ==
    ASSUME Inv, [ServerNext]_vars
    PROVE  ForgetsTheGone
<1>. SUFFICES ASSUME NEW c \in Clients, connectionClientMap[c] # NoConn, connectionClientMap'[c] = NoConn
              PROVE  LET n == connectionClientMap[c]
                     IN  \/ peer[n] = "closed" /\ n \notin connections'
                         \/ \E f \in Frames : /\ f.client = c /\ f.length = 0
                                              /\ delivered'[n] = Append(delivered[n], Bytes(f))
    BY Zenon DEF ForgetsTheGone
<1>1. ASSUME NEW n \in Conns, ReadPayload(n)
      PROVE  connectionClientMap[c] = n /\ \E f \in Frames :
                 /\ f.client = c /\ f.length = 0
                 /\ delivered'[n] = Append(delivered[n], Bytes(f))
    <2>1. PICK f \in Frames :
               /\ delivered' = [delivered EXCEPT ![n] = Append(@, Bytes(f))]
               /\ \/ Entered(n, f)
                  \/ f.length = 0 /\ Forget({f.client}) /\ connectionClientMap[f.client] \in {NoConn, n}
                  \/ UNCHANGED <<connectionClientMap, holds>>
        BY <1>1, MessageHandled, Zenon
    <2>2. f.client \in Clients
        BY SizeIsNat, Zenon
    <2>3. ~Entered(n, f)
        <3>. SUFFICES ASSUME Entered(n, f)
                      PROVE  FALSE
            BY Zenon
        <3>. DEFINE e == f.client
        <3>1. connectionClientMap' = [connectionClientMap EXCEPT ![e] = IF @ = NoConn THEN n ELSE @]
            BY Zenon DEF Entered
        <3>2. e \in Clients
            BY <2>2, Zenon
        <3>. HIDE DEF e
        <3>3. connectionClientMap'[e] # NoConn
            BY <3>1, <3>2, FunctionsOf, ConnsAreNot0, Zenon
        <3>4. \A a \in Clients : a # e => connectionClientMap'[a] = connectionClientMap[a]
            BY <3>1, FunctionsOf, SMTT(60)
        <3>. QED  BY <3>3, <3>4, Zenon
    <2>4. f.length = 0 /\ Forget({f.client}) /\ connectionClientMap[f.client] \in {NoConn, n}
        BY <2>1, <2>3, SMTT(60)
    <2>5. \A e \in Clients :
              connectionClientMap'[e] = IF e \in {f.client} THEN NoConn ELSE connectionClientMap[e]
        BY <2>2, <2>4, Forgotten
    <2>6. c = f.client
        BY <2>5, Zenon
    <2>7. delivered'[n] = Append(delivered[n], Bytes(f))
        BY <2>1, FunctionsOf, Zenon
    <2>. QED  BY <2>4, <2>6, <2>7, Zenon
<1>2. ASSUME onDisconnected
      PROVE  peer[connectionClientMap[c]] = "closed" /\ connectionClientMap[c] \notin connections'
    <2>. DEFINE n == Head(disconnects)
    <2>1. n \in Conns /\ peer[n] = "closed"
        BY <1>2, FirstDisconnect, Zenon DEF onDisconnected
    <2>2. Forget(ClientsOf(n)) /\ connections' = connections \ {n}
        BY <1>2, Zenon DEF onDisconnected
    <2>. HIDE DEF n
    <2>3. ClientsOf(n) \in SUBSET Clients
        BY Zenon DEF ClientsOf
    <2>4. \A e \in Clients :
              connectionClientMap'[e] = IF e \in ClientsOf(n) THEN NoConn ELSE connectionClientMap[e]
        BY <2>2, <2>3, Forgotten, Zenon
    <2>5. c \in ClientsOf(n)
        BY <2>4, Zenon
    <2>6. connectionClientMap[c] = n
        BY <2>5, Zenon DEF ClientsOf
    <2>. QED  BY <2>1, <2>2, <2>6, Zenon
<1>3. CASE UNCHANGED connectionClientMap
    BY <1>3, Zenon
<1>. QED  BY <1>1, <1>2, <1>3, ZenonT(60) DEF ServerNext, onNewConnection, Send, PeerClose, Arrive, NotEnoughData,
            ReadHeader, onSocketDisconnected, Managed, vars, server

\* Server::onMessageReceived and onDisconnected forget a client only when it
\* has said that it is gone, on the connection the map has for it, or when
\* the peer has closed that connection.
THEOREM ForgottenWereGone == ServerSpec => OnlyTheGoneAreForgotten
<1>1. Inv /\ [ServerNext]_vars => [ForgetsTheGone]_vars
    BY ForgetsOnlyTheGone, Zenon
<1>. QED  BY <1>1, InvHolds, PTL DEF ServerSpec, OnlyTheGoneAreForgotten, ForgetsTheGone

=============================================================================
