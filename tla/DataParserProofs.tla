-------------------------- MODULE DataParserProofs --------------------------
(* What holds of DataParser for all users, packets and sizes.              *)
EXTENDS DataParser, SequenceTheorems, TLAPS

RecordType ==
    [valid : BOOLEAN, n_pdu : Nat, remain : Int,
     frag : [0 .. NrSeg - 1 -> Segments \cup {Unused}]]

RunType == [segs : SUBSET Segments, clean : BOOLEAN]

\* The segments f was fed belong to packet p, and the record r holds them.
Slot(f, p, i) == IF <<p, i>> \in f.segs THEN <<p, i>> ELSE Unused

Taken(f, p, i) == IF <<p, i>> \in f.segs THEN p.lens[i] ELSE 0

Missing(f, p) ==
    (IF <<p, 1>> \in f.segs THEN p.ip_len ELSE 0)
        - Taken(f, p, 1) - Taken(f, p, 2) - Taken(f, p, 3)

Exact(r, f, p) ==
    /\ \A t \in f.segs : t[1] = p
    /\ r.frag[0] = Slot(f, p, 1)
    /\ r.frag[1] = Slot(f, p, 2)
    /\ r.frag[2] = Slot(f, p, 3)
    /\ r.remain = Missing(f, p)

\* A segment that reassembly takes.
Usable(s) == ~Refused(s) /\ IsSegment(s) /\ ~TooBig(s) /\ ~HasNoSize(s)

\* A record and the history of what it was fed since it was begun.
Consistent(r, f) ==
    /\ r \in RecordType /\ f \in RunType
    /\ \A t \in f.segs : Usable(t) /\ NPdu(t) = r.n_pdu
    /\ r.valid <=> f.segs # {}
    /\ ~r.valid => r = Cleared
    /\ f.clean /\ f.segs # {} => \E p \in Packets : Exact(r, f, p)

Records == \A u \in Users : Consistent(sndcp[u], run[u]) /\ (sndcp[u].valid => sndcp[u].remain # 0)

\* WillKnow, of the users that are known, the queue and the poll that is next.
Sure(known, q, next, u, k) ==
    \/ u \in known
    \/ \E j \in 1 .. Len(q) : q[j] = u /\ (IF next = "user" THEN j <= k ELSE j < k)

KnownUsers == {u \in Users : Known(u)}

\* A packet that is in time will find its user known.
Waiting ==
    \A k \in 1 .. Len(packetQ) :
        packetQ[k].inTime => Sure(KnownUsers, userQ, pc, User(packetQ[k].seg), k)

IInv == TypeOK /\ Records /\ Waiting /\ Whole /\ UserInTime

-----------------------------------------------------------------------------
(* The operators of the reassembly.                                        *)

\* A packet that is cut in pieces, and not in too many.
LEMMA TwoOrThree ==
    \A n : n \in Nat /\ n >= 2 /\ (n <= 3 \/ ~(n > 3)) => n = 2 \/ n = 3
  OBVIOUS

\* A segment that is the first and the last.
LEMMA OnlyOne ==
    \A i, n : i \in Int /\ n \in Nat /\ i <= n /\ i - 1 = 0 /\ ~(i < n) => i = 1 /\ n = 1
  OBVIOUS

\* The lengths of a packet and their sum.
LEMMA PacketFacts ==
    ASSUME NEW p \in Packets
    PROVE  /\ Len(p.lens) \in Nat \ {0}
           /\ \A i \in 1 .. Len(p.lens) : p.lens[i] \in Nat \ {0}
           /\ p.ip_len # NotIp =>
                 /\ p.ip_len \in Nat
                 /\ Len(p.lens) = 2 => p.ip_len = p.lens[1] + p.lens[2]
                 /\ Len(p.lens) = 3 => p.ip_len = p.lens[1] + p.lens[2] + p.lens[3]
                 /\ Len(p.lens) > 3 => p.ip_len > p.lens[1] + p.lens[2] + p.lens[3]
<1>1. p.lens \in Seq(Nat \ {0}) /\ p.lens # <<>>
  BY PacketsAssumption, Zenon
<1>2. /\ Len(p.lens) \in Nat \ {0}
      /\ \A i \in 1 .. Len(p.lens) : p.lens[i] \in Nat \ {0}
  <2>1. PICK l \in Seq(Nat \ {0}) : l = p.lens
    BY <1>1
  <2>2. /\ Len(l) \in Nat \ {0}
        /\ \A i \in 1 .. Len(l) : l[i] \in Nat \ {0}
    BY <1>1, <2>1
  <2> QED
    BY <2>1, <2>2, Zenon
<1>3. p.ip_len \in Nat \cup {NotIp}
  BY PacketsAssumption, Zenon
<1> QED
  BY <1>2, <1>3, PacketsAssumption, Zenon

\* What is known of a segment.
LEMMA SegmentFacts ==
    ASSUME NEW s \in Segments
    PROVE  /\ s[1] \in Packets /\ s[2] \in 1 .. Len(s[1].lens)
           /\ s = <<s[1], s[2]>>
           /\ User(s) \in Users /\ NPdu(s) \in Nat
           /\ SegLen(s) \in Nat \ {0}
           /\ s # Unused
<1>1. PICK p \in Packets : s \in {p} \X (1 .. Len(p.lens))
  BY DEF Segments
<1>2. s[1] = p /\ s[2] \in 1 .. Len(p.lens) /\ s = <<s[1], s[2]>>
  BY <1>1
<1>3. p.lens \in Seq(Nat \ {0}) /\ p.user \in Users /\ p.n_pdu \in Nat
  BY PacketsAssumption
<1>4. p.lens[s[2]] \in Nat \ {0}
  BY <1>2, <1>3
<1>5. Len(<<s[1], s[2]>>) # Len(Unused)
  BY DEF Unused
<1> QED
  BY <1>1, <1>2, <1>3, <1>4, <1>5 DEF User, NPdu, SegLen

\* A cleared record is a record, and consistent with having been fed nothing.
LEMMA ClearedFacts ==
    Cleared \in RecordType /\ Consistent(Cleared, NoRun)
<1>1. Cleared \in RecordType
  BY DEF Cleared, RecordType
<1>2. ~Cleared.valid /\ NoRun.segs = {} /\ NoRun \in RunType
  BY DEF Cleared, NoRun, RunType
<1> QED
  BY <1>1, <1>2 DEF Consistent

\* Feeding a segment keeps record and history consistent.
LEMMA Feeding ==
    ASSUME NEW r, NEW f, Consistent(r, f),
           NEW s \in Segments, Usable(s)
    PROVE  Consistent(Stored(Begin(r, s), s), RunWith(f, s))
<1> DEFINE b == Begin(r, s)
           r2 == Stored(b, s)
           f2 == RunWith(f, s)
<1>1. /\ s[1] \in Packets /\ s[2] \in 1 .. Len(s[1].lens) /\ s = <<s[1], s[2]>>
      /\ NPdu(s) \in Nat /\ SegLen(s) \in Nat \ {0} /\ s # Unused
  BY SegmentFacts
<1>2. s[2] \in 1 .. 3 /\ SegNo(s) \in 0 .. NrSeg - 1
  <2>1. Len(s[1].lens) \in Nat /\ s[2] \in 1 .. Len(s[1].lens)
    BY <1>1, PacketFacts
  <2>2. ~ (s[2] - 1 >= 3)
    BY Zenon DEF Usable, TooBig, SegNo, NrSeg
  <2>3. s[2] \in 1 .. 3 /\ s[2] - 1 \in 0 .. 3 - 1
    BY <2>1, <2>2
  <2> QED
    BY <2>3 DEF SegNo, NrSeg
<1>3. IsFirst(s) => s[1].ip_len \in Nat
  BY <1>1, PacketsAssumption DEF Usable, HasNoSize, NotIp
<1>4. /\ r.valid /\ r.n_pdu # NPdu(s) =>
            b = [Cleared EXCEPT !.valid = TRUE, !.n_pdu = NPdu(s)]
      /\ ~(r.valid /\ r.n_pdu # NPdu(s)) =>
            b = [r EXCEPT !.valid = TRUE, !.n_pdu = NPdu(s)]
  BY Zenon DEF Begin
<1>5. b \in RecordType /\ b.valid /\ b.n_pdu = NPdu(s)
  BY <1>1, <1>4, ClearedFacts DEF Consistent, RecordType
<1>9. \/ r.valid /\ r.n_pdu = NPdu(s) /\ b.frag = r.frag /\ b.remain = r.remain
      \/ /\ b.frag = Cleared.frag /\ b.remain = 0
         /\ r.valid => r.n_pdu # NPdu(s)
  <2>1. Cleared.remain = 0 /\ Cleared \in RecordType /\ r \in RecordType
    BY ClearedFacts DEF Cleared, Consistent
  <2>2. CASE r.valid /\ r.n_pdu # NPdu(s)
    BY <1>4, <2>1, <2>2 DEF RecordType
  <2>3. CASE ~r.valid
    <3>1. r = Cleared
      BY <2>3 DEF Consistent
    <3> QED
      BY <1>4, <2>1, <2>3, <3>1 DEF RecordType
  <2>4. CASE r.valid /\ r.n_pdu = NPdu(s)
    BY <1>4, <2>1, <2>4 DEF RecordType
  <2> QED
    BY <2>2, <2>3, <2>4
<1>10. /\ r2 \in RecordType /\ r2.valid /\ r2.n_pdu = NPdu(s)
      /\ r2.remain = b.remain + (IF IsFirst(s) THEN s[1].ip_len ELSE 0) - SegLen(s)
      /\ r2.frag = [b.frag EXCEPT ![SegNo(s)] = s]
  <2>1. Remain(b, s) \in Int
    BY <1>1, <1>3, <1>5 DEF Remain, RecordType
  <2>2. r2 = [b EXCEPT !.remain = Remain(b, s), !.frag = [b.frag EXCEPT ![SegNo(s)] = s]]
    BY Zenon DEF Stored
  <2>3. [b.frag EXCEPT ![SegNo(s)] = s] \in [0 .. NrSeg - 1 -> Segments \cup {Unused}]
    BY <1>5 DEF RecordType
  <2> QED
    BY <1>5, <2>1, <2>2, <2>3 DEF RecordType, Remain
<1>6. f2 \in RunType /\ s \in f2.segs
  BY DEF Consistent, RunType, RunWith
<1>7. \A t \in f2.segs : Usable(t) /\ NPdu(t) = NPdu(s)
  BY DEF Consistent, RunWith
<1>8. ASSUME f2.clean
      PROVE  Exact(r2, f2, s[1])
  <2> DEFINE p == s[1]
  <2>0. \A i \in 1 .. 3 :
           r2.frag[i - 1] = IF i = s[2] THEN <<p, i>> ELSE b.frag[i - 1]
    BY <1>1, <1>2, <1>5, <1>10 DEF RecordType, SegNo, NrSeg
  <2>1. CASE r.valid /\ r.n_pdu = NPdu(s) /\ b.frag = r.frag /\ b.remain = r.remain
    <3>1. PICK t \in f.segs : NPdu(t) = NPdu(s)
      BY <2>1 DEF Consistent
    <3>2. /\ f2 = [segs |-> f.segs \cup {s},
                   clean |-> f.clean /\ s \notin f.segs /\ \A u \in f.segs : u[1] = s[1]]
      BY <3>1 DEF RunWith
    <3>3. f2.segs = f.segs \cup {s} /\ f.clean /\ s \notin f.segs /\ \A u \in f.segs : u[1] = p
      <4>1. f2.segs = f.segs \cup {s}
        BY <3>2
      <4> DEFINE c == f.clean /\ s \notin f.segs /\ \A u \in f.segs : u[1] = s[1]
      <4>2. f2.clean = c
        <5> HIDE DEF c, f2
        <5>1. f2 = [segs |-> f.segs \cup {s}, clean |-> c]
          BY Zenon, <3>2 DEF c
        <5> QED
          BY Zenon, <5>1
      <4>3. c
        <5> HIDE DEF c, f2
        <5> QED
          BY Zenon, <1>8, <4>2
      <4> QED
        BY Zenon, <4>1, <4>3
    <3>4. Exact(r, f, p)
      BY <3>1, <3>3 DEF Consistent, Exact
    <3>5. \A i \in 1 .. 3 : <<p, i>> \in f2.segs <=> i = s[2] \/ <<p, i>> \in f.segs
      BY <1>1, <3>3
    <3>6. <<p, s[2]>> \notin f.segs
      BY <1>1, <3>3
    <3>7. \A i \in 1 .. 3 : r2.frag[i - 1] = Slot(f2, p, i)
      BY <2>0, <2>1, <3>4, <3>5 DEF Exact, Slot
    <3>8. r2.remain = Missing(f2, p)
      <4>1. \A i \in 1 .. 3 :
              Taken(f2, p, i) = IF i = s[2] THEN SegLen(s) ELSE Taken(f, p, i)
        BY <1>1, <3>5 DEF Taken, SegLen
      <4>2. \A i \in 1 .. 3 : Taken(f, p, i) \in Nat
        BY SegmentFacts DEF Taken, SegLen, Consistent, RunType
      <4>3. Taken(f, p, s[2]) = 0
        BY <3>6 DEF Taken
      <4>4. <<p, 1>> \in f.segs => p.ip_len \in Nat
        BY SegmentFacts, PacketsAssumption
        DEF Consistent, RunType, Usable, HasNoSize, IsFirst, NotIp
      <4>5. r.remain = (IF <<p, 1>> \in f.segs THEN p.ip_len ELSE 0)
                        - Taken(f, p, 1) - Taken(f, p, 2) - Taken(f, p, 3)
        BY <3>4 DEF Exact, Missing
      <4>a. PICK x \in Nat : x = Taken(f, p, 1)
        BY <4>2
      <4>b. PICK y \in Nat : y = Taken(f, p, 2)
        BY <4>2
      <4>c. PICK z \in Nat : z = Taken(f, p, 3)
        BY <4>2
      <4>d. PICK n \in Nat : n = SegLen(s)
        BY <1>1
      <4>6. CASE s[2] = 1
        <5>1. /\ Missing(f2, p) = p.ip_len - n - y - z /\ p.ip_len \in Nat
              /\ r2.remain = r.remain + p.ip_len - n
          <6>1. <<p, 1>> \in f2.segs /\ IsFirst(s) /\ p.ip_len \in Nat
            BY <1>3, <3>5, <4>6 DEF IsFirst
          <6>2. Taken(f2, p, 1) = n /\ Taken(f2, p, 2) = y /\ Taken(f2, p, 3) = z
            BY <4>1, <4>6, <4>b, <4>c, <4>d
          <6> QED
            BY <1>10, <2>1, <4>d, <6>1, <6>2, Zenon DEF Missing
        <5>2. r.remain = 0 - 0 - y - z
          BY <3>6, <4>3, <4>5, <4>6, <4>b, <4>c
        <5> QED
          BY <5>1, <5>2
      <4>7. CASE s[2] = 2
        <5>1. PICK h \in Nat : h = IF <<p, 1>> \in f.segs THEN p.ip_len ELSE 0
          BY <4>4
        <5>2. /\ Missing(f2, p) = h - x - n - z /\ r2.remain = r.remain + 0 - n
          <6>1. (<<p, 1>> \in f2.segs <=> <<p, 1>> \in f.segs) /\ ~IsFirst(s)
            BY <3>5, <4>7 DEF IsFirst
          <6>2. Taken(f2, p, 1) = x /\ Taken(f2, p, 2) = n /\ Taken(f2, p, 3) = z
            BY <4>1, <4>7, <4>a, <4>b, <4>c, <4>d
          <6> QED
            BY <1>10, <2>1, <4>d, <5>1, <6>1, <6>2, Zenon DEF Missing
        <5>3. r.remain = h - x - 0 - z
          BY <4>3, <4>5, <4>7, <4>a, <4>b, <4>c, <5>1
        <5> QED
          BY <5>2, <5>3
      <4>8. CASE s[2] = 3
        <5>1. PICK h \in Nat : h = IF <<p, 1>> \in f.segs THEN p.ip_len ELSE 0
          BY <4>4
        <5>2. /\ Missing(f2, p) = h - x - y - n /\ r2.remain = r.remain + 0 - n
          <6>1. (<<p, 1>> \in f2.segs <=> <<p, 1>> \in f.segs) /\ ~IsFirst(s)
            BY <3>5, <4>8 DEF IsFirst
          <6>2. Taken(f2, p, 1) = x /\ Taken(f2, p, 2) = y /\ Taken(f2, p, 3) = n
            BY <4>1, <4>8, <4>a, <4>b, <4>c, <4>d
          <6> QED
            BY <1>10, <2>1, <4>d, <5>1, <6>1, <6>2, Zenon DEF Missing
        <5>3. r.remain = h - x - y - 0
          BY <4>3, <4>5, <4>8, <4>a, <4>b, <4>c, <5>1
        <5> QED
          BY <5>2, <5>3
      <4> QED
        BY <1>2, <4>6, <4>7, <4>8
    <3> QED
      BY <3>3, <3>7, <3>8 DEF Exact
  <2>2. CASE /\ b.frag = Cleared.frag /\ b.remain = 0
             /\ r.valid => r.n_pdu # NPdu(s)
    <3>1. \A t \in f.segs : NPdu(t) # NPdu(s)
      BY <2>2 DEF Consistent
    <3>2. f2 = [segs |-> {s}, clean |-> TRUE]
      BY <3>1 DEF RunWith
    <3>3. \A i \in 1 .. 3 : <<p, i>> \in f2.segs <=> i = s[2]
      BY <1>1, <3>2
    <3>4. \A i \in 1 .. 3 : Cleared.frag[i - 1] = Unused
      BY DEF Cleared, NrSeg
    <3>5. \A i \in 1 .. 3 : r2.frag[i - 1] = Slot(f2, p, i)
      BY <2>0, <2>2, <3>3, <3>4 DEF Slot
    <3>6. r2.remain = Missing(f2, p)
      <4>1. \A i \in 1 .. 3 : Taken(f2, p, i) = IF i = s[2] THEN SegLen(s) ELSE 0
        BY <1>1, <3>3 DEF Taken, SegLen
      <4> QED
        BY <1>1, <1>2, <1>3, <1>10, <2>2, <3>3, <4>1 DEF Missing, IsFirst
    <3> QED
      BY <3>2, <3>5, <3>6 DEF Exact
  <2> QED
    BY <1>9, <2>1, <2>2
<1> QED
  BY <1>1, <1>6, <1>7, <1>8, <1>10 DEF Consistent

\* What the segments say of their packet, when there is nothing of another.
LEMMA ExactFacts ==
    ASSUME NEW r, NEW f, Consistent(r, f), f.clean, NEW s \in f.segs,
           NEW p, p = s[1]
    PROVE  /\ p \in Packets /\ Len(p.lens) \in Nat /\ Len(p.lens) >= 2
           /\ Exact(r, f, p)
           /\ s[2] \in 1 .. 3 /\ <<p, s[2]>> \in f.segs
           /\ \A i \in 1 .. 3 :
                /\ Taken(f, p, i) \in Nat
                /\ <<p, i>> \in f.segs => i <= Len(p.lens) /\ Taken(f, p, i) > 0
                /\ i <= Len(p.lens) => p.lens[i] \in Nat \ {0}
           /\ <<p, 1>> \in f.segs => p.ip_len # NotIp
<1>1. f.segs \subseteq Segments /\ s \in Segments /\ Usable(s)
  BY DEF Consistent, RunType
<1>2. p \in Packets /\ s[2] \in 1 .. Len(p.lens) /\ s = <<p, s[2]>>
  BY <1>1, SegmentFacts
<1>3. p.lens \in Seq(Nat \ {0})
  BY <1>2, PacketsAssumption
<1>4. Len(p.lens) \in Nat /\ Len(p.lens) >= 2
  <2>1. Len(p.lens) \in Nat
    BY <1>3
  <2>2. s[2] - 1 # 0 \/ s[2] < Len(p.lens)
    BY <1>1 DEF Usable, IsSegment, IsMore, SegNo
  <2>3. s[2] \in Int /\ s[2] >= 1 /\ s[2] <= Len(p.lens)
    BY <1>2, <2>1
  <2> QED
    BY <2>1, <2>2, <2>3
<1>5. Exact(r, f, p)
  BY DEF Consistent, Exact
<1>6. s[2] \in 1 .. 3
  BY <1>1, <1>2, <1>3 DEF Usable, TooBig, SegNo, NrSeg
<1>7. ASSUME NEW i \in 1 .. 3
      PROVE  /\ <<p, i>> \in f.segs => i <= Len(p.lens) /\ p.lens[i] \in Nat \ {0}
             /\ i <= Len(p.lens) => p.lens[i] \in Nat \ {0}
  <2>1. i <= Len(p.lens) => p.lens[i] \in Nat \ {0}
    BY <1>3
  <2>2. <<p, i>> \in f.segs => i \in 1 .. Len(p.lens)
    BY <1>1, SegmentFacts
  <2> QED
    BY <1>3, <2>1, <2>2
<1>8. <<p, 1>> \in f.segs => p.ip_len # NotIp
  BY DEF Consistent, Usable, HasNoSize, IsFirst
<1> QED
  BY <1>2, <1>4, <1>5, <1>6, <1>7, <1>8 DEF Taken

\* When nothing is missing, what is gathered is the packet.
LEMMA Finishing ==
    ASSUME NEW r, NEW f, Consistent(r, f), f.clean, NEW s \in f.segs,
           r.remain = 0
    PROVE  Gathered(r.frag) = SegmentsOf(s[1])
<1> DEFINE p == s[1]
<1>1. /\ p \in Packets /\ Len(p.lens) \in Nat /\ Len(p.lens) >= 2
      /\ Exact(r, f, p)
      /\ s[2] \in 1 .. 3 /\ <<p, s[2]>> \in f.segs
      /\ \A i \in 1 .. 3 :
           /\ Taken(f, p, i) \in Nat
           /\ <<p, i>> \in f.segs => i <= Len(p.lens) /\ Taken(f, p, i) > 0
           /\ i <= Len(p.lens) => p.lens[i] \in Nat \ {0}
      /\ <<p, 1>> \in f.segs => p.ip_len # NotIp
  BY ExactFacts
<1>2. (IF <<p, 1>> \in f.segs THEN p.ip_len ELSE 0)
        = Taken(f, p, 1) + Taken(f, p, 2) + Taken(f, p, 3)
  <2>1. <<p, 1>> \in f.segs => p.ip_len \in Nat
    BY <1>1, PacketsAssumption
  <2>2. Taken(f, p, 1) \in Nat /\ Taken(f, p, 2) \in Nat /\ Taken(f, p, 3) \in Nat
    BY <1>1
  <2>3. 0 = (IF <<p, 1>> \in f.segs THEN p.ip_len ELSE 0)
              - Taken(f, p, 1) - Taken(f, p, 2) - Taken(f, p, 3)
    BY <1>1 DEF Exact, Missing
  <2> DEFINE x == IF <<p, 1>> \in f.segs THEN p.ip_len ELSE 0
             y == Taken(f, p, 1)
             z == Taken(f, p, 2)
             w == Taken(f, p, 3)
  <2>4. x \in Int /\ y \in Nat /\ z \in Nat /\ w \in Nat /\ 0 = x - y - z - w
    BY <2>1, <2>2, <2>3
  <2>5. x = y + z + w
    <3> HIDE DEF x, y, z, w
    <3> QED
      BY <2>4
  <2> QED
    BY <2>5
<1>3. <<p, 1>> \in f.segs
  BY <1>1, <1>2
<1>4. \A i \in 1 .. 3 : Taken(f, p, i) = IF <<p, i>> \in f.segs THEN p.lens[i] ELSE 0
  BY DEF Taken
<1>s. p.ip_len # NotIp
  BY <1>1, <1>3, Zenon
<1>5. Len(p.lens) = 2 => p.ip_len = p.lens[1] + p.lens[2]
  BY <1>1, <1>s, PacketFacts, Zenon
<1>6. Len(p.lens) = 3 => p.ip_len = p.lens[1] + p.lens[2] + p.lens[3]
  BY <1>1, <1>s, PacketFacts, Zenon
<1>7. Len(p.lens) > 3 => p.ip_len > p.lens[1] + p.lens[2] + p.lens[3]
  BY <1>1, <1>s, PacketFacts, Zenon
<1>8. \A i \in 1 .. 3 : <<p, i>> # Unused
  <2>1. \A i \in 1 .. 3 : Len(<<p, i>>) # Len(Unused)
    BY DEF Unused
  <2> QED
    BY <2>1
<1>9. r.frag[0] = <<p, 1>>
  BY <1>1, <1>3 DEF Exact, Slot
<1>10. CASE Len(p.lens) = 2
  <2>1. <<p, 2>> \in f.segs /\ <<p, 3>> \notin f.segs
    BY <1>1, <1>2, <1>3, <1>4, <1>5, <1>10
  <2>2. r.frag[1] = <<p, 2>> /\ r.frag[2] = Unused
    BY <1>1, <2>1 DEF Exact, Slot
  <2>3. Gathered(r.frag) = <<<<p, 1>>, <<p, 2>>>>
    BY <1>8, <1>9, <2>2 DEF Gathered
  <2> QED
    BY <1>10, <2>3 DEF SegmentsOf
<1>11. CASE Len(p.lens) = 3
  <2>1. <<p, 2>> \in f.segs /\ <<p, 3>> \in f.segs
    BY <1>1, <1>2, <1>3, <1>4, <1>6, <1>11
  <2>2. r.frag[1] = <<p, 2>> /\ r.frag[2] = <<p, 3>>
    BY <1>1, <2>1 DEF Exact, Slot
  <2>3. Gathered(r.frag) = <<<<p, 1>>, <<p, 2>>, <<p, 3>>>>
    BY <1>8, <1>9, <2>2 DEF Gathered
  <2> QED
    BY <1>11, <2>3 DEF SegmentsOf
<1>12. ~(Len(p.lens) > 3)
  <2> SUFFICES ASSUME Len(p.lens) > 3 PROVE FALSE
    OBVIOUS
  <2>1. ASSUME NEW i \in 1 .. 3
        PROVE  p.lens[i] \in Nat \ {0} /\ Taken(f, p, i) <= p.lens[i]
    <3>1. i <= Len(p.lens)
      BY <1>1
    <3>2. p.lens[i] \in Nat \ {0}
      BY <1>1, <3>1, Zenon
    <3>3. Taken(f, p, i) = p.lens[i] \/ Taken(f, p, i) = 0
      BY <1>4, Zenon
    <3> QED
      BY <3>2, <3>3
  <2>2. p.ip_len = Taken(f, p, 1) + Taken(f, p, 2) + Taken(f, p, 3)
    BY <1>2, <1>3
  <2>3. p.ip_len > p.lens[1] + p.lens[2] + p.lens[3]
    BY <1>7
  <2> DEFINE A(i) == Taken(f, p, i)
             l(i) == p.lens[i]
  <2>4. /\ l(1) \in Nat /\ l(2) \in Nat /\ l(3) \in Nat
        /\ A(1) \in Nat /\ A(2) \in Nat /\ A(3) \in Nat
        /\ A(1) <= l(1) /\ A(2) <= l(2) /\ A(3) <= l(3)
        /\ A(1) + A(2) + A(3) > l(1) + l(2) + l(3)
    <3>1. 1 \in 1 .. 3 /\ 2 \in 1 .. 3 /\ 3 \in 1 .. 3
      OBVIOUS
    <3>2. \A i \in 1 .. 3 : l(i) \in Nat \ {0} /\ A(i) \in Nat /\ A(i) <= l(i)
      BY <1>1, <2>1, Zenon
    <3>3. A(1) + A(2) + A(3) > l(1) + l(2) + l(3)
      BY <2>2, <2>3, Zenon
    <3> HIDE DEF A, l
    <3> QED
      BY <3>1, <3>2, <3>3
  <2> QED
    <3> HIDE DEF A, l
    <3> QED
      BY <2>4
<1>13. Len(p.lens) \in Nat /\ Len(p.lens) >= 2
  BY <1>1
<1>14. Len(p.lens) = 2 \/ Len(p.lens) = 3
  BY <1>12, <1>13, TwoOrThree
<1> QED
  BY <1>10, <1>11, <1>14

\* When something is missing, some segment has not come.
LEMMA NotAll ==
    ASSUME NEW r, NEW f, Consistent(r, f), f.clean, NEW s \in f.segs,
           r.remain # 0
    PROVE  f.segs # {s[1]} \X (1 .. Len(s[1].lens))
<1>0. PICK p : p = s[1]
  OBVIOUS
<1>1. /\ p \in Packets /\ Len(p.lens) \in Nat /\ Len(p.lens) >= 2
      /\ Exact(r, f, p)
      /\ \A i \in 1 .. 3 : i <= Len(p.lens) => p.lens[i] \in Nat \ {0}
      /\ <<p, 1>> \in f.segs => p.ip_len # NotIp
  BY <1>0, ExactFacts, Zenon
<1> SUFFICES ASSUME f.segs = {p} \X (1 .. Len(p.lens)) PROVE FALSE
  BY <1>0
<1>2. \A i \in 1 .. 3 : <<p, i>> \in f.segs <=> i <= Len(p.lens)
  BY <1>1
<1>3. Len(p.lens) <= 3
  <2>1. \A t \in f.segs : t[2] <= 3
    <3>1. ASSUME NEW t \in f.segs PROVE t[2] <= 3
      <4>1. t \in Segments /\ Usable(t)
        BY Zenon, f \in RunType, f.segs \subseteq Segments DEF Consistent, RunType
      <4>2. Len(t[1].lens) \in Nat /\ t[2] \in 1 .. Len(t[1].lens)
        BY <4>1, SegmentFacts, PacketFacts
      <4>3. ~ (t[2] - 1 >= 3)
        BY <4>1, Zenon DEF Usable, TooBig, SegNo, NrSeg
      <4> QED
        BY <4>2, <4>3
    <3> QED
      BY <3>1
  <2>2. <<p, Len(p.lens)>> \in f.segs
    BY <1>1
  <2> QED
    BY <2>1, <2>2
<1>4. r.remain = p.ip_len - Taken(f, p, 1) - Taken(f, p, 2) - Taken(f, p, 3)
  BY <1>1, <1>2 DEF Exact, Missing
<1>s. p.ip_len # NotIp
  <2>1. 1 \in 1 .. 3 /\ 1 <= Len(p.lens)
    BY <1>1
  <2> QED
    BY <1>1, <1>2, <2>1, Zenon
<1>5. Len(p.lens) = 2 => p.ip_len = p.lens[1] + p.lens[2]
  BY <1>1, <1>s, PacketFacts, Zenon
<1>6. Len(p.lens) = 3 => p.ip_len = p.lens[1] + p.lens[2] + p.lens[3]
  BY <1>1, <1>s, PacketFacts, Zenon
<1>7. \A i \in 1 .. 3 : Taken(f, p, i) = IF i <= Len(p.lens) THEN p.lens[i] ELSE 0
  BY <1>2 DEF Taken
<1>8. r.remain = 0
  <2>1. Len(p.lens) = 2 \/ Len(p.lens) = 3
    <3>1. Len(p.lens) \in Nat /\ Len(p.lens) >= 2
      BY <1>1
    <3> QED
      BY <1>3, <3>1, TwoOrThree
  <2>2. CASE Len(p.lens) = 2
    <3>1. /\ Taken(f, p, 1) = p.lens[1] /\ Taken(f, p, 2) = p.lens[2] /\ Taken(f, p, 3) = 0
          /\ p.lens[1] \in Nat /\ p.lens[2] \in Nat
      BY <1>1, <1>7, <2>2
    <3> QED
      BY <1>4, <1>5, <2>2, <3>1
  <2>3. CASE Len(p.lens) = 3
    <3>1. /\ Taken(f, p, 1) = p.lens[1] /\ Taken(f, p, 2) = p.lens[2]
          /\ Taken(f, p, 3) = p.lens[3]
          /\ p.lens[1] \in Nat /\ p.lens[2] \in Nat /\ p.lens[3] \in Nat
      BY <1>1, <1>7, <2>3
    <3> QED
      BY <1>4, <1>6, <2>3, <3>1
  <2> QED
    BY <2>1, <2>2, <2>3
<1> QED
  BY <1>8

-----------------------------------------------------------------------------
(* The invariant.                                                          *)

\* The packet that is taken.
LEMMA HeadFacts ==
    ASSUME TypeOK, packetQ # <<>>
    PROVE  /\ Head(packetQ) = packetQ[1] /\ 1 \in 1 .. Len(packetQ)
           /\ Head(packetQ).seg \in Segments
           /\ Head(packetQ).inTime \in BOOLEAN
           /\ Tail(packetQ) \in Seq([seg : Segments, inTime : BOOLEAN])
           /\ Len(Tail(packetQ)) = Len(packetQ) - 1
           /\ \A k \in 1 .. Len(Tail(packetQ)) :
                 k + 1 \in 1 .. Len(packetQ) /\ Tail(packetQ)[k] = packetQ[k + 1]
<1> DEFINE T == [seg : Segments, inTime : BOOLEAN]
<1>1. packetQ \in Seq(T)
  BY DEF TypeOK
<1>2. /\ Head(packetQ) \in T /\ Tail(packetQ) \in Seq(T)
      /\ Len(Tail(packetQ)) = Len(packetQ) - 1
      /\ \A k \in 1 .. Len(Tail(packetQ)) : Tail(packetQ)[k] = packetQ[k + 1]
  <2> HIDE DEF T
  <2> QED
    BY <1>1, HeadTailProperties
<1>3. Len(packetQ) \in Nat \ {0} /\ Head(packetQ) = packetQ[1]
  <2> HIDE DEF T
  <2> QED
    BY <1>1
<1>4. \A k \in 1 .. Len(Tail(packetQ)) : k + 1 \in 1 .. Len(packetQ)
  BY <1>2, <1>3
<1> QED
  BY <1>2, <1>3, <1>4

\* Users that are known stay known; those looked up are at least empty.
LEMMA UsersStep ==
    ASSUME TypeOK, [Next]_vars
    PROVE  /\ users' \in [Users -> {"absent", "empty", "known"}]
           /\ \A u \in Users : Known(u) => Known(u)'
<1>1. ASSUME NEW u \in Users, PutUser(u)
      PROVE  users' = users
  BY <1>1 DEF PutUser
<1>2. ASSUME NEW s \in Segments, PutPacket(s)
      PROVE  users' = users
  BY <1>2 DEF PutPacket
<1>3. ASSUME PollUser
      PROVE  users' = [users EXCEPT ![Head(userQ)] = "known"]
  BY <1>3 DEF PollUser
<1>4. ASSUME PollNoUser \/ PollNoPacket \/ UNCHANGED vars
      PROVE  users' = users
  BY <1>4 DEF PollNoUser, PollNoPacket, HandsOnNothing, vars
<1>5. ASSUME PollPacket
      PROVE  \/ users' = users
             \/ \E u \in Users :
                  users' = [users EXCEPT ![u] = IF @ = "absent" THEN "empty" ELSE @]
  <2>1. Head(packetQ).seg \in Segments
    BY <1>5, HeadFacts DEF PollPacket, Take
  <2>2. User(Head(packetQ).seg) \in Users
    BY <2>1, SegmentFacts
  <2> QED
    BY <1>5, <2>2 DEF PollPacket, Parse, Refuse, Unsegmented, GiveUp, Reassemble,
         HandOn, HandsOnNothing
<1> QED
  BY <1>1, <1>2, <1>3, <1>4, <1>5 DEF Next, Loop, TypeOK, Known

\* What Sure promises is kept when the queue grows, ...
LEMMA SureAppend ==
    ASSUME NEW known, NEW q \in Seq(Users), NEW v \in Users, NEW next, NEW u, NEW k,
           Sure(known, q, next, u, k)
    PROVE  Sure(known, Append(q, v), next, u, k)
<1>1. \A j \in 1 .. Len(q) : j \in 1 .. Len(Append(q, v)) /\ Append(q, v)[j] = q[j]
  OBVIOUS
<1> QED
  BY <1>1 DEF Sure

\* ... when its first user becomes known, ...
LEMMA SureTail ==
    ASSUME NEW known, NEW q \in Seq(Users), q # <<>>, NEW u, NEW k \in Nat,
           Sure(known, q, "user", u, k)
    PROVE  Sure(known \cup {Head(q)}, Tail(q), "packet", u, k)
<1>1. CASE u \in known
  BY <1>1 DEF Sure
<1>2. ASSUME NEW j \in 1 .. Len(q), q[j] = u, j <= k
      PROVE  Sure(known \cup {Head(q)}, Tail(q), "packet", u, k)
  <2>1. CASE j = 1
    BY <1>2, <2>1 DEF Sure
  <2>2. CASE j # 1
    <3>1. j - 1 \in 1 .. Len(Tail(q)) /\ Tail(q)[j - 1] = q[j] /\ j - 1 < k
      <4>1. Len(q) \in Nat /\ Len(Tail(q)) = Len(q) - 1
        BY HeadTailProperties
      <4>2. j - 1 \in 1 .. Len(Tail(q)) /\ j - 1 < k
        BY <1>2, <2>2, <4>1
      <4>3. Tail(q)[j - 1] = q[(j - 1) + 1]
        BY <4>2, HeadTailProperties
      <4> QED
        BY <4>2, <4>3
    <3> QED
      BY <1>2, <3>1 DEF Sure
  <2> QED
    BY <2>1, <2>2
<1> QED
  BY <1>1, <1>2 DEF Sure

\* ... when the packet in front is taken, ...
LEMMA SureNext ==
    ASSUME NEW known, NEW q \in Seq(Users), NEW u, NEW k \in Nat,
           Sure(known, q, "packet", u, k + 1)
    PROVE  Sure(known, q, "user", u, k)
  BY DEF Sure

\* ... and when more is known; an empty queue promises what is known.
LEMMA SureKnown ==
    ASSUME NEW known, NEW more, known \subseteq more, NEW q, NEW next, NEW u, NEW k,
           Sure(known, q, next, u, k)
    PROVE  /\ Sure(more, q, next, u, k)
           /\ q = <<>> => u \in known
           /\ q \in Seq(Users) /\ next = "packet" /\ k = 1 => u \in known
  BY DEF Sure

\* What is promised to a waiting packet is kept by every step.
LEMMA WaitingStep ==
    ASSUME TypeOK, Waiting, [Next]_vars
    PROVE  Waiting'
<1>0. KnownUsers \subseteq KnownUsers'
  BY UsersStep DEF KnownUsers
<1>t. /\ userQ \in Seq(Users)
      /\ packetQ \in Seq([seg : Segments, inTime : BOOLEAN])
      /\ \A k \in 1 .. Len(packetQ) : k \in Nat
  BY DEF TypeOK
<1>1. ASSUME NEW u \in Users, PutUser(u)
      PROVE  Waiting'
  <2>1. pc' = pc /\ packetQ' = packetQ /\ userQ' = Append(userQ, u)
    BY <1>1 DEF PutUser
  <2>2. \A v, k : Sure(KnownUsers, userQ, pc, v, k) => Sure(KnownUsers', userQ', pc', v, k)
    <3>1. \A v, k : Sure(KnownUsers, userQ, pc, v, k) => Sure(KnownUsers, userQ', pc, v, k)
      BY <1>t, <2>1, SureAppend, Zenon
    <3>2. \A v, k : Sure(KnownUsers, userQ', pc, v, k) => Sure(KnownUsers', userQ', pc, v, k)
      BY <1>0, SureKnown, Zenon
    <3> QED
      BY <3>1, <3>2, <2>1, Zenon
  <2> QED
    BY <2>1, <2>2 DEF Waiting
<1>2. ASSUME NEW s \in Segments, PutPacket(s)
      PROVE  Waiting'
  <2> DEFINE item == [seg |-> s, inTime |-> WillKnow(User(s), Len(packetQ) + 1)]
  <2>1. /\ pc' = pc /\ userQ' = userQ /\ users' = users
        /\ packetQ' = Append(packetQ, item)
    BY <1>2 DEF PutPacket
  <2>2. \A v, k : Sure(KnownUsers, userQ, pc, v, k) => Sure(KnownUsers', userQ', pc', v, k)
    BY <1>0, <2>1, SureKnown
  <2>3. item.inTime => Sure(KnownUsers, userQ, pc, User(item.seg), Len(packetQ) + 1)
    <3>1. WillKnow(User(s), Len(packetQ) + 1)
            => Sure(KnownUsers, userQ, pc, User(s), Len(packetQ) + 1)
      <4>1. User(s) \in Users
        BY SegmentFacts
      <4> QED
        BY <4>1 DEF WillKnow, Sure, KnownUsers
    <3> QED
      BY <3>1
  <2>4. \A k \in 1 .. Len(packetQ') :
          \/ k \in 1 .. Len(packetQ) /\ packetQ'[k] = packetQ[k]
          \/ k = Len(packetQ) + 1 /\ packetQ'[k] = item
    <3> HIDE DEF item
    <3> QED
      BY <1>t, <2>1, AppendProperties
  <2> HIDE DEF item
  <2> QED
    BY <2>2, <2>3, <2>4 DEF Waiting
<1>3. CASE PollUser
  <2>1. /\ pc = "user" /\ pc' = "packet" /\ userQ # <<>> /\ userQ' = Tail(userQ)
        /\ packetQ' = packetQ
        /\ users' = [users EXCEPT ![Head(userQ)] = "known"]
    BY <1>3 DEF PollUser, UserQAfter
  <2>2. Head(userQ) \in Users
    BY <1>t, <2>1, HeadTailProperties
  <2>3. KnownUsers \cup {Head(userQ)} \subseteq KnownUsers'
    BY <1>0, <2>1, <2>2 DEF KnownUsers, Known, TypeOK
  <2>4. \A v : \A k \in Nat :
          Sure(KnownUsers, userQ, pc, v, k) => Sure(KnownUsers', userQ', pc', v, k)
    <3> DEFINE more == KnownUsers \cup {Head(userQ)}
    <3>1. \A v : \A k \in Nat :
            Sure(KnownUsers, userQ, "user", v, k) => Sure(more, Tail(userQ), "packet", v, k)
      BY <1>t, <2>1, SureTail, Zenon
    <3> HIDE DEF more
    <3>2. \A v, k : Sure(more, Tail(userQ), "packet", v, k)
                      => Sure(KnownUsers', Tail(userQ), "packet", v, k)
      BY <2>3, SureKnown, Zenon DEF more
    <3> QED
      BY <2>1, <3>1, <3>2, Zenon
  <2> QED
    BY <1>t, <2>1, <2>4 DEF Waiting
<1>4. CASE PollNoUser
  <2>1. packetQ' = packetQ /\ userQ = <<>>
    BY <1>4 DEF PollNoUser, queues
  <2>2. \A v, k : Sure(KnownUsers, userQ, pc, v, k) => Sure(KnownUsers', userQ', pc', v, k)
    BY <1>0, <2>1, SureKnown DEF Sure
  <2> QED
    BY <2>1, <2>2 DEF Waiting
<1>5. CASE PollPacket
  <2>1. /\ pc = "packet" /\ pc' = "user" /\ packetQ # <<>>
        /\ packetQ' = Tail(packetQ) /\ userQ' = userQ
    BY <1>5 DEF PollPacket, Take
  <2>2. \A v : \A k \in Nat :
          Sure(KnownUsers, userQ, pc, v, k + 1) => Sure(KnownUsers', userQ', pc', v, k)
    BY <1>0, <1>t, <2>1, SureNext, SureKnown
  <2>3. \A k \in 1 .. Len(packetQ') :
          k \in Nat /\ k + 1 \in 1 .. Len(packetQ) /\ packetQ'[k] = packetQ[k + 1]
    BY <2>1, HeadFacts
  <2> QED
    BY <2>2, <2>3 DEF Waiting
<1>6. CASE PollNoPacket
  BY <1>6 DEF PollNoPacket, queues, Waiting
<1>7. CASE UNCHANGED vars
  <2>1. KnownUsers' = KnownUsers
    BY <1>7 DEF vars, KnownUsers, Known
  <2> QED
    BY <1>7, <2>1 DEF vars, queues, Waiting
<1> QED
  BY <1>1, <1>2, <1>3, <1>4, <1>5, <1>6, <1>7 DEF Next, Loop

\* The segments of a packet are a sequence that names the packet.
LEMMA SegmentsOfFacts ==
    ASSUME NEW p \in Packets
    PROVE  /\ SegmentsOf(p) \in Seq(Segments)
           /\ SegmentsOf(p)[1][1] = p
<1>1. Len(p.lens) \in Nat /\ Len(p.lens) # 0
  BY PacketsAssumption
<1>2. \A i \in 1 .. Len(p.lens) : <<p, i>> \in Segments
  BY DEF Segments
<1>3. SegmentsOf(p)[1] = <<p, 1>>
  BY <1>1 DEF SegmentsOf
<1> QED
  BY <1>1, <1>2, <1>3 DEF SegmentsOf

\* What is gathered is a sequence of segments.
LEMMA GatheredType ==
    ASSUME NEW frag \in [0 .. NrSeg - 1 -> Segments \cup {Unused}]
    PROVE  Gathered(frag) \in Seq(Segments)
<1>1. \A k \in 0 .. 2 : frag[k] # Unused => frag[k] \in Segments
  BY DEF NrSeg
<1>2. CASE frag[0] = Unused
  BY <1>2 DEF Gathered
<1>3. CASE frag[0] # Unused /\ frag[1] = Unused
  BY <1>1, <1>3 DEF Gathered
<1>4. CASE frag[0] # Unused /\ frag[1] # Unused /\ frag[2] = Unused
  BY <1>1, <1>4 DEF Gathered
<1>5. CASE frag[0] # Unused /\ frag[1] # Unused /\ frag[2] # Unused
  BY <1>1, <1>5 DEF Gathered
<1> QED
  BY <1>2, <1>3, <1>4, <1>5

\* A step that leaves the records alone.
LEMMA RecordsSame == Records /\ UNCHANGED <<sndcp, run>> => Records'
  BY DEF Records

\* A record that is cleared keeps the others.
LEMMA RecordsClear ==
    ASSUME Records, TypeOK, NEW u \in Users, Clear(u)
    PROVE  Records'
<1>1. /\ sndcp' = [sndcp EXCEPT ![u] = Cleared]
      /\ run' = [run EXCEPT ![u] = NoRun]
  BY DEF Clear
<1>2. \A v \in Users :
        \/ sndcp'[v] = Cleared /\ run'[v] = NoRun
        \/ sndcp'[v] = sndcp[v] /\ run'[v] = run[v]
  BY <1>1 DEF TypeOK
<1>3. ~Cleared.valid
  BY DEF Cleared
<1> QED
  BY <1>2, <1>3, ClearedFacts DEF Records

\* What a poll of a packet does to the records and hands on.
LEMMA ParseFacts ==
    ASSUME Records, TypeOK, NEW s \in Segments, Parse(s)
    PROVE  /\ Records'
           /\ \/ handed' = Nothing
              \/ \E segs \in Seq(Segments), c \in BOOLEAN :
                    /\ HandOn(s, segs, c)
                    /\ c => segs = SegmentsOf(s[1])
<1>0. /\ s[1] \in Packets /\ s[2] \in 1 .. Len(s[1].lens) /\ s = <<s[1], s[2]>>
      /\ User(s) \in Users
  BY SegmentFacts
<1>1. CASE Refuse(s)
  BY <1>1, RecordsSame DEF Refuse, HandsOnNothing
<1>2. CASE Unsegmented(s)
  <2>1. Len(s[1].lens) \in Nat
    BY <1>0, PacketsAssumption
  <2>2. s[2] \in Int /\ s[2] >= 1 /\ s[2] <= Len(s[1].lens)
    BY <1>0, <2>1
  <2>3. s[2] - 1 = 0 /\ ~(s[2] < Len(s[1].lens))
    BY <1>2 DEF Unsegmented, IsSegment, IsMore, SegNo
  <2>4. s[2] = 1 /\ Len(s[1].lens) = 1
    BY <2>1, <2>2, <2>3, OnlyOne
  <2>5. <<s>> = SegmentsOf(s[1])
    BY <1>0, <2>4 DEF SegmentsOf
  <2>6. HandOn(s, <<s>>, TRUE) /\ Records'
    BY <1>2, RecordsSame DEF Unsegmented
  <2>7. <<s>> \in Seq(Segments)
    OBVIOUS
  <2> QED
    BY Zenon, <2>5, <2>6, <2>7
<1>3. CASE GiveUp(s)
  BY <1>0, <1>3, RecordsClear DEF GiveUp, HandsOnNothing
<1>4. CASE Reassemble(s)
  <2> DEFINE u == User(s)
             r == Stored(Begin(sndcp[u], s), s)
             f == RunWith(run[u], s)
  <2>1. Consistent(r, f)
    <3>1. Usable(s)
      BY <1>4 DEF Reassemble, Usable
    <3>2. Consistent(sndcp[u], run[u])
      BY <1>0 DEF Records
    <3> QED
      BY <3>1, <3>2, Feeding
  <2>2. s \in f.segs
    BY DEF RunWith
  <2>3. CASE r.remain = 0
    <3>1. Clear(u) /\ HandOn(s, Gathered(r.frag), f.clean)
      BY <1>4, <2>3 DEF Reassemble
    <3>2. f.clean \in BOOLEAN
      BY <2>1 DEF Consistent, RunType
    <3>3. Gathered(r.frag) \in Seq(Segments)
      BY <2>1, GatheredType DEF Consistent, RecordType
    <3>4. f.clean => Gathered(r.frag) = SegmentsOf(s[1])
      BY <2>1, <2>2, <2>3, Finishing
    <3>5. Records'
      BY <1>0, <3>1, RecordsClear
    <3> HIDE DEF r, f, u
    <3> QED
      BY Zenon, <3>1, <3>2, <3>3, <3>4, <3>5
  <2>4. CASE r.remain # 0
    <3>1. /\ sndcp' = [sndcp EXCEPT ![u] = r] /\ run' = [run EXCEPT ![u] = f]
          /\ handed' = Nothing
      BY <1>4, <2>4 DEF Reassemble, HandsOnNothing
    <3>2. \A v \in Users :
            \/ sndcp'[v] = r /\ run'[v] = f
            \/ sndcp'[v] = sndcp[v] /\ run'[v] = run[v]
      BY <3>1 DEF TypeOK
    <3> HIDE DEF r, f
    <3> QED
      BY <2>1, <2>4, <3>1, <3>2 DEF Records
  <2> QED
    BY <2>3, <2>4
<1> QED
  BY <1>1, <1>2, <1>3, <1>4 DEF Parse

\* Every step keeps the records, Whole and UserInTime.
LEMMA RecordsStep ==
    ASSUME IInv, [Next]_vars
    PROVE  Records' /\ Whole' /\ UserInTime'
<1> USE DEF IInv
<1>1. ASSUME UNCHANGED <<sndcp, run, handed>>
      PROVE  Records' /\ Whole' /\ UserInTime'
  BY <1>1, RecordsSame DEF Whole, UserInTime
<1>2. ASSUME UNCHANGED <<sndcp, run>>, handed' = Nothing
      PROVE  Records' /\ Whole' /\ UserInTime'
  BY <1>2, RecordsSame DEF Whole, UserInTime
<1>3. CASE PollPacket
  <2> DEFINE s == Head(packetQ).seg
  <2>1. pc = "packet" /\ packetQ # <<>> /\ s \in Segments /\ Parse(s)
    BY <1>3, HeadFacts DEF PollPacket, Take
  <2>2. CASE handed' = Nothing
    BY <2>1, <2>2, ParseFacts DEF Whole, UserInTime
  <2>3. ASSUME NEW segs \in Seq(Segments), NEW c \in BOOLEAN, HandOn(s, segs, c),
               c => segs = SegmentsOf(s[1])
        PROVE  Whole' /\ UserInTime'
    <3>1. handed' = [segs |-> segs, known |-> Known(User(s)),
                     inTime |-> Head(packetQ).inTime, clean |-> c]
      BY <2>3 DEF HandOn
    <3>2. s[1] \in Packets /\ User(s) \in Users
      BY <2>1, SegmentFacts
    <3>3. c => segs = SegmentsOf(segs[1][1])
      BY <2>3, <3>2, SegmentsOfFacts
    <3>4. Head(packetQ).inTime => Known(User(s))
      <4>1. Head(packetQ).inTime => Sure(KnownUsers, userQ, "packet", User(s), 1)
        BY <2>1, HeadFacts DEF Waiting
      <4>2. KnownUsers \subseteq KnownUsers /\ userQ \in Seq(Users)
        BY DEF TypeOK
      <4> QED
        BY <4>1, <4>2, SureKnown DEF KnownUsers
    <3>5. handed'.segs = segs /\ handed'.clean = c
      BY <3>1
    <3>6. handed'.inTime = Head(packetQ).inTime /\ handed'.known = Known(User(s))
      <4> HIDE DEF s
      <4> QED
        BY Zenon, <3>1
    <3>7. Whole'
      BY <3>3, <3>5 DEF Whole
    <3>8. UserInTime'
      BY Zenon, <3>4, <3>6 DEF UserInTime
    <3> QED
      BY <3>7, <3>8
  <2> QED
    BY <2>1, <2>2, <2>3, ParseFacts
<1> QED
  BY <1>1, <1>2, <1>3
  DEF Next, Loop, PutUser, PutPacket, PollUser, PollNoUser, PollNoPacket,
      HandsOnNothing, vars

\* A poll of a packet keeps the types of what it assigns.
LEMMA ParseType ==
    ASSUME Records, TypeOK, packetQ # <<>>, Parse(Head(packetQ).seg)
    PROVE  /\ sndcp' \in [Users -> RecordType] /\ run' \in [Users -> RunType]
           /\ handed' = Nothing \/
              handed' \in [segs : Seq(Segments), known : BOOLEAN, inTime : BOOLEAN,
                           clean : BOOLEAN]
<1> DEFINE s == Head(packetQ).seg
           u == User(s)
<1>1. s \in Segments /\ u \in Users /\ Head(packetQ).inTime \in BOOLEAN
  BY HeadFacts, SegmentFacts
<1>2. sndcp \in [Users -> RecordType] /\ run \in [Users -> RunType]
  BY DEF TypeOK, RecordType, RunType
<1>3. /\ sndcp' = sndcp \/ \E r : sndcp' = [sndcp EXCEPT ![u] = r]
      /\ run' = run \/ \E f : run' = [run EXCEPT ![u] = f]
  <2> HIDE DEF s
  <2>1. Parse(s)
    BY DEF s
  <2> QED
    BY <2>1 DEF Parse, Refuse, Unsegmented, GiveUp, Reassemble, Clear
<1>4. \A v \in Users : sndcp'[v] \in RecordType /\ run'[v] \in RunType
  <2>1. Records'
    BY <1>1, ParseFacts
  <2> QED
    BY <2>1 DEF Records, Consistent
<1>5. sndcp' \in [Users -> RecordType] /\ run' \in [Users -> RunType]
  <2> HIDE DEF u
  <2>1. /\ DOMAIN sndcp' = Users /\ sndcp' = [v \in Users |-> sndcp'[v]]
        /\ DOMAIN run' = Users /\ run' = [v \in Users |-> run'[v]]
    BY <1>2, <1>3
  <2> QED
    BY <1>4, <2>1
<1>6. ASSUME NEW segs \in Seq(Segments), NEW c \in BOOLEAN, HandOn(s, segs, c)
      PROVE  handed' \in [segs : Seq(Segments), known : BOOLEAN, inTime : BOOLEAN,
                          clean : BOOLEAN]
  <2> DEFINE k == Known(u)
             t == Head(packetQ).inTime
  <2>1. handed' = [segs |-> segs, known |-> k, inTime |-> t, clean |-> c]
    BY Zenon, <1>6 DEF HandOn
  <2>2. k \in BOOLEAN
    BY DEF Known
  <2>3. t \in BOOLEAN
    BY <1>1
  <2> HIDE DEF k, t
  <2> QED
    BY <2>1, <2>2, <2>3
<1>7. \/ handed' = Nothing
      \/ \E segs \in Seq(Segments), c \in BOOLEAN : HandOn(s, segs, c)
  BY <1>1, ParseFacts
<1> QED
  BY <1>5, <1>6, <1>7

\* Every step keeps the types.
LEMMA TypeStep ==
    ASSUME IInv, [Next]_vars
    PROVE  TypeOK'
<1>t. TypeOK /\ Records
  BY DEF IInv
<1>0. users' \in [Users -> {"absent", "empty", "known"}]
  BY <1>t, UsersStep
<1>1. ASSUME NEW u \in Users, PutUser(u)
      PROVE  TypeOK'
  <2>1. Append(userQ, u) \in Seq(Users) /\ Len(Append(userQ, u)) = Len(userQ) + 1
    BY <1>t, AppendProperties DEF TypeOK
  <2>2. Len(userQ) \in Nat /\ Len(userQ) < QueueSize /\ puts < MaxPuts
    BY <1>t, <1>1 DEF TypeOK, PutUser
  <2>3. Len(userQ') <= QueueSize /\ userQ' \in Seq(Users)
    BY <1>1, <2>1, <2>2, SizesAssumption DEF PutUser
  <2>4. puts' \in 0 .. MaxPuts
    BY <1>t, <1>1, SizesAssumption DEF TypeOK, PutUser
  <2>5. UNCHANGED <<pc, packetQ, users, dpi, sndcp, handed, run>>
    BY <1>1 DEF PutUser
  <2> QED
    BY <1>t, <2>3, <2>4, <2>5 DEF TypeOK
<1>2. ASSUME NEW s \in Segments, PutPacket(s)
      PROVE  TypeOK'
  <2> DEFINE T == [seg : Segments, inTime : BOOLEAN]
             w == WillKnow(User(s), Len(packetQ) + 1)
             item == [seg |-> s, inTime |-> w]
  <2>1. w \in BOOLEAN
    BY DEF WillKnow, Known
  <2>2. item \in T
    <3> HIDE DEF w
    <3> QED
      BY <2>1
  <2>3. packetQ' = Append(packetQ, item) /\ packetQ \in Seq(T)
    BY <1>t, <1>2 DEF PutPacket, TypeOK
  <2>4. packetQ' \in Seq(T) /\ Len(packetQ') = Len(packetQ) + 1 /\ Len(packetQ) \in Nat
    <3> HIDE DEF T, item
    <3> QED
      BY <2>2, <2>3, AppendProperties
  <2>5. Len(packetQ') <= QueueSize
    BY <1>2, <2>4, SizesAssumption DEF PutPacket
  <2>6. puts' \in 0 .. MaxPuts
    BY <1>t, <1>2, SizesAssumption DEF TypeOK, PutPacket
  <2>7. UNCHANGED <<pc, userQ, users, dpi, sndcp, handed, run>>
    BY <1>2 DEF PutPacket
  <2> HIDE DEF item
  <2> QED
    BY <1>t, <2>4, <2>5, <2>6, <2>7 DEF TypeOK
<1>3. CASE PollUser
  <2>1. userQ \in Seq(Users) /\ userQ # <<>> /\ userQ' = Tail(userQ)
    BY <1>t, <1>3 DEF TypeOK, PollUser, UserQAfter
  <2>2. userQ' \in Seq(Users) /\ Len(userQ') = Len(userQ) - 1 /\ Len(userQ) \in Nat
    BY <2>1, HeadTailProperties
  <2>3. Len(userQ') <= QueueSize
    BY <1>t, <2>2, SizesAssumption DEF TypeOK
  <2>4. dpi' \in 0 .. DpiSize
    BY <1>t, <1>3, SizesAssumption DEF TypeOK, PollUser, DpiHasRoom
  <2>5. pc' = "packet" /\ handed' = Nothing /\ UNCHANGED <<packetQ, puts, sndcp, run>>
    BY <1>3 DEF PollUser
  <2> QED
    BY <1>t, <1>0, <2>2, <2>3, <2>4, <2>5 DEF TypeOK
<1>4. CASE PollNoUser
  BY <1>t, <1>4 DEF TypeOK, PollNoUser, queues
<1>5. CASE PollPacket
  <2>1. /\ packetQ # <<>> /\ packetQ' = Tail(packetQ) /\ pc' = "user"
        /\ UNCHANGED <<userQ, puts, dpi>> /\ Parse(Head(packetQ).seg)
    BY <1>5 DEF PollPacket, Take
  <2>2. /\ packetQ' \in Seq([seg : Segments, inTime : BOOLEAN])
        /\ Len(packetQ') = Len(packetQ) - 1
    BY <1>t, <2>1, HeadFacts
  <2>3. Len(packetQ') <= QueueSize
    BY <1>t, <2>2, SizesAssumption DEF TypeOK
  <2>4. /\ sndcp' \in [Users -> RecordType] /\ run' \in [Users -> RunType]
        /\ handed' = Nothing \/
           handed' \in [segs : Seq(Segments), known : BOOLEAN, inTime : BOOLEAN,
                        clean : BOOLEAN]
    BY <1>t, <2>1, ParseType
  <2> QED
    BY <1>t, <1>0, <2>1, <2>2, <2>3, <2>4 DEF TypeOK, RecordType, RunType
<1>6. CASE PollNoPacket
  BY <1>t, <1>6 DEF TypeOK, PollNoPacket, HandsOnNothing, queues
<1>7. CASE UNCHANGED vars
  BY <1>t, <1>7 DEF TypeOK, vars, queues
<1> QED
  BY <1>1, <1>2, <1>3, <1>4, <1>5, <1>6, <1>7 DEF Next, Loop

-----------------------------------------------------------------------------
(* The invariant.                                                          *)

LEMMA Start == Init => IInv
<1> SUFFICES ASSUME Init PROVE IInv
  OBVIOUS
<1>1. TypeOK
  <2>1. sndcp \in [Users -> RecordType]
    BY ClearedFacts DEF Init
  <2>2. /\ userQ \in Seq(Users) /\ Len(userQ) <= QueueSize
        /\ packetQ \in Seq([seg : Segments, inTime : BOOLEAN])
        /\ Len(packetQ) <= QueueSize
    BY SizesAssumption DEF Init
  <2>3. puts \in 0 .. MaxPuts /\ dpi \in 0 .. DpiSize
    BY SizesAssumption DEF Init
  <2> QED
    BY <2>1, <2>2, <2>3 DEF Init, TypeOK, RecordType
<1>2. Records
  <2>1. \A u \in Users : sndcp[u] = Cleared /\ run[u] = NoRun
    BY DEF Init, NoRun
  <2>2. ~Cleared.valid
    BY DEF Cleared
  <2> QED
    BY <2>1, <2>2, ClearedFacts DEF Records
<1>3. Waiting /\ Whole /\ UserInTime
  BY DEF Init, Waiting, Whole, UserInTime
<1> QED
  BY <1>1, <1>2, <1>3 DEF IInv

LEMMA Invariant == Spec => []IInv
<1>1. IInv /\ [Next]_vars => IInv'
  BY TypeStep, RecordsStep, WaitingStep DEF IInv
<1> QED
  BY Start, <1>1, PTL DEF Spec

\* The queues and the DPI counter stay within their sizes, and the records
\* hold a segment at most at each of the three places (process_queues).
THEOREM ParserType == Spec => []TypeOK
<1>1. IInv => TypeOK
  BY DEF IInv
<1> QED
  BY Invariant, <1>1, PTL

\* Whatever is lost or out of order, a packet that is handed on is one N-PDU,
\* unless one of its segments was doubled or another N-PDU's, also a
\* compressed one's, came with its number (parse_gb_packet).
THEOREM WholeAlways == Spec => []Whole
<1>1. IInv => Whole
  BY DEF IInv
<1> QED
  BY Invariant, <1>1, PTL

\* An N-PDU whose segments have all come, with none of another number in
\* between, is not kept in the record (parse_gb_packet: the record is left
\* when remain_len is 0).
THEOREM NoneHeldBackAlways == Spec => []NoneHeldBack
<1>1. IInv => NoneHeldBack
  <2> SUFFICES ASSUME IInv, NEW u \in Users, NEW s \in run[u].segs, run[u].clean
               PROVE  run[u].segs # {s[1]} \X (1 .. Len(s[1].lens))
    BY DEF NoneHeldBack
  <2>1. Consistent(sndcp[u], run[u]) /\ (sndcp[u].valid => sndcp[u].remain # 0)
    BY DEF IInv, Records
  <2>2. sndcp[u].remain # 0
    BY <2>1 DEF Consistent
  <2> QED
    BY <2>1, <2>2, NotAll
<1> QED
  BY Invariant, <1>1, PTL

\* The turns of the loop make a user known before its packets, when the
\* sig_parser put them in that order (process_queues).
THEOREM UserInTimeAlways == Spec => []UserInTime
<1>1. IInv => UserInTime
  BY DEF IInv
<1> QED
  BY Invariant, <1>1, PTL
=============================================================================
