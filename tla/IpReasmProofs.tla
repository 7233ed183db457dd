---------------------------- MODULE IpReasmProofs ----------------------------
(***************************************************************************)
(* Proofs about IpReasm, for all datagrams and sizes.  parse_tup_head adds *)
(* up the bytes of the fragments and does not look which they are; what is *)
(* shown here is that the sum is enough: the record's counters are those   *)
(* of a set of fragments, the fragments of a datagram do not overlap, and  *)
(* so they add up to the whole only when each is there.                    *)
(***************************************************************************)
EXTENDS IpReasm, FiniteSetTheorems, WellFoundedInduction, TLAPS

USE DatagramAssumption

\* The units of its datagram that a set of fragments has.
Covered(C) == UNION {BytesOf(f) : f \in C}

LastOf(d) == <<d, Len(d.sizes)>>

\* The counters of the record r are those of the fragments in C, all of the datagram d.
Measures(r, d, C) ==
    /\ C \subseteq FragmentsOf(d) /\ C # {}
    /\ r.reas_len = Cardinality(Covered(C))
    /\ r.nr = Cardinality(C)
    /\ r.len = IF LastOf(d) \in C THEN Total(d) ELSE 0

\* The record is that of the fragments in C: they have come, and their bytes are there.
Holds(d, C) ==
    /\ Measures(ip_packet, d, C)
    /\ \A f \in C : arrived[f] > 0 /\ Fits(f)
    /\ \A i \in Covered(C) : data[i] = d

\* Still none of the datagram's fragments came twice.
OnceNow(d) == \A f \in FragmentsOf(d) : arrived'[f] <= 1

\* The identifications under which the record may have a datagram.
Names(d) == {d.id, ntohs(d.id)}

\* A record in use is that of some of the fragments of the datagram it names.
RecordHolds ==
    ip_packet.valid = 1 =>
        \A d \in Datagrams :
            ip_packet.id \in Names(d) /\ Unique(d) /\ Once(d) => \E C : Holds(d, C)

\* It has the name of the datagram that fragments came from last.
RunNamed == ip_packet.valid = 1 => run.of \in Datagrams /\ ip_packet.id \in Names(run.of)

\* The record has all the fragments that came one after the other.
RunHolds ==
    LET d == run.of
    IN  /\ d \in Datagrams /\ Once(d) /\ Unique(d) /\ Total(d) <= MaxSize
        /\ run.first => d.id = ntohs(d.id)
        => /\ ip_packet.valid = 1 /\ ip_packet.id = d.id
           /\ Holds(d, run.fragments)
           /\ run.fragments = FragmentsOf(d) => d \in handed

IInv == TypeOK /\ RecordHolds /\ WholeDatagram /\ RunNamed /\ RunHolds

-----------------------------------------------------------------------------
(* The fragments of a datagram.                                            *)

\* A set of numbers that is not empty has a least one.
LEMMA LeastNumber ==
    ASSUME NEW T \in SUBSET Nat, T # {}
    PROVE  \E m \in T : \A n \in T : m <= n
  <1>1. PICK m \in T : \A n \in T : ~ (<<n, m>> \in OpToRel(<, Nat))
    BY NatLessThanWellFounded, WFMin
  <1>2. \A n \in T : ~ (n < m)
    BY <1>1 DEF OpToRel
  <1> QED
    BY <1>2

\* The elements of a sequence are of its set.
LEMMA Elements ==
    ASSUME NEW S, NEW s \in Seq(S)
    PROVE  Len(s) \in Nat /\ \A i \in 1 .. Len(s) : s[i] \in S
  OBVIOUS

\* Two ranges of bytes that follow each other have none in common.
LEMMA RangesApart ==
    ASSUME NEW x \in Nat, NEW y \in Nat, NEW s \in Nat, NEW t \in Nat,
           x + s <= y \/ y + t <= x, NEW b
    PROVE  ~ (b \in x .. (x + s - 1) /\ b \in y .. (y + t - 1))
  OBVIOUS

\* What the assumption says of a datagram.
LEMMA Parts ==
    ASSUME NEW d \in Datagrams
    PROVE  /\ Len(d.sizes) \in Nat \ {0}
           /\ \A i \in 1 .. Len(d.sizes) : d.sizes[i] \in Nat \ {0}
           /\ \A i \in 1 .. Len(d.sizes) + 1 : d.offsets[i] \in Nat
           /\ d.offsets[1] = 0
           /\ \A i \in 1 .. Len(d.sizes) : d.offsets[i + 1] = d.offsets[i] + d.sizes[i]
           /\ d.id \in Bytes \X Bytes
           /\ Total(d) \in Nat
  <1>1. /\ d.sizes \in Seq(Nat \ {0}) /\ d.offsets \in Seq(Nat) /\ d.sizes # << >>
        /\ Len(d.offsets) = Len(d.sizes) + 1 /\ d.id \in Bytes \X Bytes
    BY DEF Datagram
  <1>2. Len(d.sizes) \in Nat \ {0} /\ \A i \in 1 .. Len(d.sizes) : d.sizes[i] \in Nat \ {0}
    BY <1>1, Elements
  <1>3. \A i \in 1 .. Len(d.sizes) + 1 : d.offsets[i] \in Nat
    <2>1. \A i \in 1 .. Len(d.offsets) : d.offsets[i] \in Nat
      BY <1>1, Elements, Zenon
    <2> QED
      BY <2>1, <1>1, Zenon
  <1>4. Len(d.sizes) + 1 \in 1 .. Len(d.sizes) + 1
    BY <1>2
  <1> QED
    BY <1>1, <1>2, <1>3, <1>4 DEF Total

\* The offsets grow: what comes later begins where the earlier one ends, or behind.
LEMMA Growing ==
    ASSUME NEW d \in Datagrams, NEW i \in 1 .. Len(d.sizes), NEW j \in 1 .. Len(d.sizes) + 1, i < j
    PROVE  d.offsets[i] + d.sizes[i] <= d.offsets[j]
  <1> DEFINE n == Len(d.sizes)
             at(k) == d.offsets[k]
             Bad == {k \in Nat : i < k /\ k <= n + 1 /\ ~ (at(i + 1) <= at(k))}
  <1>1. n \in Nat /\ i \in 1 .. n /\ j \in 1 .. n + 1
    BY Parts
  <1>2. \A k \in 1 .. n + 1 : at(k) \in Nat
    BY Parts
  <1>3. \A k \in 1 .. n : at(k + 1) = at(k) + d.sizes[k] /\ d.sizes[k] \in Nat
    BY Parts
  <1> HIDE DEF n, at
  <1>4. Bad = {}
    <2> SUFFICES ASSUME Bad # {} PROVE FALSE
      OBVIOUS
    <2>1. PICK k \in Bad : \A l \in Bad : k <= l
      BY LeastNumber, Bad \in SUBSET Nat
    <2>2. k \in Nat /\ i < k /\ k <= n + 1 /\ ~ (at(i + 1) <= at(k))
      BY <2>1
    <2>3. at(i + 1) \in Nat
      BY <1>1, <1>2, i + 1 \in 1 .. n + 1
    <2>4. k # i + 1
      BY <2>2, <2>3
    <2>5. k - 1 \in Nat /\ i < k - 1 /\ k - 1 <= n + 1 /\ k - 1 \in 1 .. n /\ (k - 1) + 1 = k
      <3>1. i \in Nat /\ 1 <= i
        BY <1>1
      <3>2. i + 1 < k
        BY <2>2, <2>4, <3>1
      <3> QED
        BY <2>2, <3>1, <3>2, <1>1
    <2>6. at(k - 1) \in Nat /\ d.sizes[k - 1] \in Nat /\ at(k) = at(k - 1) + d.sizes[k - 1]
      <3>1. k - 1 \in 1 .. n + 1
        BY <2>5, <1>1
      <3>2. at((k - 1) + 1) = at(k - 1) + d.sizes[k - 1] /\ d.sizes[k - 1] \in Nat
        BY <2>5, <1>3, Zenon
      <3>3. at((k - 1) + 1) = at(k)
        BY <2>5, Zenon
      <3> QED
        BY <3>1, <3>2, <3>3, <1>2
    <2>7. ~ (at(i + 1) <= at(k - 1))
      <3>1. PICK a \in Nat : a = at(i + 1)
        BY <2>3
      <3>2. PICK b \in Nat : b = at(k - 1)
        BY <2>6
      <3>3. PICK c \in Nat : c = d.sizes[k - 1]
        BY <2>6
      <3>4. ~ (a <= b + c)
        BY <2>2, <2>6, <3>1, <3>2, <3>3
      <3>5. ~ (a <= b)
        BY <3>4
      <3> QED
        BY <3>5, <3>1, <3>2
    <2>8. k - 1 \in Bad
      BY <2>5, <2>7
    <2> QED
      BY <2>1, <2>8, <2>2
  <1>5. at(i + 1) <= at(j)
    <2>1. j \in Nat /\ j <= n + 1 /\ i < j
      BY <1>1
    <2>2. j \notin Bad
      BY <1>4, Zenon
    <2> QED
      BY <2>1, <2>2, Zenon
  <1>6. at(i + 1) = at(i) + d.sizes[i]
    BY <1>1, <1>3
  <1> QED
    BY <1>5, <1>6 DEF at

\* A fragment has a datagram, a place, a size and an offset.
LEMMA FragmentParts ==
    ASSUME NEW f \in Fragments
    PROVE  /\ Of(f) \in Datagrams /\ f \in FragmentsOf(Of(f))
           /\ f[2] \in 1 .. Len(Of(f).sizes) /\ f = <<Of(f), f[2]>>
           /\ Offset(f) \in Nat /\ l4_size(f) \in Nat \ {0}
           /\ Offset(f) + l4_size(f) <= Total(Of(f))
           /\ ~MoreFragments(f) <=> f = LastOf(Of(f))
           /\ ~MoreFragments(f) => Offset(f) + l4_size(f) = Total(Of(f))
           /\ ip_id(f) \in Bytes \X Bytes
  <1>0. PICK d \in Datagrams : f \in FragmentsOf(d)
    BY DEF Fragments, FragmentsOf
  <1>1. PICK i \in 1 .. Len(d.sizes) : f = <<d, i>>
    BY <1>0 DEF FragmentsOf
  <1>2. Of(f) = d /\ f[2] = i
    BY <1>1 DEF Of
  <1>3. /\ Len(d.sizes) \in Nat /\ i \in 1 .. Len(d.sizes) + 1 /\ i \in Nat
        /\ Len(d.sizes) + 1 \in 1 .. Len(d.sizes) + 1 /\ i < Len(d.sizes) + 1
    BY Parts
  <1>4. Offset(f) \in Nat /\ l4_size(f) \in Nat \ {0}
    BY <1>2, <1>3, Parts DEF Offset, l4_size
  <1>5. Offset(f) + l4_size(f) <= Total(Of(f))
    BY <1>2, <1>3, Growing DEF Offset, l4_size, Total
  <1>6. ~MoreFragments(f) <=> i = Len(d.sizes)
    BY <1>2, <1>3 DEF MoreFragments
  <1>7. ~MoreFragments(f) <=> f = LastOf(Of(f))
    BY <1>1, <1>2, <1>6 DEF LastOf
  <1>8. ~MoreFragments(f) => Offset(f) + l4_size(f) = Total(Of(f))
    BY <1>2, <1>6, Parts DEF Offset, l4_size, Total
  <1>9. ip_id(f) \in Bytes \X Bytes
    BY <1>2, Parts DEF ip_id
  <1> QED
    BY <1>1, <1>2, <1>4, <1>5, <1>7, <1>8, <1>9 DEF FragmentsOf

\* The fragments of a datagram are fragments.
LEMMA FragmentIn ==
    ASSUME NEW d \in Datagrams, NEW f \in FragmentsOf(d)
    PROVE  f \in Fragments /\ Of(f) = d
  BY DEF FragmentsOf, Fragments, Of

\* Two fragments of a datagram have no byte in common.
LEMMA Disjoint ==
    ASSUME NEW d \in Datagrams, NEW f \in FragmentsOf(d), NEW g \in FragmentsOf(d), f # g
    PROVE  BytesOf(f) \cap BytesOf(g) = {}
  <1>1. PICK i \in 1 .. Len(d.sizes) : f = <<d, i>>
    BY DEF FragmentsOf
  <1>2. PICK j \in 1 .. Len(d.sizes) : g = <<d, j>>
    BY DEF FragmentsOf
  <1>3. /\ Offset(f) = d.offsets[i] /\ l4_size(f) = d.sizes[i]
        /\ Offset(g) = d.offsets[j] /\ l4_size(g) = d.sizes[j]
    BY <1>1, <1>2 DEF Offset, l4_size, Of
  <1>4. i \in 1 .. Len(d.sizes) + 1 /\ j \in 1 .. Len(d.sizes) + 1 /\ (i < j \/ j < i)
    BY <1>1, <1>2, Parts
  <1>5. d.offsets[i] + d.sizes[i] <= d.offsets[j] \/ d.offsets[j] + d.sizes[j] <= d.offsets[i]
    <2>1. CASE i < j
      BY <2>1, <1>4, Growing, Zenon
    <2>2. CASE j < i
      BY <2>2, <1>4, Growing, Zenon
    <2> QED
      BY <2>1, <2>2, <1>4, Zenon
  <1>6. d.offsets[i] \in Nat /\ d.offsets[j] \in Nat /\ d.sizes[i] \in Nat /\ d.sizes[j] \in Nat
    <2>1. d.offsets[i] \in Nat /\ d.offsets[j] \in Nat
      BY <1>4, Parts, Zenon
    <2>2. d.sizes[i] \in Nat \ {0} /\ d.sizes[j] \in Nat \ {0}
      BY Parts, Zenon
    <2> QED
      BY <2>1, <2>2
  <1>7. ASSUME NEW b PROVE ~ (b \in BytesOf(f) /\ b \in BytesOf(g))
    <2>1. ~ (b \in d.offsets[i] .. (d.offsets[i] + d.sizes[i] - 1)
               /\ b \in d.offsets[j] .. (d.offsets[j] + d.sizes[j] - 1))
      BY <1>5, <1>6, RangesApart, Zenon
    <2>2. /\ BytesOf(f) = d.offsets[i] .. (d.offsets[i] + d.sizes[i] - 1)
          /\ BytesOf(g) = d.offsets[j] .. (d.offsets[j] + d.sizes[j] - 1)
      BY <1>3, Zenon DEF BytesOf
    <2> QED
      BY <2>1, <2>2, Zenon
  <1> QED
    BY <1>7, Zenon

\* As many bytes as its size.
LEMMA BytesCount ==
    ASSUME NEW f \in Fragments
    PROVE  /\ IsFiniteSet(BytesOf(f)) /\ Cardinality(BytesOf(f)) = l4_size(f)
           /\ BytesOf(f) \subseteq 0 .. (Total(Of(f)) - 1)
           /\ Offset(f) \in BytesOf(f)
  <1>1. /\ Offset(f) \in Nat /\ l4_size(f) \in Nat \ {0} /\ Total(Of(f)) \in Nat
        /\ Offset(f) + l4_size(f) <= Total(Of(f))
    BY FragmentParts, Parts
  <1>2. Offset(f) \in Int /\ Offset(f) + l4_size(f) - 1 \in Int
        /\ Offset(f) <= Offset(f) + l4_size(f) - 1
        /\ (Offset(f) + l4_size(f) - 1) - Offset(f) + 1 = l4_size(f)
    BY <1>1
  <1>3. IsFiniteSet(BytesOf(f)) /\ Cardinality(BytesOf(f)) = l4_size(f)
    BY <1>2, FS_Interval DEF BytesOf
  <1> QED
    BY <1>1, <1>3 DEF BytesOf

-----------------------------------------------------------------------------
(* What a set of fragments of one datagram adds up to.                     *)

LEMMA Intervals ==
    ASSUME NEW n \in Nat
    PROVE  /\ IsFiniteSet(1 .. n) /\ Cardinality(1 .. n) = n
           /\ IsFiniteSet(0 .. (n - 1)) /\ Cardinality(0 .. (n - 1)) = n
  <1>1. IsFiniteSet(1 .. n) /\ Cardinality(1 .. n) = IF 1 > n THEN 0 ELSE n - 1 + 1
    BY FS_Interval
  <1>2. n - 1 \in Int
    OBVIOUS
  <1>3. IsFiniteSet(0 .. (n - 1))
        /\ Cardinality(0 .. (n - 1)) = IF 0 > n - 1 THEN 0 ELSE (n - 1) - 0 + 1
    BY <1>2, FS_Interval
  <1> QED
    BY <1>1, <1>3

LEMMA FragmentsFinite ==
    ASSUME NEW d \in Datagrams
    PROVE  /\ IsFiniteSet(FragmentsOf(d)) /\ Cardinality(FragmentsOf(d)) = Len(d.sizes)
           /\ LastOf(d) \in FragmentsOf(d)
  <1>1. Len(d.sizes) \in Nat \ {0}
    BY Parts
  <1>2. IsFiniteSet(1 .. Len(d.sizes)) /\ Cardinality(1 .. Len(d.sizes)) = Len(d.sizes)
    BY <1>1, Intervals
  <1>3. IsFiniteSet({d}) /\ Cardinality({d}) = 1
    BY FS_Singleton
  <1>4. IsFiniteSet(FragmentsOf(d)) /\ Cardinality(FragmentsOf(d)) = 1 * Len(d.sizes)
    <2>1. /\ IsFiniteSet({d} \X (1 .. Len(d.sizes)))
          /\ Cardinality({d} \X (1 .. Len(d.sizes)))
                = Cardinality({d}) * Cardinality(1 .. Len(d.sizes))
      BY <1>2, <1>3, FS_Product
    <2> QED
      BY <1>2, <1>3, <2>1 DEF FragmentsOf
  <1> QED
    BY <1>1, <1>4 DEF FragmentsOf, LastOf

\* They are within the datagram.
LEMMA CoveredFinite ==
    ASSUME NEW d \in Datagrams, NEW C \in SUBSET FragmentsOf(d)
    PROVE  /\ IsFiniteSet(C) /\ Cardinality(C) \in Nat
           /\ Covered(C) \subseteq 0 .. (Total(d) - 1)
           /\ IsFiniteSet(Covered(C)) /\ Cardinality(Covered(C)) \in Nat
  <1>1. IsFiniteSet(C)
    BY FragmentsFinite, FS_Subset
  <1>2. \A f \in C : BytesOf(f) \subseteq 0 .. (Total(d) - 1)
    BY FragmentIn, BytesCount
  <1>3. Covered(C) \subseteq 0 .. (Total(d) - 1)
    BY <1>2 DEF Covered
  <1>4. IsFiniteSet(0 .. (Total(d) - 1))
    BY Parts, FS_Interval
  <1>5. IsFiniteSet(Covered(C))
    BY <1>3, <1>4, FS_Subset
  <1> QED
    BY <1>1, <1>3, <1>5, FS_CardinalityType

\* One fragment more covers its size more.
LEMMA OneMore ==
    ASSUME NEW d \in Datagrams, NEW C \in SUBSET FragmentsOf(d),
           NEW f \in FragmentsOf(d), f \notin C
    PROVE  /\ Covered(C \cup {f}) = Covered(C) \cup BytesOf(f)
           /\ Cardinality(Covered(C \cup {f})) = Cardinality(Covered(C)) + l4_size(f)
           /\ Cardinality(C \cup {f}) = Cardinality(C) + 1
  <1>1. Covered(C \cup {f}) = Covered(C) \cup BytesOf(f)
    BY DEF Covered
  <1>2. Covered(C) \cap BytesOf(f) = {}
    <2>1. \A g \in C : BytesOf(g) \cap BytesOf(f) = {}
      BY Disjoint
    <2> QED
      BY <2>1 DEF Covered
  <1>3. f \in Fragments /\ IsFiniteSet(BytesOf(f)) /\ Cardinality(BytesOf(f)) = l4_size(f)
        /\ l4_size(f) \in Nat
    BY FragmentIn, BytesCount, FragmentParts
  <1>4. IsFiniteSet(Covered(C)) /\ Cardinality(Covered(C)) \in Nat
    BY CoveredFinite
  <1>5. Cardinality(Covered(C) \cup BytesOf(f))
          = Cardinality(Covered(C)) + Cardinality(BytesOf(f)) - Cardinality({})
    <2>1. Cardinality(Covered(C) \cup BytesOf(f)) = Cardinality(Covered(C))
            + Cardinality(BytesOf(f)) - Cardinality(Covered(C) \cap BytesOf(f))
      BY <1>3, <1>4, FS_Union
    <2> QED
      BY <1>2, <2>1
  <1>6. Cardinality(Covered(C \cup {f})) = Cardinality(Covered(C)) + l4_size(f)
    <2>1. Cardinality({}) = 0
      BY FS_EmptySet
    <2>2. Cardinality(Covered(C) \cup BytesOf(f)) = Cardinality(Covered(C)) + l4_size(f) - 0
      BY <1>3, <1>5, <2>1
    <2>3. Cardinality(Covered(C \cup {f})) = Cardinality(Covered(C) \cup BytesOf(f))
      BY <1>1, Zenon
    <2> QED
      BY <1>3, <1>4, <2>2, <2>3
  <1>7. Cardinality(C \cup {f}) = Cardinality(C) + 1
    BY CoveredFinite, FS_AddElement
  <1> QED
    BY <1>1, <1>6, <1>7

\* A single one covers its size.
LEMMA OneAlone ==
    ASSUME NEW f \in Fragments
    PROVE  /\ Covered({f}) = BytesOf(f)
           /\ Cardinality(Covered({f})) = l4_size(f) /\ Cardinality({f}) = 1
  BY BytesCount, FS_Singleton DEF Covered

\* As many units as the datagram has: every fragment is there.
LEMMA AllThere ==
    ASSUME NEW d \in Datagrams, NEW C \in SUBSET FragmentsOf(d),
           Cardinality(Covered(C)) = Total(d)
    PROVE  C = FragmentsOf(d) /\ Covered(C) = 0 .. (Total(d) - 1)
  <1>1. Total(d) \in Nat /\ IsFiniteSet(0 .. (Total(d) - 1))
        /\ Cardinality(0 .. (Total(d) - 1)) = Total(d)
    BY Parts, Intervals
  <1>2. Covered(C) = 0 .. (Total(d) - 1)
    BY <1>1, CoveredFinite, FS_Subset
  <1>3. ASSUME NEW f \in FragmentsOf(d) PROVE f \in C
    <2>1. f \in Fragments /\ Of(f) = d
      BY FragmentIn
    <2>2. Offset(f) \in BytesOf(f) /\ Offset(f) \in 0 .. (Total(d) - 1)
      BY <2>1, BytesCount
    <2>3. PICK g \in C : Offset(f) \in BytesOf(g)
      BY <1>2, <2>2 DEF Covered
    <2>4. g \in FragmentsOf(d)
      OBVIOUS
    <2> QED
      BY <2>2, <2>3, <2>4, Disjoint
  <1> QED
    BY <1>2, <1>3

\* And every fragment covers as many units as the datagram has: there is no gap.
LEMMA NoGap ==
    ASSUME NEW d \in Datagrams
    PROVE  Cardinality(Covered(FragmentsOf(d))) = Total(d)
  <1> DEFINE n == Len(d.sizes)
  <1>1. n \in Nat \ {0} /\ Total(d) \in Nat /\ Total(d) = d.offsets[n + 1] /\ d.offsets[1] = 0
    BY Parts DEF Total
  <1>2. \A k \in 1 .. n + 1 : d.offsets[k] \in Nat
    BY Parts
  <1>3. ASSUME NEW b \in 0 .. (Total(d) - 1) PROVE b \in Covered(FragmentsOf(d))
    <2> DEFINE Behind == {k \in 1 .. n + 1 : b < d.offsets[k]}
    <2>1. n + 1 \in Behind
      BY <1>1
    <2>2. PICK k \in Behind : \A l \in Behind : k <= l
      BY <2>1, LeastNumber, Behind \in SUBSET Nat
    <2>3. k \in 1 .. n + 1 /\ b < d.offsets[k] /\ b \in Nat
      BY <2>2
    <2>4. k # 1
      BY <2>3, <1>1
    <2> DEFINE i == k - 1
    <2>5. i \in 1 .. n /\ i \in 1 .. n + 1 /\ i + 1 = k /\ i < k
      BY <1>1, <2>3, <2>4
    <2>6. ~ (b < d.offsets[i])
      BY <2>2, <2>5
    <2>7. d.offsets[k] = d.offsets[i] + d.sizes[i] /\ d.offsets[i] \in Nat /\ d.sizes[i] \in Nat
      BY <2>5, Parts
    <2> DEFINE f == <<d, i>>
    <2> HIDE DEF i
    <2>8. f \in FragmentsOf(d) /\ Offset(f) = d.offsets[i] /\ l4_size(f) = d.sizes[i]
      BY <2>5 DEF FragmentsOf, Offset, l4_size, Of
    <2>9. b \in BytesOf(f)
      <3> DEFINE x == d.offsets[i]
                 z == d.sizes[i]
      <3>1. x \in Nat /\ z \in Nat
        BY <2>7
      <3> HIDE DEF x, z
      <3>2. b \in x .. (x + z - 1)
        BY <2>3, <2>6, <2>7, <3>1 DEF x, z
      <3> QED
        BY <2>8, <3>2, Zenon DEF BytesOf, x, z
    <2> QED
      BY <2>8, <2>9 DEF Covered
  <1>4. Covered(FragmentsOf(d)) = 0 .. (Total(d) - 1)
    BY <1>3, CoveredFinite
  <1>5. Cardinality(0 .. (Total(d) - 1)) = Total(d)
    BY <1>1, Intervals
  <1> QED
    BY <1>4, <1>5

-----------------------------------------------------------------------------
(* The record when a fragment has been counted.                            *)

RecordType == [valid : 0 .. 1, id : Bytes \X Bytes, nr : Nat, reas_len : Nat, len : Nat]

\* The fragment belongs to what the record has already.
Continues(f) == ip_packet.valid = 1 /\ ip_packet.id = ip_id(f)

\* The order of the bytes turned twice is the order they had.
LEMMA Twice ==
    ASSUME NEW id \in Bytes \X Bytes
    PROVE  ntohs(id) \in Bytes \X Bytes /\ ntohs(ntohs(id)) = id
  BY DEF ntohs

LEMMA StartedParts ==
    ASSUME NEW f \in Fragments, TypeOK
    PROVE  /\ Started(f) \in RecordType /\ Started(f).valid = 1
           /\ Started(f).id \in Names(Of(f))
           /\ Continues(f) => Started(f) = ip_packet
           /\ ip_packet.valid = 1 => Started(f).id = ip_id(f)
           /\ ip_packet.valid = 0 => Started(f).id = ntohs(ip_id(f))
           /\ ~Continues(f) =>
                 Started(f).nr = 0 /\ Started(f).reas_len = 0 /\ Started(f).len = 0
  <1>1. ip_packet \in RecordType /\ ip_packet.valid \in {0, 1}
    BY DEF TypeOK, RecordType
  <1>2. ip_id(f) \in Bytes \X Bytes /\ ntohs(ip_id(f)) \in Bytes \X Bytes
        /\ ip_id(f) \in Names(Of(f)) /\ ntohs(ip_id(f)) \in Names(Of(f))
    BY FragmentParts, Twice DEF ip_id, Names
  <1>3. CASE ip_packet.valid = 0
    <2>1. Started(f) = Restarted(ntohs(ip_id(f)))
      BY <1>3 DEF Started
    <2> QED
      BY <1>2, <1>3, <2>1 DEF Restarted, RecordType, Continues
  <1>4. CASE ip_packet.valid = 1 /\ ip_id(f) # ip_packet.id
    <2>1. Started(f) = Restarted(ip_id(f))
      BY <1>4 DEF Started
    <2> QED
      BY <1>2, <1>4, <2>1 DEF Restarted, RecordType, Continues
  <1>5. CASE ip_packet.valid = 1 /\ ip_id(f) = ip_packet.id
    <2>1. Started(f) = ip_packet
      BY <1>5 DEF Started
    <2> QED
      BY <1>1, <1>2, <1>5, <2>1 DEF Continues
  <1> QED
    BY <1>1, <1>3, <1>4, <1>5

LEMMA CountedParts ==
    ASSUME NEW f \in Fragments, TypeOK
    PROVE  /\ Counted(f) \in RecordType
           /\ Counted(f).valid = 1 /\ Counted(f).id = Started(f).id
           /\ Counted(f).nr = Started(f).nr + 1
           /\ Counted(f).reas_len = Started(f).reas_len + l4_size(f)
           /\ Counted(f).len = IF f = LastOf(Of(f)) THEN Total(Of(f)) ELSE Started(f).len
  <1>1. Started(f) \in RecordType /\ Started(f).valid = 1
    BY StartedParts
  <1>2. Length(Started(f), f) = IF f = LastOf(Of(f)) THEN Total(Of(f)) ELSE Started(f).len
    BY FragmentParts DEF Length
  <1>3. Total(Of(f)) \in Nat /\ l4_size(f) \in Nat
    BY FragmentParts, Parts
  <1>4. Length(Started(f), f) \in Nat
    BY <1>1, <1>2, <1>3 DEF RecordType
  <1>5. Counted(f) = [Started(f) EXCEPT !.len = Length(Started(f), f),
                          !.reas_len = Started(f).reas_len + l4_size(f), !.nr = Started(f).nr + 1]
    BY <1>1 DEF Counted, RecordType
  <1>6. Started(f).reas_len + l4_size(f) \in Nat /\ Started(f).nr + 1 \in Nat
    BY <1>1, <1>3 DEF RecordType
  <1>7. Counted(f) = [valid |-> 1, id |-> Started(f).id, nr |-> Started(f).nr + 1,
                      reas_len |-> Started(f).reas_len + l4_size(f), len |-> Length(Started(f), f)]
    BY <1>1, <1>5 DEF RecordType
  <1>8. Started(f).id \in Bytes \X Bytes
    BY <1>1 DEF RecordType
  <1>9. Counted(f) \in RecordType
    BY <1>4, <1>6, <1>7, <1>8 DEF RecordType
  <1> QED
    BY <1>2, <1>7, <1>9

\* A fragment that arrives counts; one of a datagram none of whose fragments has come twice
\* had not arrived.
LEMMA Arriving ==
    ASSUME TypeOK, NEW f \in Fragments, Arrive(f)
    PROVE  /\ arrived' \in [Fragments -> 0 .. 2]
           /\ \A g \in Fragments : arrived'[g] = IF g = f THEN arrived[f] + 1 ELSE arrived[g]
           /\ \A d \in Datagrams : OnceNow(d) => Once(d) /\ (f \in FragmentsOf(d) => arrived[f] = 0)
  <1>1. arrived \in [Fragments -> 0 .. 2] /\ arrived[f] < 2
        /\ arrived' = [arrived EXCEPT ![f] = arrived[f] + 1]
    BY DEF TypeOK, Arrive
  <1>2. \A g \in Fragments : arrived[g] \in Nat /\ arrived[f] + 1 \in 0 .. 2
    BY <1>1
  <1>3. \A g \in Fragments : arrived'[g] = IF g = f THEN arrived[f] + 1 ELSE arrived[g]
    BY <1>1
  <1>4. ASSUME NEW d \in Datagrams, OnceNow(d)
        PROVE  Once(d) /\ (f \in FragmentsOf(d) => arrived[f] = 0)
    <2>1. \A g \in FragmentsOf(d) : g \in Fragments /\ arrived'[g] <= 1
      BY <1>4, FragmentIn DEF OnceNow
    <2>2. \A g \in FragmentsOf(d) : arrived[g] <= 1 /\ (g = f => arrived[f] = 0)
      BY <1>2, <1>3, <2>1
    <2> QED
      BY <2>2 DEF Once
  <1> QED
    BY <1>1, <1>2, <1>3, <1>4

\* Two datagrams do not share a name when one of them is alone with its identification.
LEMMA NamedApart ==
    ASSUME NEW d \in Datagrams, NEW e \in Datagrams, Unique(d),
           NEW id, id \in Names(d), id \in Names(e)
    PROVE  d = e
  <1>1. d.id \in Bytes \X Bytes /\ e.id \in Bytes \X Bytes
    BY Parts
  <1>2. ntohs(ntohs(d.id)) = d.id /\ ntohs(ntohs(e.id)) = e.id
    BY <1>1, Twice
  <1>3. e.id \in {d.id, ntohs(d.id)}
    BY <1>2 DEF Names
  <1> QED
    BY <1>3 DEF Unique

-----------------------------------------------------------------------------
(* The set of fragments that the record stands for.                        *)

LEMMA CoveredFits ==
    ASSUME NEW f \in Fragments, Fits(f)
    PROVE  BytesOf(f) \subseteq 0 .. (MaxSize - 1)
  <1>1. Offset(f) \in Nat /\ l4_size(f) \in Nat /\ Offset(f) + l4_size(f) <= MaxSize
    BY FragmentParts DEF Fits
  <1> QED
    BY <1>1 DEF BytesOf

\* Where the fragment's bytes go.
LEMMA CopiedParts ==
    ASSUME NEW f \in Fragments, Fits(f), TypeOK
    PROVE  /\ Copied(f) \in [0 .. (MaxSize - 1) -> Datagrams \cup {Nothing}]
           /\ \A i \in 0 .. (MaxSize - 1) :
                 Copied(f)[i] = IF i \in BytesOf(f) THEN Of(f) ELSE data[i]
  <1>1. DOMAIN data = 0 .. (MaxSize - 1) /\ Of(f) \in Datagrams
        /\ \A i \in 0 .. (MaxSize - 1) : data[i] \in Datagrams \cup {Nothing}
    BY FragmentParts DEF TypeOK
  <1>2. DOMAIN data \cup BytesOf(f) = 0 .. (MaxSize - 1)
    BY <1>1, CoveredFits
  <1> QED
    BY <1>1, <1>2 DEF Copied

\* The fragment joins those the record has: it is not one of them, or it has come twice.
LEMMA Joined ==
    ASSUME TypeOK, NEW f \in Fragments, Reassemble(f), OnceNow(Of(f)),
           Continues(f), NEW C, Holds(Of(f), C)
    PROVE  f \notin C /\ Holds(Of(f), C \cup {f})'
  <1> DEFINE d == Of(f)
             N == C \cup {f}
  <1>1. /\ Arrive(f) /\ Fits(f) /\ ip_packet' = Counted(f) /\ data' = Copied(f)
    BY DEF Reassemble
  <1>2. d \in Datagrams /\ f \in FragmentsOf(d) /\ Total(d) \in Nat
    BY FragmentParts, Parts
  <1>3. /\ C \in SUBSET FragmentsOf(d) /\ \A g \in C : arrived[g] > 0 /\ Fits(g)
        /\ ip_packet.reas_len = Cardinality(Covered(C)) /\ ip_packet.nr = Cardinality(C)
        /\ ip_packet.len = IF LastOf(d) \in C THEN Total(d) ELSE 0
        /\ \A i \in Covered(C) : data[i] = d
    BY DEF Holds, Measures
  <1>4. arrived[f] = 0 /\ f \notin C
    BY <1>1, <1>2, <1>3, Arriving
  <1>5. \A g \in N : g \in Fragments /\ arrived'[g] > 0 /\ Fits(g)
    <2>1. \A g \in N : g \in Fragments /\ Fits(g)
      BY <1>1, <1>2, <1>3, FragmentIn
    <2>2. \A g \in Fragments : arrived'[g] = IF g = f THEN 1 ELSE arrived[g]
      BY <1>1, <1>4, Arriving
    <2> QED
      BY <1>3, <2>1, <2>2
  <1>6. /\ ip_packet'.nr = Cardinality(C) + 1
        /\ ip_packet'.reas_len = Cardinality(Covered(C)) + l4_size(f)
        /\ ip_packet'.len = IF f = LastOf(d) THEN Total(d) ELSE ip_packet.len
    BY <1>1, <1>3, StartedParts, CountedParts
  <1>7. ip_packet'.nr = Cardinality(N) /\ ip_packet'.reas_len = Cardinality(Covered(N))
    BY <1>2, <1>3, <1>4, <1>6, OneMore
  <1>8. ip_packet'.len = IF LastOf(d) \in N THEN Total(d) ELSE 0
    BY <1>3, <1>6
  <1>9. ASSUME NEW i \in Covered(N) PROVE data'[i] = d
    <2>1. PICK g \in N : i \in BytesOf(g)
      BY DEF Covered
    <2>2. i \in 0 .. (MaxSize - 1)
      BY <1>5, <2>1, CoveredFits
    <2>3. i \notin BytesOf(f) => i \in Covered(C)
      BY <2>1 DEF Covered
    <2> QED
      BY <1>1, <1>3, <2>2, <2>3, CopiedParts
  <1>10. N \subseteq FragmentsOf(d) /\ N # {}
    BY <1>2, <1>3
  <1> HIDE DEF N, d
  <1>11. Holds(d, N)'
    BY <1>5, <1>7, <1>8, <1>9, <1>10 DEF Holds, Measures
  <1> QED
    BY <1>4, <1>11 DEF N, d

\* It is the first of a record begun anew.
LEMMA Begun ==
    ASSUME TypeOK, NEW f \in Fragments, Reassemble(f), ~Continues(f)
    PROVE  Holds(Of(f), {f})'
  <1> DEFINE d == Of(f)
             N == {f}
  <1>1. /\ Arrive(f) /\ Fits(f) /\ ip_packet' = Counted(f) /\ data' = Copied(f)
    BY DEF Reassemble
  <1>2. d \in Datagrams /\ f \in FragmentsOf(d) /\ l4_size(f) \in Nat
    BY FragmentParts
  <1>3. arrived'[f] > 0
    <2>1. arrived[f] \in Nat
      BY DEF TypeOK
    <2> QED
      BY <1>1, <2>1, Arriving
  <1>4. ip_packet'.nr = 1 /\ ip_packet'.reas_len = l4_size(f)
        /\ ip_packet'.len = IF f = LastOf(d) THEN Total(d) ELSE 0
    BY <1>1, <1>2, StartedParts, CountedParts
  <1>5. ip_packet'.nr = Cardinality(N) /\ ip_packet'.reas_len = Cardinality(Covered(N))
    BY <1>4, OneAlone
  <1>6. ip_packet'.len = IF LastOf(d) \in N THEN Total(d) ELSE 0
    BY <1>4
  <1>7. ASSUME NEW i \in Covered(N) PROVE data'[i] = d
    <2>1. i \in BytesOf(f)
      BY DEF Covered
    <2>2. i \in 0 .. (MaxSize - 1)
      BY <1>1, <2>1, CoveredFits
    <2> QED
      BY <1>1, <2>1, <2>2, CopiedParts
  <1>8. N \subseteq FragmentsOf(d) /\ N # {} /\ \A g \in N : arrived'[g] > 0 /\ Fits(g)
    BY <1>1, <1>2, <1>3
  <1> HIDE DEF N, d
  <1>9. Holds(d, N)'
    BY <1>5, <1>6, <1>7, <1>8 DEF Holds, Measures
  <1> QED
    BY <1>9 DEF N, d

\* The length that the last fragment tells is the number of bytes counted just when all are there.
LEMMA WholeOrNot ==
    ASSUME NEW d \in Datagrams, NEW r, NEW C, Measures(r, d, C)
    PROVE  (r.len = r.reas_len) <=> (C = FragmentsOf(d))
  <1>1. /\ C \in SUBSET FragmentsOf(d) /\ C # {}
        /\ r.reas_len = Cardinality(Covered(C))
        /\ r.len = IF LastOf(d) \in C THEN Total(d) ELSE 0
    BY DEF Measures
  <1>2. ASSUME r.len = r.reas_len PROVE C = FragmentsOf(d)
    <2>1. PICK f \in C : f \in FragmentsOf(d) /\ f \in Fragments
      BY <1>1, FragmentIn
    <2>2. Covered(C) # {}
      BY <2>1, BytesCount DEF Covered
    <2>3. IsFiniteSet(Covered(C)) /\ Cardinality(Covered(C)) # 0
      BY <1>1, <2>2, CoveredFinite, FS_EmptySet
    <2>4. Cardinality(Covered(C)) = Total(d)
      BY <1>1, <1>2, <2>3
    <2> QED
      BY <1>1, <2>4, AllThere
  <1>3. ASSUME C = FragmentsOf(d) PROVE r.len = r.reas_len
    <2>1. LastOf(d) \in C /\ Cardinality(Covered(C)) = Total(d)
      BY <1>3, FragmentsFinite, NoGap
    <2> QED
      BY <1>1, <2>1
  <1> QED
    BY <1>2, <1>3

-----------------------------------------------------------------------------
(* Types.                                                                  *)

LEMMA TypeStart == Init => TypeOK
  <1> SUFFICES ASSUME Init PROVE TypeOK
    OBVIOUS
  <1>1. ip_packet \in [valid : 0 .. 1, id : Bytes \X Bytes, nr : Nat, reas_len : Nat, len : Nat]
    BY DEF Init, Bytes
  <1>2. arrived \in [Fragments -> 0 .. 2]
    BY DEF Init
  <1> QED
    BY <1>1, <1>2 DEF Init, TypeOK

LEMMA RunType ==
    ASSUME TypeOK, NEW f \in Fragments, FollowRun(f)
    PROVE  run' \in [of : Datagrams \cup {Nothing}, fragments : SUBSET Fragments, first : BOOLEAN]
  <1>1. run \in [of : Datagrams \cup {Nothing}, fragments : SUBSET Fragments, first : BOOLEAN]
    BY DEF TypeOK
  <1>2. Of(f) \in Datagrams /\ run.fragments \cup {f} \in SUBSET Fragments
    BY <1>1, FragmentParts
  <1>3. CASE Of(f) = run.of
    <2>1. run' = [run EXCEPT !.fragments = run.fragments \cup {f}]
      BY <1>1, <1>3 DEF FollowRun
    <2> QED
      BY <1>1, <1>2, <2>1
  <1>4. CASE Of(f) # run.of
    <2>1. run' = [of |-> Of(f), fragments |-> {f}, first |-> ip_packet.valid = 0]
      BY <1>4 DEF FollowRun
    <2>2. (ip_packet.valid = 0) \in BOOLEAN /\ {f} \in SUBSET Fragments
      OBVIOUS
    <2> QED
      BY <1>2, <2>1, <2>2
  <1> QED
    BY <1>3, <1>4

LEMMA TypeStep == TypeOK /\ [Next]_vars => TypeOK'
  <1> SUFFICES ASSUME TypeOK, [Next]_vars PROVE TypeOK'
    OBVIOUS
  <1>1. CASE UNCHANGED vars
    BY <1>1 DEF vars, TypeOK
  <1>2. ASSUME NEW f \in Fragments, Broken(f) PROVE TypeOK'
    BY <1>2 DEF Broken, TypeOK
  <1>3. ASSUME NEW f \in Fragments, NotFragmented(f) PROVE TypeOK'
    <2>1. arrived' \in [Fragments -> 0 .. 2]
      BY <1>3, Arriving DEF NotFragmented
    <2>2. Of(f) \in Datagrams /\ l4_size(f) \in Nat
      BY FragmentParts
    <2>3. out'.of = Of(f) /\ out'.len = l4_size(f) /\ out'.nr = 1 /\ handed' = handed \cup {Of(f)}
      BY <1>3 DEF NotFragmented, HandOn
    <2> QED
      BY <1>3, <2>1, <2>2, <2>3 DEF NotFragmented, TypeOK
  <1>4. ASSUME NEW f \in Fragments, TooBig(f) PROVE TypeOK'
    <2>1. arrived' \in [Fragments -> 0 .. 2]
      BY <1>4, Arriving DEF TooBig
    <2>2. run' \in [of : Datagrams \cup {Nothing}, fragments : SUBSET Fragments, first : BOOLEAN]
      BY <1>4, RunType DEF TooBig
    <2>3. Counted(f) \in RecordType /\ Started(f) \in RecordType
      BY CountedParts, StartedParts
    <2>4. ip_packet' \in RecordType
      <3>1. ip_packet' = [Counted(f) EXCEPT !.valid = 0, !.nr = Started(f).nr]
        BY <1>4 DEF TooBig
      <3>2. Started(f).nr \in Nat
        BY <2>3 DEF RecordType
      <3>3. ip_packet' = [valid |-> 0, id |-> Counted(f).id, nr |-> Started(f).nr,
                          reas_len |-> Counted(f).reas_len, len |-> Counted(f).len]
        BY <2>3, <3>1 DEF RecordType
      <3>4. Counted(f).id \in Bytes \X Bytes /\ Counted(f).reas_len \in Nat /\ Counted(f).len \in Nat
        BY <2>3 DEF RecordType
      <3> QED
        BY <3>2, <3>3, <3>4 DEF RecordType
    <2> QED
      BY <1>4, <2>1, <2>2, <2>4 DEF TooBig, TypeOK, RecordType
  <1>5. ASSUME NEW f \in Fragments, Reassemble(f) PROVE TypeOK'
    <2>1. arrived' \in [Fragments -> 0 .. 2]
      BY <1>5, Arriving DEF Reassemble
    <2>2. run' \in [of : Datagrams \cup {Nothing}, fragments : SUBSET Fragments, first : BOOLEAN]
      BY <1>5, RunType DEF Reassemble
    <2>3. ip_packet' \in RecordType /\ ip_packet' = Counted(f)
      BY <1>5, CountedParts DEF Reassemble
    <2>4. data' \in [0 .. (MaxSize - 1) -> Datagrams \cup {Nothing}]
      BY <1>5, CopiedParts DEF Reassemble
    <2>5. Of(f) \in Datagrams /\ Counted(f).len \in Nat /\ Counted(f).nr \in Nat
      BY <2>3, FragmentParts DEF RecordType
    <2>6. out' = Nothing \/ (out'.of \in Datagrams /\ out'.len \in Nat /\ out'.nr \in Nat)
      BY <1>5, <2>5 DEF Reassemble, HandOn
    <2>7. handed' \subseteq Datagrams
      BY <1>5, <2>5 DEF Reassemble, HandOn, TypeOK
    <2> QED
      BY <2>1, <2>2, <2>3, <2>4, <2>6, <2>7 DEF TypeOK, RecordType
  <1> QED
    BY <1>1, <1>2, <1>3, <1>4, <1>5 DEF Next, parse_tup_head

-----------------------------------------------------------------------------
(* A datagram that is handed on is whole.                                  *)

\* What a reassembling step leaves in the record, for a datagram that is alone with its
\* identification.
LEMMA RecordAfter ==
    ASSUME TypeOK, RecordHolds, NEW f \in Fragments, Reassemble(f), NEW d \in Datagrams,
           ip_packet'.id \in Names(d), Unique(d), OnceNow(d)
    PROVE  d = Of(f) /\ \E C : Holds(d, C)'
  <1>1. ip_packet' = Counted(f) /\ Arrive(f) /\ Of(f) \in Datagrams
    BY FragmentParts DEF Reassemble
  <1>2. ip_packet'.id \in Names(Of(f))
    BY <1>1, StartedParts, CountedParts
  <1>3. d = Of(f)
    BY <1>1, <1>2, NamedApart
  <1>4. CASE Continues(f)
    <2>1. Once(d)
      BY <1>1, Arriving
    <2>2. ip_packet.valid = 1 /\ ip_packet.id \in Names(d)
      BY <1>3, <1>4 DEF Continues, Names, ip_id
    <2>3. PICK C : Holds(d, C)
      BY <2>1, <2>2 DEF RecordHolds
    <2> QED
      BY <1>3, <1>4, <2>3, Joined
  <1>5. CASE ~Continues(f)
    BY <1>3, <1>5, Begun
  <1> QED
    BY <1>3, <1>4, <1>5

LEMMA RecordHoldsStep == TypeOK /\ RecordHolds /\ [Next]_vars => RecordHolds'
  <1> SUFFICES ASSUME TypeOK, RecordHolds, [Next]_vars, ip_packet'.valid = 1,
                      NEW d \in Datagrams, ip_packet'.id \in Names(d), Unique(d), OnceNow(d)
               PROVE  \E C : Holds(d, C)'
    BY DEF RecordHolds, Unique, Once, OnceNow
  <1>1. ASSUME UNCHANGED <<ip_packet, data, arrived>> PROVE \E C : Holds(d, C)'
    <2>1. Once(d)
      BY <1>1 DEF Once, OnceNow
    <2>2. PICK C : Holds(d, C)
      BY <1>1, <2>1 DEF RecordHolds
    <2>3. Holds(d, C)'
      BY <1>1, <2>2 DEF Holds
    <2> QED
      BY <2>3
  <1>2. ASSUME NEW f \in Fragments, NotFragmented(f) PROVE \E C : Holds(d, C)'
    <2>1. UNCHANGED <<ip_packet, data>> /\ Arrive(f)
      BY <1>2 DEF NotFragmented
    <2>2. Once(d)
      BY <2>1, Arriving
    <2>3. PICK C : Holds(d, C)
      BY <2>1, <2>2 DEF RecordHolds
    <2>4. \A g \in C : arrived'[g] > 0
      <3>1. \A g \in C : g \in Fragments /\ arrived[g] > 0 /\ arrived[g] \in Nat
        BY <2>3, FragmentIn DEF Holds, Measures, TypeOK
      <3> QED
        BY <2>1, <3>1, Arriving
    <2>5. Holds(d, C)'
      BY <2>1, <2>3, <2>4 DEF Holds
    <2> QED
      BY <2>5
  <1>3. ASSUME NEW f \in Fragments, TooBig(f) PROVE FALSE
    <2>1. Counted(f) \in RecordType
      BY CountedParts
    <2> QED
      BY <1>3, <2>1 DEF TooBig, RecordType
  <1>4. ASSUME NEW f \in Fragments, Reassemble(f) PROVE \E C : Holds(d, C)'
    BY <1>4, RecordAfter
  <1> QED
    BY <1>1, <1>2, <1>3, <1>4 DEF Next, parse_tup_head, Broken, vars

\* A datagram in one piece.
LEMMA OnePiece ==
    ASSUME NEW f \in Fragments, ~IsFragment(f)
    PROVE  Len(Of(f).sizes) = 1 /\ l4_size(f) = Total(Of(f))
  <1> DEFINE d == Of(f)
             n == Len(d.sizes)
  <1>1. /\ d \in Datagrams /\ f[2] \in 1 .. n /\ ~MoreFragments(f) /\ f = LastOf(d)
        /\ Offset(f) \in Nat /\ l4_size(f) \in Nat /\ Offset(f) + l4_size(f) = Total(d)
    BY FragmentParts DEF IsFragment
  <1>2. Offset(f) = 0 /\ f[2] = n
    BY <1>1 DEF IsFragment, LastOf
  <1>3. d.offsets[n] = 0 /\ n \in Nat \ {0}
    BY <1>1, <1>2, Parts DEF Offset
  <1>4. n = 1
    <2> SUFFICES ASSUME n # 1 PROVE FALSE
      OBVIOUS
    <2> HIDE DEF n
    <2>1. 1 \in 1 .. n /\ n \in 1 .. n + 1 /\ 1 < n
      BY <1>3
    <2>2. d.offsets[1] + d.sizes[1] <= d.offsets[n]
      BY <1>1, <2>1, Growing DEF n
    <2>3. d.offsets[1] = 0 /\ d.sizes[1] \in Nat \ {0}
      BY <1>1, <2>1, Parts DEF n
    <2> QED
      BY <1>3, <2>2, <2>3
  <1> QED
    BY <1>1, <1>2, <1>4

LEMMA WholeStep == TypeOK /\ RecordHolds /\ WholeDatagram /\ [Next]_vars => WholeDatagram'
  <1> DEFINE Whole(o) == /\ o.len = Total(o.of)
                         /\ \A i \in 0 .. (o.len - 1) : o.data[i] = o.of
                         /\ o.nr = Len(o.of.sizes)
  <1> SUFFICES ASSUME TypeOK, RecordHolds, WholeDatagram, [Next]_vars,
                      out' # Nothing, OnceNow(out'.of), Unique(out'.of)
               PROVE  Whole(out')
    BY DEF WholeDatagram, Unique, Once, OnceNow
  <1>1. CASE UNCHANGED vars
    BY <1>1 DEF vars, WholeDatagram, Once, OnceNow
  <1>2. ASSUME NEW f \in Fragments, NotFragmented(f) PROVE Whole(out')
    <2>1. out' = [of |-> Of(f), data |-> [i \in 0 .. (l4_size(f) - 1) |-> Of(f)],
                  len |-> l4_size(f), nr |-> 1]
      BY <1>2 DEF NotFragmented, HandOn
    <2> QED
      BY <1>2, <2>1, OnePiece DEF NotFragmented
  <1>3. ASSUME NEW f \in Fragments, Reassemble(f) PROVE Whole(out')
    <2> DEFINE d == Of(f)
    <2>1. /\ out' = [of |-> d, data |-> data', len |-> ip_packet'.len, nr |-> ip_packet'.nr]
          /\ ip_packet'.len = ip_packet'.reas_len
      BY <1>3 DEF Reassemble, HandOn
    <2>2. d \in Datagrams /\ OnceNow(d) /\ Unique(d) /\ ip_packet'.id \in Names(d)
      <3>1. OnceNow(d) /\ Unique(d)
        BY <2>1
      <3> QED
        BY <1>3, <3>1, FragmentParts, StartedParts, CountedParts DEF Reassemble
    <2>3. PICK C : Holds(d, C)'
      BY <1>3, <2>2, RecordAfter
    <2>4. Measures(ip_packet', d, C) /\ \A i \in Covered(C) : data'[i] = d
      BY <2>3 DEF Holds
    <2>5. C = FragmentsOf(d)
      BY <2>1, <2>2, <2>4, WholeOrNot
    <2>6. ip_packet'.len = Total(d) /\ ip_packet'.nr = Len(d.sizes)
      BY <2>2, <2>4, <2>5, FragmentsFinite DEF Measures
    <2>7. Covered(C) = 0 .. (Total(d) - 1)
      BY <2>2, <2>5, NoGap, AllThere
    <2> QED
      BY <2>1, <2>4, <2>6, <2>7
  <1> QED
    BY <1>1, <1>2, <1>3 DEF Next, parse_tup_head, Broken, TooBig

-----------------------------------------------------------------------------
(* A datagram whose fragments come one after the other comes out.          *)

\* A fragment that is part of a run has the run's datagram.
LEMMA Followed ==
    ASSUME TypeOK, NEW f \in Fragments, FollowRun(f)
    PROVE  /\ run'.of = Of(f)
           /\ Of(f) = run.of => run'.fragments = run.fragments \cup {f} /\ run'.first = run.first
           /\ Of(f) # run.of => run'.fragments = {f} /\ run'.first = (ip_packet.valid = 0)
  <1>1. run \in [of : Datagrams \cup {Nothing}, fragments : SUBSET Fragments, first : BOOLEAN]
    BY DEF TypeOK
  <1> QED
    BY <1>1 DEF FollowRun

LEMMA RunNamedStep == TypeOK /\ RunNamed /\ [Next]_vars => RunNamed'
  <1> SUFFICES ASSUME TypeOK, RunNamed, [Next]_vars PROVE RunNamed'
    OBVIOUS
  <1>1. ASSUME UNCHANGED <<ip_packet, run>> PROVE RunNamed'
    BY <1>1 DEF RunNamed
  <1>2. ASSUME NEW f \in Fragments, TooBig(f) PROVE RunNamed'
    <2>1. Counted(f) \in RecordType
      BY CountedParts
    <2>2. ip_packet'.valid = 0
      BY <1>2, <2>1 DEF TooBig, RecordType
    <2> QED
      BY <2>2 DEF RunNamed
  <1>3. ASSUME NEW f \in Fragments, Reassemble(f) PROVE RunNamed'
    <2>1. run'.of = Of(f) /\ ip_packet' = Counted(f)
      BY <1>3, Followed DEF Reassemble
    <2> QED
      BY <2>1, FragmentParts, StartedParts, CountedParts DEF RunNamed
  <1> QED
    BY <1>1, <1>2, <1>3 DEF Next, parse_tup_head, Broken, NotFragmented, vars

LEMMA RunHoldsStep == TypeOK /\ RunNamed /\ RunHolds /\ [Next]_vars => RunHolds'
  <1> DEFINE d == run'.of
             HoldsNow(e, C) == /\ Measures(ip_packet', e, C)
                               /\ \A g \in C : arrived'[g] > 0 /\ Fits(g)
                               /\ \A i \in Covered(C) : data'[i] = e
  <1> SUFFICES ASSUME TypeOK, RunNamed, RunHolds, [Next]_vars,
                      d \in Datagrams, OnceNow(d),
                      Unique(d), Total(d) <= MaxSize, run'.first => d.id = ntohs(d.id)
               PROVE  /\ ip_packet'.valid = 1 /\ ip_packet'.id = d.id
                      /\ HoldsNow(d, run'.fragments)
                      /\ run'.fragments = FragmentsOf(d) => d \in handed'
    BY DEF RunHolds, Unique, Once, OnceNow, Holds
  <1>1. CASE UNCHANGED <<ip_packet, data, arrived, run, handed>>
    BY <1>1 DEF RunHolds, Once, OnceNow, Holds
  <1>2. ASSUME NEW f \in Fragments, NotFragmented(f)
        PROVE  /\ ip_packet'.valid = 1 /\ ip_packet'.id = d.id
               /\ HoldsNow(d, run'.fragments)
               /\ run'.fragments = FragmentsOf(d) => d \in handed'
    <2>1. UNCHANGED <<ip_packet, data, run>> /\ Arrive(f) /\ handed \subseteq handed'
      BY <1>2 DEF NotFragmented, HandOn
    <2>2. d = run.of
      BY <2>1
    <2>3. Once(run.of)
      BY <2>1, <2>2, Arriving
    <2>4. /\ ip_packet.valid = 1 /\ ip_packet.id = d.id /\ Holds(d, run.fragments)
          /\ run.fragments = FragmentsOf(d) => d \in handed
      BY <2>1, <2>2, <2>3 DEF RunHolds
    <2>5. \A g \in run.fragments : arrived'[g] > 0
      <3>1. \A g \in run.fragments : g \in Fragments /\ arrived[g] > 0 /\ arrived[g] \in Nat
        BY <2>4, FragmentIn DEF Holds, Measures, TypeOK
      <3> QED
        BY <2>1, <3>1, Arriving
    <2> QED
      BY <2>1, <2>2, <2>4, <2>5 DEF Holds
  <1>3. ASSUME NEW f \in Fragments, TooBig(f) PROVE FALSE
    <2>1. d = Of(f)
      BY <1>3, Followed DEF TooBig
    <2>2. Offset(f) + l4_size(f) <= Total(d) /\ Offset(f) \in Nat /\ l4_size(f) \in Nat
          /\ Total(d) \in Nat
      BY <2>1, FragmentParts, Parts
    <2> QED
      BY <1>3, <2>2 DEF TooBig, Fits
  <1>4. ASSUME NEW f \in Fragments, Reassemble(f)
        PROVE  /\ ip_packet'.valid = 1 /\ ip_packet'.id = d.id
               /\ HoldsNow(d, run'.fragments)
               /\ run'.fragments = FragmentsOf(d) => d \in handed'
    <2>1. /\ d = Of(f) /\ ip_packet' = Counted(f) /\ FollowRun(f) /\ Arrive(f)
      BY <1>4, Followed DEF Reassemble
    <2>2. OnceNow(Of(f)) /\ Once(Of(f)) /\ Of(f) \in Datagrams
      BY <2>1, Arriving
    <2>3. /\ ip_packet'.valid = 1 /\ ip_packet'.id = d.id
          /\ HoldsNow(d, run'.fragments)
      <3>1. CASE Of(f) = run.of
        <4>1. run'.fragments = run.fragments \cup {f} /\ run'.first = run.first
          BY <2>1, <3>1, Followed
        <4>2. ip_packet.valid = 1 /\ ip_packet.id = Of(f).id /\ Holds(Of(f), run.fragments)
          BY <2>1, <2>2, <3>1, <4>1 DEF RunHolds
        <4>3. Continues(f)
          BY <4>2 DEF Continues, ip_id
        <4> PICK C : C = run.fragments
          OBVIOUS
        <4>4. Holds(Of(f), C \cup {f})'
          BY <1>4, <2>2, <4>2, <4>3, Joined
        <4>5. HoldsNow(Of(f), C \cup {f})
          BY <4>4 DEF Holds
        <4> QED
          BY <2>1, <4>1, <4>2, <4>3, <4>5, StartedParts, CountedParts
      <3>2. CASE Of(f) # run.of
        <4>1. run'.fragments = {f} /\ run'.first = (ip_packet.valid = 0)
          BY <2>1, <3>2, Followed
        <4>2. ~Continues(f)
          <5> SUFFICES ASSUME Continues(f) PROVE FALSE
            OBVIOUS
          <5>1. ip_packet.valid = 1 /\ ip_packet.id \in Names(Of(f))
            BY DEF Continues, ip_id, Names
          <5>2. run.of \in Datagrams /\ ip_packet.id \in Names(run.of)
            BY <5>1 DEF RunNamed
          <5> QED
            BY <2>1, <3>2, <5>1, <5>2, NamedApart
        <4>3. Holds(Of(f), {f})'
          BY <1>4, <4>2, Begun
        <4>4. Started(f).id = d.id
          <5>1. ip_packet.valid \in {0, 1}
            BY DEF TypeOK
          <5> QED
            BY <2>1, <4>1, <5>1, StartedParts DEF ip_id
        <4>5. HoldsNow(Of(f), {f})
          BY <4>3 DEF Holds
        <4> QED
          BY <2>1, <4>1, <4>4, <4>5, StartedParts, CountedParts
      <3> QED
        BY <3>1, <3>2
    <2>5. ASSUME run'.fragments = FragmentsOf(d) PROVE d \in handed'
      <3>1. ip_packet'.len = ip_packet'.reas_len
        BY <2>3, <2>5, WholeOrNot
      <3> QED
        BY <1>4, <2>1, <3>1 DEF Reassemble, HandOn
    <2> QED
      BY <2>3, <2>5
  <1> QED
    BY <1>1, <1>2, <1>3, <1>4 DEF Next, parse_tup_head, Broken, vars

-----------------------------------------------------------------------------

\* Whatever the fragments of a user's datagrams do on their way, the record and its history
\* stay consistent.
THEOREM Inductive == Spec => []IInv
  <1>1. Init => IInv
    <2> SUFFICES ASSUME Init PROVE IInv
      OBVIOUS
    <2>1. ip_packet.valid = 0 /\ out = Nothing /\ run.of = Nothing
      BY DEF Init
    <2> QED
      BY <2>1, TypeStart DEF IInv, RecordHolds, WholeDatagram, RunNamed, RunHolds
  <1>2. IInv /\ [Next]_vars => IInv'
    BY TypeStep, RecordHoldsStep, WholeStep, RunNamedStep, RunHoldsStep DEF IInv
  <1> QED
    BY <1>1, <1>2, PTL DEF Spec

\* Every variable has its type, and nothing is written behind the record's buffer: what
\* parse_tup_head tests before the copy keeps every byte of every fragment inside.
THEOREM TypeCorrect == Spec => []TypeOK
  <1>1. IInv => TypeOK
    BY DEF IInv
  <1> QED
    BY <1>1, Inductive, PTL

\* What parse_tup_head hands to layer 4 is a whole datagram, although it only adds up the
\* bytes that came: true for every set of datagrams, however they are cut, as long as no
\* fragment comes twice and no other datagram has the identification.
THEOREM WholeDatagramAlways == Spec => []WholeDatagram
  <1>1. IInv => WholeDatagram
    BY DEF IInv
  <1> QED
    BY <1>1, Inductive, PTL

\* A datagram whose fragments come one after the other, in any order, is handed on with the
\* last of them, unless the two byte orders of its identification matter.
THEOREM DatagramComesOutAlways == Spec => []DatagramComesOut
  <1>1. IInv => DatagramComesOut
    <2> SUFFICES ASSUME TypeOK, RunHolds PROVE DatagramComesOut
      BY DEF IInv
    <2>1. run.of \in Datagrams \cup {Nothing}
      BY DEF TypeOK
    <2> QED
      BY <2>1 DEF RunHolds, DatagramComesOut
  <1> QED
    BY <1>1, Inductive, PTL
=============================================================================
