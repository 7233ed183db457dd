----------------------------- MODULE SigGbProofs -----------------------------
(* What holds of SigGb for any packets, and whatever bytes lie behind them.   *)
EXTENDS SigGb, SequenceTheorems, TLAPS

\* The messages that DecodedAsSent leaves out, of which InMessage leaves out the most.
Exempt(p) == Lists(p) \/ ~Consistent(p)

\* TypeOK, with the packet one of those that arrive.
Typed ==
    /\ pkt \in Packets \cup {NoPacket}
    /\ layer \in Layers
    /\ (layer = "idle") <=> (pkt = NoPacket)
    /\ at \in Nat \ {0}
    /\ len \in 0..(Wrap - 1)
    /\ value \in [Fields -> Values]
    /\ cdr \in [type : Types, result : Results]
    /\ stray \in BOOLEAN
    /\ ret \in {"succ", "fail"}

\* Before the walk nothing is astray.
NotYet == layer \notin {"gmm_ies", "done"} => ~stray

\* May the count be lost before the k-th IE?
Lost(p, k) ==
    \/ ~Whole(p)
    \/ p.msg \in Accepts /\ \E j \in 1..(k - 1) : p.opt[j].iei \in {IDENTITY, N_PDU_LIST}

\* Until then the bytes the code counts are those from the IE that is looked at to the end.
CountRight ==
    layer = "gmm_ies" =>
        /\ at \in 1..(Len(pkt.opt) + 1)
        /\ ~Lost(pkt, at) => len = pkt.left[at]

\* Was there one among the IEs before the k-th that asks for a complete?
Seen(p, k) == \E j \in 1..(k - 1) : p.opt[j].iei \in Allocates

\* The result so far.
ResultSoFar ==
    cdr.result = "incomplete" <=> IF pkt.msg \in Accepts THEN Seen(pkt, at) ELSE ~Over(pkt)

ResultWalked == layer = "gmm_ies" => ResultSoFar

IInv == Typed /\ NotYet /\ InMessage /\ CountRight /\ ResultWalked /\ ResultTells

\* The part of Typed that the handlers change.
Contents ==
    /\ value \in [Fields -> Values]
    /\ cdr \in [type : Types, result : Results]
    /\ ret \in {"succ", "fail"}

-----------------------------------------------------------------------------

\* The sizes of the optional IEs of a packet, and the bytes that are left before each.
LEMMA OptSizes ==
    ASSUME NEW p \in Packets
    PROVE  /\ Len(p.opt) \in Nat /\ Len(p.left) = Len(p.opt) + 1
           /\ \A i \in 1..Len(p.opt) :
                 /\ p.opt[i] \in GmmIes /\ p.opt[i].size \in Nat \ {0}
                 /\ p.left[i + 1] \in Nat /\ p.left[i] < Wrap
                 /\ p.left[i] = p.opt[i].size + p.left[i + 1]
<1>1. p \in Packet
  BY PacketsAssumption, Zenon
<1>2. p.opt \in Seq(GmmIes) /\ p.left \in Seq(Nat)
  BY <1>1 DEF Packet
<1>3. /\ Len(p.left) = Len(p.opt) + 1
      /\ \A i \in 1..Len(p.opt) : p.left[i] = p.opt[i].size + p.left[i + 1]
      /\ \A i \in 1..Len(p.left) : p.head + p.left[i] < Wrap
  BY PacketsAssumption, Zenon
<1> DEFINE s == p.opt
           l == p.left
           h == p.head
<1>4. s \in Seq(GmmIes) /\ l \in Seq(Nat) /\ h \in Nat
  BY <1>1, <1>2 DEF Packet
<1>8. \A i \in 1..Len(l) : h + l[i] < Wrap
  BY <1>3, Zenon DEF h, l
<1> HIDE DEF s, l, h
<1>5. /\ Len(s) \in Nat /\ \A i \in 1..Len(s) : s[i] \in GmmIes
      /\ \A i \in 1..Len(l) : l[i] \in Nat
  BY <1>4
<1>9. \A i \in 1..Len(l) : l[i] < Wrap
  BY <1>4, <1>5, <1>8, PacketsAssumption
<1>6. \A i \in 1..Len(s) : i \in 1..(Len(s) + 1) /\ i + 1 \in 1..(Len(s) + 1)
  BY <1>5
<1>7. \A ie \in GmmIes : ie.size \in Nat \ {0}
  BY DEF GmmIes
<1> QED
  BY <1>3, <1>5, <1>6, <1>7, <1>9, Zenon DEF s, l

\* Taking the first part of what is left leaves the second.
LEMMA TakeFirst ==
    ASSUME NEW w \in Nat, w > 0, NEW x \in Nat, NEW y \in Nat, x + y < w
    PROVE  (x + y + w - (x % w)) % w = y
<1>1. x % w = x
  OBVIOUS
<1>2. x + y + w - x = y + w
  OBVIOUS
<1>3. (y + w) % w = y
  OBVIOUS
<1> QED
  BY <1>1, <1>2, <1>3

\* What is left behind the fixed part is in range, and right in a message that has all its bytes.
LEMMA LeftCounts ==
    ASSUME NEW p \in Packets
    PROVE  /\ LeftOf(p) \in 0..(Wrap - 1)
           /\ Whole(p) => LeftOf(p) = p.left[1] /\ ~Beheaded(p)
<1>1. p \in Packet
  BY PacketsAssumption, Zenon
<1>2. 1 \in 1..Len(p.left)
  <2>1. Len(p.left) = Len(p.opt) + 1
    BY PacketsAssumption, Zenon
  <2>2. Len(p.opt) \in Nat
    BY <1>1 DEF Packet
  <2> QED
    BY <2>1, <2>2
<1> DEFINE h == p.head
           l == p.left[1]
           z == p.size
<1>3. h + l < Wrap /\ z <= h + l
  BY <1>2, PacketsAssumption, Zenon
<1>4. h \in Nat /\ l \in Nat /\ z \in Nat
  BY <1>1, <1>2 DEF Packet
<1>5. Wrap \in Nat /\ Wrap > 0
  BY PacketsAssumption
<1>6. (Whole(p) <=> z = h + l) /\ (Beheaded(p) <=> z < h) /\ LeftOf(p) = (z + Wrap - h) % Wrap
  BY DEF Whole, Beheaded, LeftOf
<1> HIDE DEF h, l, z
<1>7. z + Wrap - h \in Nat
  BY <1>3, <1>4, <1>5
<1>8. LeftOf(p) \in 0..(Wrap - 1)
  BY <1>5, <1>6, <1>7
<1>9. ASSUME z = h + l PROVE LeftOf(p) = l /\ ~(z < h)
  <2>1. z + Wrap - h = l + Wrap
    BY <1>4, <1>5, <1>9
  <2>2. (l + Wrap) % Wrap = l
    BY <1>3, <1>4, <1>5
  <2> QED
    BY <1>4, <1>6, <1>9, <2>1, <2>2
<1> QED
  BY <1>6, <1>8, <1>9 DEF l

\* Whatever is taken, the length stays in its range.
LEMMA LengthWraps ==
    ASSUME len \in 0..(Wrap - 1), NEW taken \in Nat
    PROVE  (len + Wrap - (taken % Wrap)) % Wrap \in 0..(Wrap - 1)
<1>1. taken % Wrap \in 0..(Wrap - 1) /\ Wrap \in Nat /\ Wrap > 0
  BY PacketsAssumption
<1>2. len + Wrap - (taken % Wrap) \in Nat
  BY <1>1
<1> QED
  BY <1>1, <1>2

\* A handler stores fields and nothing else.
LEMMA StoreTyped ==
    ASSUME value \in [Fields -> Values], NEW fields,
           \/ \E v \in Values : StoreAs(fields, v)
           \/ Store(fields) \/ StoreIe(fields)
    PROVE  value' \in [Fields -> Values]
BY DEF StoreAs, Store, StoreIe, Values

LEMMA ReportTyped ==
    ASSUME NEW t \in Types, NEW r \in Results, Report(t, r)
    PROVE  cdr' \in [type : Types, result : Results]
BY DEF Report

LEMMA ResultTyped ==
    ASSUME cdr \in [type : Types, result : Results], NEW r \in Results, Result(r)
    PROVE  cdr' \in [type : Types, result : Results]
BY DEF Result

\* At first there is no packet.
LEMMA Start == Init => IInv
<1> SUFFICES ASSUME Init PROVE IInv
  OBVIOUS
<1>1. Typed
  <2>1. stray \in BOOLEAN
    BY Zenon DEF Init
  <2>2. value \in [Fields -> Values] /\ cdr \in [type : Types, result : Results]
    BY DEF Init, Cleared, NoCdr, Values, Types, Results
  <2>3. len \in 0..(Wrap - 1)
    BY PacketsAssumption DEF Init
  <2> QED
    BY <2>1, <2>2, <2>3 DEF Typed, Init, Layers
<1>2. NotYet /\ InMessage /\ CountRight /\ ResultWalked /\ ResultTells
  BY DEF Init, NotYet, InMessage, CountRight, ResultWalked, ResultTells, Decoded
<1> QED
  BY <1>1, <1>2 DEF IInv

\* A step that does not walk, and neither begins to.
LEMMA OffTheWalk ==
    ASSUME IInv, layer # "idle", UNCHANGED <<pkt, stray, len>>,
           at' \in {at, at + 1},
           layer' \in Layers \ {"idle", "gmm_ies"},
           layer' = "done" \/ layer \notin {"gmm_ies", "done"},
           Contents', ResultTells'
    PROVE  IInv'
<1>1. Typed'
  <2>1. stray' \in BOOLEAN
    BY Zenon DEF IInv, Typed
  <2>2. at' \in Nat \ {0}
    BY DEF IInv, Typed
  <2> QED
    BY <2>1, <2>2 DEF IInv, Typed, Contents
<1>2. NotYet' /\ CountRight' /\ ResultWalked'
  BY DEF IInv, NotYet, CountRight, ResultWalked
<1>3. InMessage'
  BY DEF IInv, InMessage
<1> QED
  BY <1>1, <1>2, <1>3 DEF IInv

\* A walk begins with all bytes of the list.
LEMMA WalkBegins ==
    ASSUME IInv, layer = "message", Walk, value' \in [Fields -> Values],
           cdr' \in [type : Types, result : Results],
           cdr'.result = "incomplete" <=> pkt.msg \notin Accepts /\ ~Over(pkt)
    PROVE  IInv'
<1>1. /\ UNCHANGED <<pkt, ret>>
      /\ layer' = "gmm_ies" /\ at' = 1 /\ len' = LeftOf(pkt) /\ stray' = Beheaded(pkt)
      /\ value' \in [Fields -> Values]
  BY DEF Walk
<1>2. pkt \in Packets /\ pkt \in Packet
  BY PacketsAssumption DEF IInv, Typed
<1>3. Len(pkt.opt) \in Nat /\ Len(pkt.left) = Len(pkt.opt) + 1
  BY <1>2, PacketsAssumption DEF Packet
<1>4. /\ LeftOf(pkt) \in 0..(Wrap - 1)
      /\ Whole(pkt) => LeftOf(pkt) = pkt.left[1] /\ ~Beheaded(pkt)
  BY <1>2, LeftCounts
<1>5. Typed'
  <2>1. stray' \in BOOLEAN
    <3>1. Beheaded(pkt) \in BOOLEAN
      BY DEF Beheaded
    <3> QED
      BY <1>1, <3>1, Zenon
  <2>2. len' \in 0..(Wrap - 1)
    BY <1>1, <1>4
  <2> QED
    BY <1>1, <2>1, <2>2 DEF IInv, Typed, Layers
<1>6. NotYet' /\ InMessage'
  BY <1>1, <1>4 DEF IInv, NotYet, InMessage
<1>7. CountRight'
  BY <1>1, <1>3, <1>4 DEF CountRight, Lost
<1>8. ResultWalked'
  <2>1. ~Seen(pkt', at')
    BY <1>1 DEF Seen
  <2> QED
    BY <1>1, <2>1 DEF ResultWalked, ResultSoFar
<1>9. ResultTells'
  BY <1>1 DEF ResultTells, Decoded
<1> QED
  BY <1>5, <1>6, <1>7, <1>8, <1>9 DEF IInv

\* What is lost stays lost, and is so in the messages left out only.
LEMMA LostIsExempt ==
    ASSUME NEW p, Len(p.opt) \in Nat, NEW k \in 1..(Len(p.opt) + 1), Lost(p, k)
    PROVE  Exempt(p)
BY DEF Lost, Exempt, Lists, Holds, Consistent

LEMMA LostStays ==
    ASSUME NEW p, NEW k \in Nat, Lost(p, k)
    PROVE  Lost(p, k + 1)
BY DEF Lost

\* A walk goes on behind an IE, by its size unless the message is one of those left out.
LEMMA WalkGoesOn ==
    ASSUME IInv, layer = "gmm_ies", at <= Len(pkt.opt),
           NEW n \in Nat, NEW taken \in Nat, MoveBy(n, taken),
           n = pkt.opt[at].size,
           ~Lost(pkt, at + 1) => taken = n,
           value' \in [Fields -> Values], cdr' \in [type : Types, result : Results],
           ResultSoFar'
    PROVE  IInv'
<1>1. /\ UNCHANGED <<pkt, layer, ret>> /\ at' = at + 1
      /\ len' = (len + Wrap - (taken % Wrap)) % Wrap
      /\ stray' = (stray \/ n # pkt.opt[at].size \/ CutIe(at))
  BY DEF MoveBy
<1>2. pkt \in Packets /\ pkt \in Packet
  BY PacketsAssumption DEF IInv, Typed
<1>3. at \in 1..Len(pkt.opt) /\ at + 1 \in 1..(Len(pkt.opt) + 1) /\ Len(pkt.opt) \in Nat
  BY <1>2 DEF IInv, Typed, Packet
<1>4. Typed'
  <2>1. stray' \in BOOLEAN
    BY <1>1, Zenon
  <2>2. len' \in 0..(Wrap - 1)
    BY <1>1, LengthWraps DEF IInv, Typed
  <2>3. at' \in Nat \ {0}
    BY <1>1 DEF IInv, Typed
  <2> QED
    BY <1>1, <2>1, <2>2, <2>3 DEF IInv, Typed
<1>5. NotYet'
  BY <1>1 DEF NotYet
<1>6. InMessage'
  <2>1. Whole(pkt) => stray' = stray
    BY <1>1, Zenon DEF IInv, Typed, CutIe
  <2> QED
    BY <1>1, <2>1 DEF IInv, InMessage
<1>7. CountRight'
  <2> SUFFICES ASSUME ~Lost(pkt, at + 1) PROVE len' = pkt.left[at']
    BY <1>1, <1>3 DEF CountRight
  <2> DEFINE x == pkt.opt[at].size
             y == pkt.left[at + 1]
  <2>1. len = pkt.left[at] /\ taken = x
    BY <1>3, LostStays DEF IInv, CountRight
  <2>2. pkt.left[at] = x + y
    BY <1>2, <1>3, OptSizes, Zenon
  <2>3. x + y < Wrap
    BY <1>2, <1>3, <2>2, OptSizes, Zenon
  <2>4. x \in Nat /\ y \in Nat
    <3>1. x \in Nat \ {0} /\ y \in Nat
      BY <1>2, <1>3, OptSizes, Zenon
    <3> QED
      BY <3>1
  <2> HIDE DEF x, y
  <2>5. len' = y
    <3>1. Wrap \in Nat /\ Wrap > 0
      BY PacketsAssumption
    <3>2. (x + y + Wrap - (x % Wrap)) % Wrap = y
      BY <2>3, <2>4, <3>1, TakeFirst
    <3>3. len' = (x + y + Wrap - (x % Wrap)) % Wrap
      BY <1>1, <2>1, <2>2, Zenon
    <3> QED
      BY <3>2, <3>3, Zenon
  <2>6. at' = at + 1
    BY <1>1
  <2> QED
    BY <2>5, <2>6, Zenon DEF y
<1>8. ResultWalked' /\ ResultTells'
  BY <1>1 DEF ResultWalked, ResultTells, Decoded
<1> QED
  BY <1>4, <1>5, <1>6, <1>7, <1>8 DEF IInv

\* The end of the list is where the bytes end: nothing is stored from behind it.
LEMMA NoStray ==
    ASSUME IInv, NEW m \in Messages, NEW stored, Stray(m, stored)
    PROVE  Lost(pkt, at)
<1> SUFFICES ASSUME ~Lost(pkt, at) PROVE FALSE
  OBVIOUS
<1>1. layer = "gmm_ies" /\ len # 0 /\ at > Len(pkt.opt)
  BY DEF Stray, Walking
<1>2. pkt \in Packets /\ pkt \in Packet
  BY <1>1, PacketsAssumption DEF IInv, Typed
<1>3. Len(pkt.opt) \in Nat
  BY <1>2 DEF Packet
<1>4. at = Len(pkt.opt) + 1 /\ len = pkt.left[at]
  BY <1>1, <1>3 DEF IInv, CountRight
<1>5. pkt.left[Len(pkt.opt) + 1] = 0
  BY <1>2, PacketsAssumption
<1> QED
  BY <1>1, <1>4, <1>5

\* The handler returns.
LEMMA ReturnKeeps ==
    ASSUME IInv, layer # "idle", NEW r \in {"succ", "fail"}, Return(r),
           value' \in [Fields -> Values], cdr' \in [type : Types, result : Results],
           ResultTells'
    PROVE  IInv'
<1>1. layer' = "done" /\ ret' = r /\ UNCHANGED <<pkt, at, len, stray>>
  BY DEF Return
<1> QED
  BY <1>1, OffTheWalk DEF Contents, Layers

LEMMA FailKeeps ==
    ASSUME IInv, layer # "idle", Fail
    PROVE  IInv'
<1>1. ret' = "fail" /\ Return("fail") /\ UNCHANGED <<value, cdr>>
  BY DEF Fail, Return
<1>2. ResultTells'
  BY <1>1 DEF ResultTells, Decoded
<1> QED
  BY <1>1, <1>2, ReturnKeeps DEF IInv, Typed

LEMMA StoresKeeps ==
    ASSUME IInv, layer # "idle", NEW fields, Stores(fields),
           cdr' \in [type : Types, result : Results], ResultTells'
    PROVE  IInv'
BY ReturnKeeps, StoreTyped DEF Stores, IInv, Typed

LEMMA GotoKeeps ==
    ASSUME IInv, layer \notin {"idle", "gmm_ies", "done"},
           NEW l \in Layers \ {"idle", "gmm_ies", "done"}, Goto(l)
    PROVE  IInv'
<1>1. layer' = l /\ UNCHANGED <<pkt, at, len, value, cdr, stray, ret>>
  BY DEF Goto
<1>2. ResultTells'
  BY <1>1 DEF ResultTells, Decoded
<1> QED
  BY <1>1, <1>2, OffTheWalk DEF Contents, IInv, Typed

\* The IE at hand is one of the packet, and has the size the standard gives it.
LEMMA AtHand ==
    ASSUME IInv, layer = "gmm_ies", at <= Len(pkt.opt)
    PROVE  /\ at \in 1..Len(pkt.opt) /\ pkt.opt[at].size \in Nat
           /\ \A s \in FixedSizes : pkt.opt[at].iei = s[1] => pkt.opt[at].size = s[2]
           /\ pkt.msg = "rau_request" /\ pkt.opt[at].iei = DRX_OR_OPTIONS => pkt.opt[at].size = 3
<1>1. pkt \in Packets /\ pkt \in Packet
  BY PacketsAssumption DEF IInv, Typed
<1>2. at \in 1..Len(pkt.opt) /\ pkt.opt \in Seq(GmmIes)
  BY <1>1 DEF IInv, Typed, Packet
<1>3. pkt.opt[at].size \in Nat
  <2>1. pkt.opt[at] \in GmmIes
    BY <1>2
  <2> QED
    BY <2>1 DEF GmmIes
<1> QED
  BY <1>1, <1>2, <1>3, PacketsAssumption

\* An IE that asks for no complete leaves the result as it is.
LEMMA ResultStays ==
    ASSUME IInv, layer = "gmm_ies", at <= Len(pkt.opt), UNCHANGED <<pkt, cdr>>, at' = at + 1,
           pkt.msg \in Accepts => pkt.opt[at].iei \notin Allocates
    PROVE  ResultSoFar'
<1>1. at \in Nat \ {0}
  BY DEF IInv, Typed
<1>2. pkt.msg \in Accepts => (Seen(pkt, at + 1) <=> Seen(pkt, at))
  BY <1>1 DEF Seen
<1> QED
  BY <1>2 DEF IInv, ResultWalked, ResultSoFar

\* One that does sets it to incomplete.
LEMMA ResultSet ==
    ASSUME IInv, layer = "gmm_ies", UNCHANGED pkt, at' = at + 1, Result("incomplete"),
           pkt.msg \in Accepts, pkt.opt[at].iei \in Allocates
    PROVE  ResultSoFar'
<1>1. at \in Nat \ {0}
  BY DEF IInv, Typed
<1>2. Seen(pkt, at + 1)
  BY <1>1 DEF Seen
<1>3. cdr'.result = "incomplete"
  BY DEF Result, IInv, Typed
<1> QED
  BY <1>2, <1>3 DEF ResultSoFar

\* The loop has missed none of the IEs that ask for a complete: the result is that of the list.
LEMMA EndTells ==
    ASSUME IInv, layer = "gmm_ies", UNCHANGED <<pkt, cdr>>,
           pkt.msg \in Accepts /\ ~Holds(pkt, {IDENTITY}) /\ Whole(pkt) /\ Holds(pkt, Allocates)
               => Seen(pkt, at)
    PROVE  ResultTells'
<1>1. pkt \in Packet
  BY PacketsAssumption DEF IInv, Typed
<1>2. Len(pkt.opt) \in Nat /\ at \in 1..(Len(pkt.opt) + 1)
  BY <1>1 DEF IInv, CountRight, Packet
<1>3. Seen(pkt, at) => Holds(pkt, Allocates)
  BY <1>2 DEF Seen, Holds
<1>4. pkt.msg \in Accepts => (Over(pkt) <=> ~Holds(pkt, Allocates))
  BY DEF Over, Accepts
<1> QED
  BY <1>3, <1>4 DEF IInv, ResultWalked, ResultSoFar, ResultTells

\* Behind an IE that ends the loop none can follow that asks for a complete.
LEMMA NoneBehind ==
    ASSUME IInv, layer = "gmm_ies", at <= Len(pkt.opt),
           pkt.msg \in Accepts => pkt.opt[at].iei \notin KnownIes[pkt.msg] \ {GMM_CAUSE}
    PROVE  pkt.msg \in Accepts /\ Holds(pkt, Allocates) => Seen(pkt, at)
<1> SUFFICES ASSUME pkt.msg \in Accepts, Holds(pkt, Allocates) PROVE Seen(pkt, at)
  OBVIOUS
<1>1. pkt \in Packets /\ pkt \in Packet
  BY PacketsAssumption DEF IInv, Typed
<1>2. Len(pkt.opt) \in Nat /\ at \in 1..Len(pkt.opt)
  BY <1>1 DEF IInv, Typed, Packet
<1>3. PICK i \in 1..Len(pkt.opt) : pkt.opt[i].iei \in Allocates
  BY DEF Holds
<1>4. ~(at <= i)
  BY <1>1, <1>2, <1>3, OrderAssumption
<1>5. i \in 1..(at - 1)
  BY <1>2, <1>3, <1>4
<1> QED
  BY <1>3, <1>5 DEF Seen

\* With no byte left and the count not lost, the walk is behind the last IE.
LEMMA AtEnd ==
    ASSUME IInv, layer = "gmm_ies", len = 0, ~Lost(pkt, at)
    PROVE  at = Len(pkt.opt) + 1
<1>1. pkt \in Packets /\ pkt \in Packet
  BY PacketsAssumption DEF IInv, Typed
<1>2. Len(pkt.opt) \in Nat /\ at \in 1..(Len(pkt.opt) + 1)
  BY <1>1 DEF IInv, CountRight, Packet
<1>3. pkt.left[at] = 0
  BY DEF IInv, CountRight
<1> SUFFICES ASSUME at \in 1..Len(pkt.opt) PROVE FALSE
  BY <1>2
<1>4. /\ pkt.left[at] = pkt.opt[at].size + pkt.left[at + 1]
      /\ pkt.opt[at].size \in Nat \ {0} /\ pkt.left[at + 1] \in Nat
  BY <1>1, OptSizes, Zenon
<1> QED
  BY <1>3, <1>4

\* All IEs that ask for a complete were seen then.
LEMMA AllSeen ==
    ASSUME IInv, layer = "gmm_ies", len = 0,
           pkt.msg \in Accepts, ~Holds(pkt, {IDENTITY}), Whole(pkt), Holds(pkt, Allocates)
    PROVE  Seen(pkt, at)
<1>1. pkt \in Packets /\ pkt \in Packet
  BY PacketsAssumption DEF IInv, Typed
<1>2. Len(pkt.opt) \in Nat /\ at \in 1..(Len(pkt.opt) + 1)
  BY <1>1 DEF IInv, CountRight, Packet
<1>3. CASE Lost(pkt, at)
  <2>1. PICK j \in 1..(at - 1) : pkt.opt[j].iei \in {IDENTITY, N_PDU_LIST}
    BY <1>3 DEF Lost, Accepts
  <2>2. pkt.opt[j].iei \in Allocates
    BY <1>2, <2>1 DEF Holds, Allocates
  <2> QED
    BY <2>1, <2>2 DEF Seen
<1>4. CASE ~Lost(pkt, at)
  <2>1. at = Len(pkt.opt) + 1
    BY <1>4, AtEnd
  <2>2. PICK i \in 1..Len(pkt.opt) : pkt.opt[i].iei \in Allocates
    BY DEF Holds
  <2>3. i \in 1..(at - 1)
    BY <1>2, <2>1, <2>2
  <2> QED
    BY <2>2, <2>3 DEF Seen
<1> QED
  BY <1>3, <1>4

\* An IE that is only skipped, and one that is stored.
LEMMA SkipKeeps ==
    ASSUME IInv, layer = "gmm_ies", at <= Len(pkt.opt), NEW n \in Nat, Skip(n),
           n = pkt.opt[at].size, pkt.msg \in Accepts => pkt.opt[at].iei \notin Allocates
    PROVE  IInv'
<1>1. /\ MoveBy(n, n) /\ UNCHANGED <<value, cdr, pkt>> /\ at' = at + 1
  BY DEF Skip, MoveBy
<1>2. ResultSoFar'
  BY <1>1, ResultStays
<1> QED
  BY <1>1, <1>2, WalkGoesOn DEF IInv, Typed

LEMMA StoreAndSkipKeeps ==
    ASSUME IInv, layer = "gmm_ies", at <= Len(pkt.opt), NEW fields, NEW n \in Nat,
           StoreAndSkip(fields, n), UNCHANGED cdr, n = pkt.opt[at].size, pkt.msg \notin Accepts
    PROVE  IInv'
<1>1. /\ MoveBy(n, n) /\ UNCHANGED pkt /\ at' = at + 1 /\ value' \in [Fields -> Values]
  BY StoreTyped DEF StoreAndSkip, MoveBy, IInv, Typed
<1>2. ResultSoFar'
  BY <1>1, ResultStays
<1> QED
  BY <1>1, <1>2, WalkGoesOn DEF IInv, Typed

\* The IE that the loop looks for last: the cause in the accept messages.
LEMMA EndKeeps ==
    ASSUME IInv, layer = "gmm_ies", at <= Len(pkt.opt), NEW fields, StoreAndEnd(fields),
           pkt.msg \in Accepts => pkt.opt[at].iei = GMM_CAUSE
    PROVE  IInv'
<1>1. Return("succ") /\ StoreIe(fields) /\ UNCHANGED <<pkt, cdr>>
  BY DEF StoreAndEnd, Return
<1>2. ResultTells'
  BY <1>1, NoneBehind, EndTells
<1>3. value' \in [Fields -> Values]
  BY <1>1, StoreTyped DEF IInv, Typed
<1> QED
  BY <1>1, <1>2, <1>3, ReturnKeeps DEF IInv, Typed

\* A P-TMSI that is stored.
LEMMA StoreTmsiKeeps ==
    ASSUME IInv, layer = "gmm_ies", pkt.msg \in Accepts, Known(P_TMSI), StoreTmsi
    PROVE  IInv'
<1>1. at <= Len(pkt.opt) /\ pkt.opt[at].size = 7 /\ pkt.opt[at].iei \in Allocates
  BY AtHand DEF Known, Allocates, FixedSizes, P_TMSI, TMSI_STATUS, READY_TIMER, FLOW_ID, SIGNATURE, AUTH_RESPONSE
<1>2. value' \in [Fields -> Values]
  BY StoreTyped DEF StoreTmsi, IInv, Typed
<1>3. cdr' \in [type : Types, result : Results]
  BY ResultTyped DEF StoreTmsi, IInv, Typed, Results
<1>4. MoveBy(7, 7) /\ UNCHANGED pkt /\ at' = at + 1 /\ Result("incomplete")
  BY DEF StoreTmsi, MoveBy
<1>5. ResultSoFar'
  BY <1>1, <1>4, ResultSet
<1> QED
  BY <1>1, <1>2, <1>3, <1>4, <1>5, WalkGoesOn

\* What is taken for a list's length is a number, whatever byte it is read from.
LEMMA TakenTyped ==
    ASSUME pkt \in Packet, at \in 1..Len(pkt.opt), NEW n \in TakenByList
    PROVE  n \in Nat
<1>1. ASSUME at + 1 <= Len(pkt.opt) PROVE pkt.opt[at + 1].second \in 0..255
  <2>1. pkt.opt \in Seq(GmmIes) /\ at + 1 \in 1..Len(pkt.opt)
    BY <1>1 DEF Packet
  <2>2. pkt.opt[at + 1] \in GmmIes
    BY <2>1
  <2> QED
    BY <2>2 DEF GmmIes
<1>2. StrayBytes \subseteq 0..255
  BY PacketsAssumption
<1>3. SecondByte(at + 1) \subseteq 0..255
  BY <1>1, <1>2 DEF SecondByte
<1>4. PICK b \in SecondByte(at + 1) : n = 2 + b
  BY DEF TakenByList
<1>5. b \in 0..255
  BY <1>3, <1>4
<1> QED
  BY <1>4, <1>5

\* An IE of the accept messages whose length is read from the wrong byte.
LEMMA SkipListKeeps ==
    ASSUME IInv, layer = "gmm_ies", at <= Len(pkt.opt), pkt.msg \in Accepts, SkipList,
           \/ pkt.opt[at].iei = IDENTITY /\ UNCHANGED cdr
           \/ pkt.opt[at].iei = N_PDU_LIST /\ Result("incomplete")
    PROVE  IInv'
<1>1. at \in 1..Len(pkt.opt) /\ pkt.opt[at].size \in Nat
  BY AtHand
<1>2. Lost(pkt, at + 1)
  BY <1>1 DEF Lost
<1>3. PICK n \in TakenByList : MoveBy(pkt.opt[at].size, n) /\ UNCHANGED value
  BY DEF SkipList
<1>4. n \in Nat
  <2>1. pkt \in Packet
    BY PacketsAssumption DEF IInv, Typed
  <2> QED
    BY <1>1, <2>1, TakenTyped
<1>5. cdr' \in [type : Types, result : Results]
  BY ResultTyped DEF IInv, Typed, Results
<1>6. UNCHANGED pkt /\ at' = at + 1
  BY <1>3 DEF MoveBy
<1>7. ResultSoFar'
  BY <1>6, ResultStays, ResultSet DEF Allocates, IDENTITY, P_TMSI, N_PDU_LIST
<1> QED
  BY <1>1, <1>2, <1>3, <1>4, <1>5, <1>7, WalkGoesOn DEF IInv, Typed

\* What the loop takes for IEs behind the message.
LEMMA StrayKeeps ==
    ASSUME IInv, NEW m \in Messages, NEW stored, Stray(m, stored)
    PROVE  IInv'
<1>1. Lost(pkt, at)
  BY NoStray
<1>2. /\ layer = "gmm_ies" /\ layer' = "done" /\ ret' \in {"succ", "fail"} /\ stray' = TRUE
      /\ pkt.msg = m /\ UNCHANGED <<pkt, at, len>>
  BY DEF Stray, Walking
<1>3. pkt \in Packet
  BY <1>2, PacketsAssumption DEF IInv, Typed
<1>4. Len(pkt.opt) \in Nat /\ at \in 1..(Len(pkt.opt) + 1)
  BY <1>2, <1>3 DEF IInv, CountRight, Packet
<1>5. Lists(pkt) \/ ~Whole(pkt)
  BY <1>1, <1>4 DEF Lost, Lists, Holds
<1>6. Typed'
  <2>1. stray' \in BOOLEAN
    BY <1>2, Zenon
  <2>2. value' \in [Fields -> Values]
    BY StoreTyped DEF Stray, IInv, Typed, Values
  <2>3. cdr' \in [type : Types, result : Results]
    BY ResultTyped DEF Stray, IInv, Typed, Results
  <2> QED
    BY <1>2, <2>1, <2>2, <2>3 DEF IInv, Typed, Layers
<1>7. NotYet' /\ CountRight' /\ ResultWalked'
  BY <1>2 DEF NotYet, CountRight, ResultWalked
<1>8. InMessage'
  BY <1>2, <1>5 DEF InMessage
<1>9. ResultTells'
  <2>1. CASE pkt.msg \in Accepts
    <3> SUFFICES ASSUME ~Holds(pkt, {IDENTITY}), Whole(pkt)
                 PROVE  cdr'.result = "incomplete" /\ ~Over(pkt)
      BY <1>2, <2>1 DEF ResultTells, Decoded
    <3>1. PICK j \in 1..(at - 1) : pkt.opt[j].iei \in {IDENTITY, N_PDU_LIST}
      BY <1>1, <2>1 DEF Lost, Accepts
    <3>2. j \in 1..Len(pkt.opt) /\ pkt.opt[j].iei \in Allocates
      BY <1>4, <3>1 DEF Holds, Allocates
    <3>3. Seen(pkt, at) /\ Holds(pkt, Allocates)
      BY <3>1, <3>2 DEF Seen, Holds
    <3>4. cdr.result = "incomplete"
      BY <1>2, <2>1, <3>3 DEF IInv, ResultWalked, ResultSoFar
    <3>5. cdr'.result = "incomplete"
      BY <3>4 DEF Stray, Result, IInv, Typed
    <3> QED
      BY <2>1, <3>3, <3>5 DEF Over, Accepts
  <2>2. CASE pkt.msg \notin Accepts
    <3>2. cdr' = cdr
      BY <1>2, <2>2 DEF Stray
    <3> QED
      BY <1>2, <2>2, <3>2 DEF ResultTells, IInv, ResultWalked, ResultSoFar
  <2> QED
    BY <2>1, <2>2
<1> QED
  BY <1>6, <1>7, <1>8, <1>9 DEF IInv

\* Both ends of a walk inside the list.
LEMMA WalkEnds ==
    ASSUME IInv, NEW m \in Messages, Unknown(m) \/ Ended(m)
    PROVE  IInv'
<1>1. /\ layer = "gmm_ies" /\ pkt.msg = m /\ Return("succ") /\ UNCHANGED <<pkt, value, cdr>>
  BY DEF Unknown, Ended, Walking, Return
<1>2. ResultTells'
  <2>1. CASE Unknown(m)
    <3>1. at <= Len(pkt.opt) /\ pkt.opt[at].iei \notin KnownIes[pkt.msg]
      BY <1>1, <2>1 DEF Unknown
    <3> QED
      BY <1>1, <3>1, NoneBehind, EndTells
  <2>2. CASE Ended(m)
    <3>1. len = 0
      BY <2>2 DEF Ended
    <3> QED
      BY <1>1, <3>1, AllSeen, EndTells
  <2> QED
    BY <2>1, <2>2
<1> QED
  BY <1>1, <1>2, ReturnKeeps DEF IInv, Typed

-----------------------------------------------------------------------------

\* The layers down to the message.
LEMMA HeadKeeps ==
    ASSUME IInv, HeadStep
    PROVE  IInv'
<1>1. CASE ParseNs
  BY <1>1, FailKeeps, GotoKeeps DEF ParseNs, Layers
<1>2. CASE BssgpHead
  BY <1>2, FailKeeps, GotoKeeps DEF BssgpHead, Layers
<1>3. CASE BssgpNoPdu
  BY <1>3, FailKeeps DEF BssgpNoPdu
<1>4. CASE BssgpIe
  <2>1. /\ layer = "bssgp_ies" /\ at' = at + 1 /\ UNCHANGED <<pkt, layer, len, cdr, stray, ret>>
        /\ Store(BssgpStores(pkt.ies[at]))
    BY <1>4 DEF BssgpIe, NextIe
  <2>2. Contents' /\ ResultTells'
    BY <2>1, StoreTyped DEF Contents, IInv, Typed, ResultTells, Decoded
  <2> QED
    BY <2>1, <2>2, OffTheWalk DEF Layers
<1>5. CASE BssgpPdu
  BY <1>5, GotoKeeps DEF BssgpPdu, Layers
<1>6. CASE LlcHead
  <2>1. layer = "llc"
    BY <1>6 DEF LlcHead
  <2>2. \/ Fail \/ Goto("gmm")
        \/ Return("succ") /\ pkt.sapi # "gmm" /\ UNCHANGED <<value, cdr, msc>>
    BY <1>6, Zenon DEF LlcHead
  <2>3. CASE Return("succ") /\ pkt.sapi # "gmm" /\ UNCHANGED <<value, cdr, msc>>
    <3>1. ResultTells'
      BY <2>3 DEF Return, ResultTells, Decoded
    <3> QED
      BY <2>1, <2>3, <3>1, ReturnKeeps DEF IInv, Typed
  <2> QED
    BY <2>1, <2>2, <2>3, FailKeeps, GotoKeeps DEF Layers
<1>7. CASE GmmHead
  <2>1. layer = "gmm"
    BY <1>7 DEF GmmHead
  <2>2. CASE Fail
    BY <2>1, <2>2, FailKeeps
  <2>3. CASE layer' = "message" /\ value' = ClearCauses /\ UNCHANGED <<pkt, at, len, cdr, stray, ret>>
    <3>1. Contents' /\ ResultTells'
      BY <2>3 DEF ClearCauses, Contents, IInv, Typed, Values, ResultTells, Decoded
    <3> QED
      BY <2>1, <2>3, <3>1, OffTheWalk DEF Layers
  <2> QED
    BY <1>7, <2>2, <2>3 DEF GmmHead
<1>8. CASE UnknownMessage \/ MessageTooShort
  BY <1>8, FailKeeps DEF UnknownMessage, MessageTooShort
<1> QED
  BY <1>1, <1>2, <1>3, <1>4, <1>5, <1>6, <1>7, <1>8 DEF HeadStep

\* The messages that are over with their fixed part.
LEMMA FixedKeeps ==
    ASSUME IInv,
           \/ sp_parse_attach_request \/ sp_parse_attach_complete \/ sp_parse_attach_reject
           \/ sp_parse_detach_request \/ sp_parse_detach_accept
           \/ sp_parse_rau_complete \/ sp_parse_rau_reject
           \/ sp_parse_pdp_request \/ sp_parse_pdp_reject
           \/ sp_parse_deact_request \/ sp_parse_deact_accept
    PROVE  IInv'
<1>1. layer = "message"
  BY DEF sp_parse_attach_request, sp_parse_attach_complete, sp_parse_attach_reject,
         sp_parse_detach_request, sp_parse_detach_accept, sp_parse_rau_complete,
         sp_parse_rau_reject, sp_parse_pdp_request, sp_parse_pdp_reject,
         sp_parse_deact_request, sp_parse_deact_accept, Called
<1>2. \E t \in Types, r \in Results : Report(t, r)
  BY DEF sp_parse_attach_request, sp_parse_attach_complete, sp_parse_attach_reject,
         sp_parse_detach_request, sp_parse_detach_accept, sp_parse_rau_complete,
         sp_parse_rau_reject, sp_parse_pdp_request, sp_parse_pdp_reject,
         sp_parse_deact_request, sp_parse_deact_accept, Types, Results
<1>3. cdr' \in [type : Types, result : Results]
  BY <1>2, ReportTyped
<1>4. UNCHANGED pkt
  BY DEF sp_parse_attach_request, sp_parse_attach_complete, sp_parse_attach_reject,
         sp_parse_detach_request, sp_parse_detach_accept, sp_parse_rau_complete,
         sp_parse_rau_reject, sp_parse_pdp_request, sp_parse_pdp_reject,
         sp_parse_deact_request, sp_parse_deact_accept, Stores, Return
<1>5. ResultTells'
  <2>1. CASE \/ sp_parse_attach_request \/ sp_parse_detach_request
             \/ sp_parse_pdp_request \/ sp_parse_deact_request
    <3>1. pkt.msg \in {"attach_request", "detach_request", "pdp_request", "deact_request"}
      BY <2>1 DEF sp_parse_attach_request, sp_parse_detach_request, sp_parse_pdp_request,
                  sp_parse_deact_request, Called
    <3>2. cdr'.result = "incomplete"
      BY <2>1 DEF sp_parse_attach_request, sp_parse_detach_request, sp_parse_pdp_request,
                  sp_parse_deact_request, Report
    <3> QED
      BY <1>4, <3>1, <3>2 DEF ResultTells, Over, Accepts
  <2>2. CASE \/ sp_parse_attach_complete \/ sp_parse_attach_reject \/ sp_parse_detach_accept
             \/ sp_parse_rau_complete \/ sp_parse_rau_reject \/ sp_parse_pdp_reject
             \/ sp_parse_deact_accept
    <3>1. pkt.msg \in {"attach_complete", "attach_reject", "detach_accept", "rau_complete",
                       "rau_reject", "pdp_reject", "deact_accept"}
      BY <2>2 DEF sp_parse_attach_complete, sp_parse_attach_reject, sp_parse_detach_accept,
                  sp_parse_rau_complete, sp_parse_rau_reject, sp_parse_pdp_reject,
                  sp_parse_deact_accept, Called
    <3>2. cdr'.result \in {"success", "failure"}
      BY <2>2 DEF sp_parse_attach_complete, sp_parse_attach_reject, sp_parse_detach_accept,
                  sp_parse_rau_complete, sp_parse_rau_reject, sp_parse_pdp_reject,
                  sp_parse_deact_accept, Report
    <3> QED
      BY <1>4, <3>1, <3>2 DEF ResultTells, Over
  <2> QED
    BY <2>1, <2>2
<1>6. CASE sp_parse_attach_request
  <2>1. \E r \in {"succ", "fail"} : Return(r)
    BY <1>6 DEF sp_parse_attach_request
  <2>2. value' \in [Fields -> Values]
    BY <1>6 DEF sp_parse_attach_request, Keep, IInv, Typed, Values
  <2> QED
    BY <1>1, <1>3, <1>5, <2>1, <2>2, ReturnKeeps
<1>7. CASE sp_parse_pdp_request
  <2>1. \E r \in {"succ", "fail"} : Return(r)
    BY <1>7 DEF sp_parse_pdp_request
  <2>2. \E fields : Store(fields)
    BY <1>7 DEF sp_parse_pdp_request
  <2>3. value' \in [Fields -> Values]
    BY <2>2, StoreTyped DEF IInv, Typed
  <2> QED
    BY <1>1, <1>3, <1>5, <2>1, <2>3, ReturnKeeps
<1>8. CASE ~(sp_parse_attach_request \/ sp_parse_pdp_request)
  <2>1. \E fields : Stores(fields)
    BY <1>8 DEF sp_parse_attach_complete, sp_parse_attach_reject,
         sp_parse_detach_request, sp_parse_detach_accept, sp_parse_rau_complete,
         sp_parse_rau_reject, sp_parse_pdp_reject,
         sp_parse_deact_request, sp_parse_deact_accept
  <2> QED
    BY <1>1, <1>3, <1>5, <2>1, StoresKeeps
<1> QED
  BY <1>6, <1>7, <1>8

-----------------------------------------------------------------------------

\* An IE with a size of its own in the standard.
LEMMA FixedSkipKeeps ==
    ASSUME IInv, layer = "gmm_ies", NEW iei, NEW n \in Nat, <<iei, n>> \in FixedSizes,
           iei \notin Allocates, Known(iei), Skip(n)
    PROVE  IInv'
<1>1. at <= Len(pkt.opt) /\ pkt.opt[at].iei = iei
  BY DEF Known
<1>2. pkt.opt[at].size = n
  BY <1>1, AtHand
<1> QED
  BY <1>1, <1>2, SkipKeeps

LEMMA Sizes ==
    /\ <<AUTH_RESPONSE, 5>> \in FixedSizes /\ <<SIGNATURE, 4>> \in FixedSizes
    /\ <<READY_TIMER, 2>> \in FixedSizes /\ <<TMSI_STATUS, 1>> \in FixedSizes
    /\ <<FLOW_ID, 3>> \in FixedSizes
    /\ {AUTH_RESPONSE, SIGNATURE, READY_TIMER, TMSI_STATUS, FLOW_ID} \cap Allocates = {}
BY DEF FixedSizes, Allocates, AUTH_RESPONSE, SIGNATURE, READY_TIMER, TMSI_STATUS, FLOW_ID, P_TMSI,
       N_PDU_LIST

\* The message whose list is an IE of each of two kinds.
LEMMA AuthResponseKeeps ==
    ASSUME IInv, sp_parse_auth_response
    PROVE  IInv'
<1>1. CASE /\ Called("auth_response")
           /\ Report("attach", "incomplete") /\ Keep /\ Walk
  BY <1>1, ReportTyped, WalkBegins DEF Called, Types, Results, Report, Over, Accepts, Keep, IInv, Typed
<1>2. CASE Walking("auth_response") /\ Known(AUTH_RESPONSE) /\ Skip(5)
  BY <1>2, Sizes, FixedSkipKeeps DEF Walking
<1>3. CASE Walking("auth_response") /\ Known(IDENTITY) /\ (Fail \/ StoreAndEnd(IdentityField))
  BY <1>3, FailKeeps, EndKeeps DEF Walking, Known, Accepts
<1>4. CASE Unknown("auth_response") \/ Ended("auth_response")
  BY <1>4, WalkEnds DEF Messages
<1>5. CASE Stray("auth_response", {{}, {"imsi"}, {"imei"}, {"tmsi"}})
  BY <1>5, StrayKeeps DEF Messages
<1> QED
  BY <1>1, <1>2, <1>3, <1>4, <1>5 DEF sp_parse_auth_response

\* The routing area of an accept, which its minimum length does not cover.
LEMMA AreaTyped ==
    ASSUME IInv, WalkBehindArea
    PROVE  value' \in [Fields -> Values] /\ Walk
<1>1. \E v \in Values : StoreAs({"ra"}, v)
  BY DEF WalkBehindArea, Values
<1> QED
  BY <1>1, StoreTyped DEF WalkBehindArea, IInv, Typed

LEMMA AttachAcceptKeeps ==
    ASSUME IInv, sp_parse_attach_accept
    PROVE  IInv'
<1>1. CASE /\ Called("attach_accept")
           /\ Report("attach", "success") /\ WalkBehindArea
  BY <1>1, ReportTyped, AreaTyped, WalkBegins DEF Called, Types, Results, Report, Over, Accepts
<1>2. CASE Walking("attach_accept") /\ Known(SIGNATURE) /\ Skip(4)
  BY <1>2, Sizes, FixedSkipKeeps DEF Walking
<1>3. CASE Walking("attach_accept") /\ Known(READY_TIMER) /\ Skip(2)
  BY <1>3, Sizes, FixedSkipKeeps DEF Walking
<1>4. CASE Walking("attach_accept") /\ Known(P_TMSI) /\ StoreTmsi
  BY <1>4, StoreTmsiKeeps DEF Walking, Accepts
<1>5. CASE Walking("attach_accept") /\ Known(IDENTITY) /\ SkipList /\ UNCHANGED cdr
  BY <1>5, SkipListKeeps DEF Walking, Known, Accepts
<1>6. CASE Walking("attach_accept") /\ Known(GMM_CAUSE) /\ StoreAndEnd({"gmmCause"})
  BY <1>6, EndKeeps DEF Walking, Known, Accepts
<1>7. CASE Unknown("attach_accept") \/ Ended("attach_accept")
  BY <1>7, WalkEnds DEF Messages
<1>8. CASE Stray("attach_accept", SUBSET {"tmsi", "gmmCause"})
  BY <1>8, StrayKeeps DEF Messages
<1> QED
  BY <1>1, <1>2, <1>3, <1>4, <1>5, <1>6, <1>7, <1>8 DEF sp_parse_attach_accept

LEMMA RauRequestKeeps ==
    ASSUME IInv, sp_parse_rau_request \/ RauRequestIes
    PROVE  IInv'
<1>1. CASE sp_parse_rau_request
  <2>1. layer = "message" /\ pkt.msg = "rau_request"
    BY <1>1 DEF sp_parse_rau_request, Called
  <2>2. CASE Fail
    BY <2>1, <2>2, FailKeeps
  <2>3. CASE \E t \in {"rau", "periodic"} : Report(t, "incomplete") /\ Store({"ra"}) /\ Walk
    <3>1. value' \in [Fields -> Values]
      BY <2>3, StoreTyped DEF IInv, Typed
    <3> QED
      BY <2>1, <2>3, <3>1, ReportTyped, WalkBegins DEF Types, Results, Report, Over, Accepts
  <2> QED
    BY <1>1, <2>2, <2>3 DEF sp_parse_rau_request
<1>2. CASE Walking("rau_request") /\ Known(SIGNATURE) /\ Skip(4)
  BY <1>2, Sizes, FixedSkipKeeps DEF Walking
<1>3. CASE Walking("rau_request") /\ Known(READY_TIMER) /\ Skip(2)
  BY <1>3, Sizes, FixedSkipKeeps DEF Walking
<1>4. CASE Walking("rau_request") /\ Known(DRX_OR_OPTIONS) /\ Skip(3)
  BY <1>4, AtHand, SkipKeeps DEF Walking, Known, Accepts
<1>5. CASE Walking("rau_request") /\ Known(TMSI_STATUS) /\ Skip(1)
  BY <1>5, Sizes, FixedSkipKeeps DEF Walking
<1>6. CASE Walking("rau_request") /\ Known(P_TMSI) /\ StoreAndEnd({"tmsi"})
  BY <1>6, EndKeeps DEF Walking, Known, Accepts
<1>7. CASE Unknown("rau_request") \/ Ended("rau_request")
  BY <1>7, WalkEnds DEF Messages
<1>8. CASE Stray("rau_request", {{}, {"tmsi"}})
  BY <1>8, StrayKeeps DEF Messages
<1> QED
  BY <1>1, <1>2, <1>3, <1>4, <1>5, <1>6, <1>7, <1>8 DEF RauRequestIes

LEMMA RauAcceptKeeps ==
    ASSUME IInv, sp_parse_rau_accept
    PROVE  IInv'
<1>1. CASE /\ Called("rau_accept")
           /\ Report("rau", "success") /\ WalkBehindArea
  BY <1>1, ReportTyped, AreaTyped, WalkBegins DEF Called, Types, Results, Report, Over, Accepts
<1>2. CASE Walking("rau_accept") /\ Known(SIGNATURE) /\ Skip(4)
  BY <1>2, Sizes, FixedSkipKeeps DEF Walking
<1>3. CASE Walking("rau_accept") /\ Known(P_TMSI) /\ StoreTmsi
  BY <1>3, StoreTmsiKeeps DEF Walking, Accepts
<1>4. CASE Walking("rau_accept") /\ Known(IDENTITY) /\ SkipList /\ UNCHANGED cdr
  BY <1>4, SkipListKeeps DEF Walking, Known, Accepts
<1>5. CASE Walking("rau_accept") /\ Known(N_PDU_LIST) /\ SkipList /\ Result("incomplete")
  BY <1>5, SkipListKeeps DEF Walking, Known, Accepts
<1>6. CASE Walking("rau_accept") /\ Known(READY_TIMER) /\ Skip(2)
  BY <1>6, Sizes, FixedSkipKeeps DEF Walking
<1>7. CASE Walking("rau_accept") /\ Known(GMM_CAUSE) /\ StoreAndEnd({"gmmCause"})
  BY <1>7, EndKeeps DEF Walking, Known, Accepts
<1>8. CASE Unknown("rau_accept") \/ Ended("rau_accept")
  BY <1>8, WalkEnds DEF Messages
<1>9. CASE Stray("rau_accept", SUBSET {"tmsi", "gmmCause"})
  BY <1>9, StrayKeeps DEF Messages
<1> QED
  BY <1>1, <1>2, <1>3, <1>4, <1>5, <1>6, <1>7, <1>8, <1>9 DEF sp_parse_rau_accept

LEMMA PdpAcceptKeeps ==
    ASSUME IInv, sp_parse_pdp_accept
    PROVE  IInv'
<1>1. CASE Called("pdp_accept") /\ Report("activate", "success") /\ Return("fail") /\ Keep
  <2>1. ResultTells'
    BY <1>1 DEF Return, ResultTells, Decoded
  <2> QED
    BY <1>1, <2>1, ReportTyped, ReturnKeeps DEF Called, Types, Results, Keep, IInv, Typed
<1>2. CASE Called("pdp_accept") /\ Report("activate", "success") /\ Store({"qosN"}) /\ Return("succ")
  <2>1. value' \in [Fields -> Values] /\ cdr' \in [type : Types, result : Results]
    BY <1>2, StoreTyped, ReportTyped DEF IInv, Typed, Types, Results
  <2>2. ResultTells'
    BY <1>2 DEF Return, ResultTells, Decoded, Called, Report, Over
  <2> QED
    BY <1>2, <2>1, <2>2, ReturnKeeps DEF Called
<1>3. CASE Called("pdp_accept") /\ Report("activate", "success") /\ Store({"qosN"}) /\ Walk
  <2>1. value' \in [Fields -> Values]
    BY <1>3, StoreTyped DEF IInv, Typed
  <2> QED
    BY <1>3, <2>1, ReportTyped, WalkBegins DEF Called, Types, Results, Report, Over, Accepts
<1>4. CASE /\ Walking("pdp_accept") /\ Known(PDP_ADDRESS)
           /\ StoreAndSkip({"ip"}, pkt.opt[at].size) /\ UNCHANGED cdr
  BY <1>4, AtHand, StoreAndSkipKeeps DEF Walking, Known, Accepts
<1>5. CASE Walking("pdp_accept") /\ Known(DRX_OR_OPTIONS) /\ Skip(pkt.opt[at].size)
  BY <1>5, AtHand, SkipKeeps DEF Walking, Known, Accepts
<1>6. CASE Walking("pdp_accept") /\ Known(FLOW_ID) /\ Skip(3)
  BY <1>6, Sizes, FixedSkipKeeps DEF Walking
<1>7. CASE Walking("pdp_accept") /\ Known(SM_CAUSE) /\ StoreAndEnd({"smCause"})
  BY <1>7, EndKeeps DEF Walking, Known, Accepts
<1>8. CASE Unknown("pdp_accept") \/ Ended("pdp_accept")
  BY <1>8, WalkEnds DEF Messages
<1>9. CASE Stray("pdp_accept", SUBSET {"ip", "smCause"})
  BY <1>9, StrayKeeps DEF Messages
<1> QED
  BY <1>1, <1>2, <1>3, <1>4, <1>5, <1>6, <1>7, <1>8, <1>9 DEF sp_parse_pdp_accept

\* Every step keeps the invariant.
LEMMA StepKeeps ==
    ASSUME IInv, [Next]_vars
    PROVE  IInv'
<1>1. ASSUME NEW p \in Packets, Receive(p) PROVE IInv'
  <2>1. /\ pkt' = p /\ layer' = "ns" /\ at' = 1 /\ len' = 0 /\ stray' = FALSE
        /\ value' = Cleared /\ cdr' = NoCdr /\ ret' = "fail"
    BY <1>1 DEF Receive, ClearInfo
  <2>2. Typed'
    <3>1. stray' \in BOOLEAN
      BY <2>1, Zenon
    <3>2. value' \in [Fields -> Values] /\ cdr' \in [type : Types, result : Results]
      BY <2>1 DEF Cleared, NoCdr, Values, Types, Results
    <3>3. len' \in 0..(Wrap - 1) /\ pkt' # NoPacket
      BY <2>1, PacketsAssumption
    <3> QED
      BY <2>1, <3>1, <3>2, <3>3 DEF Typed, Layers
  <2>3. NotYet' /\ InMessage' /\ CountRight' /\ ResultWalked' /\ ResultTells'
    BY <2>1 DEF NotYet, InMessage, CountRight, ResultWalked, ResultTells, Decoded
  <2> QED
    BY <2>2, <2>3 DEF IInv
<1>2. CASE HeadStep
  BY <1>2, HeadKeeps
<1>3. CASE MessageStep
  BY <1>3, FixedKeeps, AuthResponseKeeps, AttachAcceptKeeps, RauRequestKeeps, RauAcceptKeeps,
     PdpAcceptKeeps DEF MessageStep
<1>4. CASE Finish
  <2>1. /\ layer' = "idle" /\ pkt' = NoPacket /\ at' = 1 /\ len' = 0 /\ stray' = FALSE
        /\ UNCHANGED <<value, cdr, ret>>
    BY <1>4 DEF Finish
  <2>2. Typed'
    <3>1. stray' \in BOOLEAN
      BY <2>1, Zenon
    <3>2. len' \in 0..(Wrap - 1)
      BY <2>1, PacketsAssumption
    <3> QED
      BY <2>1, <3>1, <3>2 DEF IInv, Typed, Layers
  <2>3. NotYet' /\ InMessage' /\ CountRight' /\ ResultWalked' /\ ResultTells'
    BY <2>1 DEF NotYet, InMessage, CountRight, ResultWalked, ResultTells, Decoded
  <2> QED
    BY <2>2, <2>3 DEF IInv
<1>5. CASE UNCHANGED vars
  <2>1. Typed'
    BY <1>5, Zenon DEF vars, IInv, Typed
  <2>2. NotYet' /\ InMessage' /\ CountRight'
    BY <1>5, Zenon DEF vars, IInv, NotYet, InMessage, CountRight
  <2>3. ResultWalked' /\ ResultTells'
    BY <1>5, Zenon DEF vars, IInv, ResultWalked, ResultSoFar, ResultTells, Decoded
  <2> QED
    BY <2>1, <2>2, <2>3 DEF IInv
<1> QED
  BY <1>1, <1>2, <1>3, <1>4, <1>5 DEF Next, sp_process_gb

\* The strengthening of InMessage and ResultTells holds in every reachable state: the count of
\* the code is that of the bytes up to the end of the message, IE by IE, until it is lost, and
\* the result that of the IEs seen.
THEOREM Inductive == Spec => []IInv
<1>1. Init => IInv
  BY Start
<1>2. IInv /\ [Next]_vars => IInv'
  BY StepKeeps
<1> QED
  BY <1>1, <1>2, PTL DEF Spec

\* Every variable has its type, with a length that wraps at any modulus.
THEOREM TypeCorrect == Spec => []TypeOK
<1>1. IInv => TypeOK
  BY PacketsAssumption DEF IInv, Typed, TypeOK
<1> QED
  BY <1>1, Inductive, PTL

\* However many optional IEs a message holds, in whatever order, and whatever lies behind it:
\* the loops of sig_gb_gmm.c stay inside it, if it has the bytes that its fixed part and its
\* length bytes tell, but for an MS identity or a list of N-PDU numbers in an accept.
THEOREM InMessageAlways == Spec => []InMessage
<1>1. IInv => InMessage
  BY DEF IInv
<1> QED
  BY <1>1, Inductive, PTL

\* Whatever IEs an accept holds, in the standard's order: its procedure is reported as
\* incomplete exactly when the mobile still has to answer, and the other messages likewise;
\* in an accept that is cut, or holds an MS identity, the count is lost before that is known.
THEOREM ResultTellsAlways == Spec => []ResultTells
<1>1. IInv => ResultTells
  BY DEF IInv
<1> QED
  BY <1>1, Inductive, PTL

-----------------------------------------------------------------------------
(* What is stored: DecodedAsSent.                                            *)

\* The record that holds these fields and no other.
Holding(S) == [f \in Fields |-> IF f \in S THEN "sent" ELSE "unset"]

\* The fields of the BSSGP IEs before the k-th.
HeadSeen(k) == {f \in Fields : \E i \in 1..(k - 1) : f \in BssgpStores(pkt.ies[i])}

\* The fields a walk stores of an IE.
StoredBy(iei) ==
    IF pkt.msg \in Accepts
    THEN (IF iei = P_TMSI THEN {"tmsi"} ELSE {}) \cup (IF iei = GMM_CAUSE THEN {"gmmCause"} ELSE {})
    ELSE IF pkt.msg = "rau_request" THEN (IF iei = P_TMSI THEN {"tmsi"} ELSE {})
    ELSE IF pkt.msg = "pdp_accept"
    THEN (IF iei = PDP_ADDRESS THEN {"ip"} ELSE {}) \cup (IF iei = SM_CAUSE THEN {"smCause"} ELSE {})
    ELSE (IF iei = IDENTITY THEN IdentityField ELSE {})

OptSeen(k) == {f \in Fields : \E i \in 1..(k - 1) : f \in StoredBy(pkt.opt[i].iei)}

Walked == {"auth_response", "attach_accept", "rau_request", "rau_accept", "pdp_accept"}

\* The head's fields are complete when the PDU has been found.
HeadValue ==
    /\ layer \in {"ns", "bssgp"} => at = 1
    /\ layer \in {"ns", "bssgp", "bssgp_ies"} =>
          /\ value = Holding(HeadSeen(at))
          /\ \A j \in 1..(at - 1) : pkt.ies[j].type # "llc_pdu"
    /\ layer \in {"llc", "gmm", "message"} => value = Holding(HeadFields(pkt))

\* On the walk all IEs behind are known, and what they hold is stored.
WalkValue ==
    layer = "gmm_ies" /\ ~Exempt(pkt) =>
        /\ pkt.msg \in Walked
        /\ \A j \in 1..(at - 1) : pkt.opt[j].iei \in KnownIes[pkt.msg]
        /\ value = Holding(HeadFields(pkt) \cup FixedFields(pkt) \cup OptSeen(at))

ValueInv == HeadValue /\ WalkValue /\ DecodedAsSent

LEMMA StoreAdds ==
    ASSUME NEW S, value = Holding(S), NEW fields, Store(fields)
    PROVE  value' = Holding(S \cup fields)
BY DEF Holding, Store, StoreAs

\* Of a message that is not left out, every IE has the bytes its value is read from.
LEMMA IeIsSent ==
    ASSUME IInv, layer = "gmm_ies", at <= Len(pkt.opt), Consistent(pkt), NEW fields, StoreIe(fields),
           \/ pkt.opt[at].iei \in {P_TMSI, GMM_CAUSE, SM_CAUSE}
           \/ pkt.opt[at].iei = PDP_ADDRESS /\ pkt.msg = "pdp_accept"
           \/ pkt.opt[at].iei = IDENTITY /\ pkt.opt[at].size \in 7..11
    PROVE  Store(fields)
<1>1. pkt \in Packets /\ pkt \in Packet
  BY PacketsAssumption DEF IInv, Typed
<1>2. at \in 1..Len(pkt.opt) /\ pkt.opt[at].size \in Nat
  BY AtHand
<1>3. pkt.head + pkt.left[1] - pkt.size = 0
  <2>1. 1 \in 1..Len(pkt.left)
    BY <1>1, <1>2, OptSizes
  <2>2. pkt.head \in Nat /\ pkt.left[1] \in Nat
    BY <1>1, <2>1 DEF Packet
  <2> QED
    BY <2>2 DEF Consistent, Whole
<1>4. Present(at) = pkt.opt[at].size
  BY <1>2, <1>3 DEF Present
<1>5. ~(pkt.opt[at].size < Reach(pkt.opt[at]))
  <2>1. CASE pkt.opt[at].iei = PDP_ADDRESS /\ pkt.msg = "pdp_accept"
    BY <1>2, <2>1 DEF Reach, Consistent
  <2>2. CASE pkt.opt[at].iei = IDENTITY /\ pkt.opt[at].size \in 7..11
    BY <1>2, <2>2 DEF Reach, PDP_ADDRESS, IDENTITY
  <2>3. CASE pkt.opt[at].iei \in {P_TMSI, GMM_CAUSE, SM_CAUSE}
    BY <1>2, <2>3 DEF Reach, PDP_ADDRESS, IDENTITY, P_TMSI, GMM_CAUSE, SM_CAUSE
  <2> QED
    BY <2>1, <2>2, <2>3
<1> QED
  BY <1>4, <1>5, Zenon DEF StoreIe, Store

\* A decoding that fails promises nothing, and one that goes on not yet.
LEMMA NotDecoded ==
    ASSUME layer' # "done" \/ ret' = "fail"
    PROVE  DecodedAsSent'
BY DEF DecodedAsSent, Decoded

LEMMA FailValue ==
    ASSUME Fail
    PROVE  ValueInv'
<1>1. layer' = "done" /\ ret' = "fail"
  BY DEF Fail, Return
<1> QED
  BY <1>1, NotDecoded DEF ValueInv, HeadValue, WalkValue

\* What is stored at the end is what the message should leave.
LEMMA DoneValue ==
    ASSUME layer' = "done", UNCHANGED pkt,
           ~Exempt(pkt) =>
               value' = Holding(HeadFields(pkt) \cup FixedFields(pkt) \cup OptionalFields(pkt))
    PROVE  ValueInv'
<1>1. HeadValue' /\ WalkValue'
  BY DEF HeadValue, WalkValue
<1>2. DecodedAsSent'
  BY DEF DecodedAsSent, Exempt, Holding
<1> QED
  BY <1>1, <1>2 DEF ValueInv

\* The optional fields of a message that is walked.
LEMMA OptionalAre ==
    ASSUME pkt \in Packet, pkt.msg \in Walked
    PROVE  OptionalFields(pkt) =
               {f \in Fields : \E i \in 1..Len(pkt.opt) :
                   /\ f \in StoredBy(pkt.opt[i].iei)
                   /\ \A j \in 1..(i - 1) : pkt.opt[j].iei \in KnownIes[pkt.msg]}
<1>1. CASE pkt.msg \in Accepts
  <2>1. OptionalFields(pkt) = (IF Found(pkt, P_TMSI) THEN {"tmsi"} ELSE {})
                              \cup (IF Found(pkt, GMM_CAUSE) THEN {"gmmCause"} ELSE {})
    BY <1>1 DEF OptionalFields, Accepts
  <2>2. \A iei, f : f \in StoredBy(iei) <=> \/ iei = P_TMSI /\ f = "tmsi"
                                            \/ iei = GMM_CAUSE /\ f = "gmmCause"
    BY <1>1 DEF StoredBy
  <2>3. "tmsi" \in Fields /\ "gmmCause" \in Fields
    BY DEF Fields
  <2> QED
    <3> DEFINE Stored == {f \in Fields : \E i \in 1..Len(pkt.opt) :
                   /\ f \in StoredBy(pkt.opt[i].iei)
                   /\ \A j \in 1..(i - 1) : pkt.opt[j].iei \in KnownIes[pkt.msg]}
    <3>1. \A f : f \in Stored <=> \/ f = "tmsi" /\ Found(pkt, P_TMSI)
                                  \/ f = "gmmCause" /\ Found(pkt, GMM_CAUSE)
      <4>1. ASSUME NEW f, f \in Stored
            PROVE  \/ f = "tmsi" /\ Found(pkt, P_TMSI)
                   \/ f = "gmmCause" /\ Found(pkt, GMM_CAUSE)
        <5>1. PICK i \in 1..Len(pkt.opt) :
                 /\ f \in StoredBy(pkt.opt[i].iei)
                 /\ \A j \in 1..(i - 1) : pkt.opt[j].iei \in KnownIes[pkt.msg]
          BY <4>1
        <5>2. \/ pkt.opt[i].iei = P_TMSI /\ f = "tmsi"
              \/ pkt.opt[i].iei = GMM_CAUSE /\ f = "gmmCause"
          BY <2>2, <5>1
        <5> QED
          BY <5>1, <5>2, Zenon DEF Found
      <4>2. Found(pkt, P_TMSI) => "tmsi" \in Stored
        BY <2>2, <2>3, Zenon DEF Found
      <4>3. Found(pkt, GMM_CAUSE) => "gmmCause" \in Stored
        BY <2>2, <2>3, Zenon DEF Found
      <4> QED
        BY <4>1, <4>2, <4>3
    <3> HIDE DEF Stored
    <3>2. \A f : f \in OptionalFields(pkt) <=> f \in Stored
      <4>1. \A f : f \in OptionalFields(pkt) <=> \/ f = "tmsi" /\ Found(pkt, P_TMSI)
                                                 \/ f = "gmmCause" /\ Found(pkt, GMM_CAUSE)
        BY <2>1
      <4> QED
        BY <3>1, <4>1, Zenon
    <3> QED
      BY <3>2, Zenon DEF Stored
<1>2. CASE pkt.msg = "rau_request"
  BY <1>2 DEF OptionalFields, Found, StoredBy, Fields, Accepts
<1>3. CASE pkt.msg = "pdp_accept"
  BY <1>3 DEF OptionalFields, Found, StoredBy, Fields, Accepts, PDP_ADDRESS, SM_CAUSE
<1>4. CASE pkt.msg = "auth_response"
  <2>1. pkt.who \in {"imsi", "imei", "tmsi", "other"}
    BY DEF Packet
  <2>2. IdentityField = {pkt.who} \ {"other"} /\ IdentityField \subseteq Fields
    BY <2>1 DEF IdentityField, Fields
  <2>3. StoredBy(IDENTITY) = IdentityField /\ \A iei : iei # IDENTITY => StoredBy(iei) = {}
    BY <1>4 DEF StoredBy, Accepts
  <2>4. OptionalFields(pkt) = (IF Found(pkt, IDENTITY) THEN {pkt.who} ELSE {}) \ {"other"}
    BY <1>4 DEF OptionalFields, Accepts
  <2> QED
    BY <1>4, <2>2, <2>3, <2>4 DEF Found
<1> QED
  BY <1>1, <1>2, <1>3, <1>4 DEF Walked, Accepts

\* A walk that has seen all, or stands at an IE that it does not know.
LEMMA OptionalSeen ==
    ASSUME pkt \in Packet, pkt.msg \in Walked, at \in 1..(Len(pkt.opt) + 1),
           \A j \in 1..(at - 1) : pkt.opt[j].iei \in KnownIes[pkt.msg],
           at <= Len(pkt.opt) => pkt.opt[at].iei \notin KnownIes[pkt.msg]
    PROVE  OptSeen(at) = OptionalFields(pkt)
<1>1. Len(pkt.opt) \in Nat
  BY DEF Packet
<1>2. \A iei : StoredBy(iei) # {} => iei \in KnownIes[pkt.msg]
  BY DEF StoredBy, KnownIes, Walked, Accepts
<1>3. ASSUME NEW i \in 1..Len(pkt.opt), StoredBy(pkt.opt[i].iei) # {},
             \A j \in 1..(i - 1) : pkt.opt[j].iei \in KnownIes[pkt.msg]
      PROVE  i \in 1..(at - 1)
  <2>1. i # at
    BY <1>2, <1>3
  <2>2. ~(at < i)
    BY <1>1, <1>3
  <2> QED
    BY <1>1, <2>1, <2>2
<1>4. \A i \in 1..(at - 1) : i \in 1..Len(pkt.opt) /\ \A j \in 1..(i - 1) : pkt.opt[j].iei \in KnownIes[pkt.msg]
  BY <1>1
<1> QED
  BY <1>3, <1>4, OptionalAre DEF OptSeen
-----------------------------------------------------------------------------

\* The next IE of the BSSGP head adds what it stores.
LEMMA HeadSeenNext ==
    ASSUME NEW k \in Nat \ {0}
    PROVE  HeadSeen(k + 1) = HeadSeen(k) \cup BssgpStores(pkt.ies[k])
<1>1. BssgpStores(pkt.ies[k]) \subseteq Fields
  BY DEF BssgpStores, Fields
<1>2. \A i : i \in 1..k <=> i \in 1..(k - 1) \/ i = k
  OBVIOUS
<1>3. (k + 1) - 1 = k
  OBVIOUS
<1> QED
  BY <1>1, <1>2, <1>3 DEF HeadSeen

\* At the PDU, the fields of the head are those seen.
LEMMA HeadSeenAll ==
    ASSUME pkt \in Packet, at \in 1..Len(pkt.ies), pkt.ies[at].type = "llc_pdu",
           \A j \in 1..(at - 1) : pkt.ies[j].type # "llc_pdu"
    PROVE  HeadSeen(at) = HeadFields(pkt)
<1>1. Len(pkt.ies) \in Nat
  BY DEF Packet
<1>2. ASSUME NEW i \in 1..Len(pkt.ies)
      PROVE  (\A j \in 1..i : pkt.ies[j].type # "llc_pdu") <=> i \in 1..(at - 1)
  <2>1. CASE i < at
    <3>1. i \in 1..(at - 1) /\ \A j \in 1..i : j \in 1..(at - 1)
      BY <1>1, <1>2, <2>1
    <3> QED
      BY <3>1
  <2>2. CASE ~(i < at)
    <3>1. at \in 1..i /\ i \notin 1..(at - 1)
      BY <1>1, <1>2, <2>2
    <3> QED
      BY <3>1
  <2> QED
    BY <2>1, <2>2
<1>3. \A i \in 1..(at - 1) : i \in 1..Len(pkt.ies)
  BY <1>1
<1>4. ASSUME NEW type \in {"cell", "imsi", "tlli"}
      PROVE  InHead(pkt, type) <=>
                 \E i \in 1..(at - 1) : pkt.ies[i].type = type /\ (type # "tlli" => pkt.ies[i].long)
  BY <1>2, <1>3 DEF InHead
<1>5. \A ie, f : f \in BssgpStores(ie) <=>
          \/ f = "cell" /\ pkt.dir = "up" /\ ie.type = "cell" /\ ie.long
          \/ f = "imsiB" /\ ie.type = "imsi" /\ ie.long
          \/ f = "oldTlli" /\ ie.type = "tlli"
  BY DEF BssgpStores
<1>6. ASSUME NEW f
      PROVE  f \in HeadSeen(at) <=>
          \/ f = "cell" /\ pkt.dir = "up" /\ InHead(pkt, "cell")
          \/ f = "imsiB" /\ InHead(pkt, "imsi")
          \/ f = "oldTlli" /\ InHead(pkt, "tlli")
  <2>1. f \in HeadSeen(at) <=>
          f \in Fields /\ \E i \in 1..(at - 1) :
              \/ f = "cell" /\ pkt.dir = "up" /\ pkt.ies[i].type = "cell" /\ pkt.ies[i].long
              \/ f = "imsiB" /\ pkt.ies[i].type = "imsi" /\ pkt.ies[i].long
              \/ f = "oldTlli" /\ pkt.ies[i].type = "tlli"
    BY <1>5 DEF HeadSeen
  <2>2. {"cell", "imsiB", "oldTlli"} \subseteq Fields
    BY DEF Fields
  <2> QED
    BY <1>4, <2>1, <2>2
<1>7. \A f : f \in HeadFields(pkt) <=>
          \/ f = "cell" /\ pkt.dir = "up" /\ InHead(pkt, "cell")
          \/ f = "imsiB" /\ InHead(pkt, "imsi")
          \/ f = "oldTlli" /\ InHead(pkt, "tlli")
  BY DEF HeadFields
<1>8. \A f : f \in HeadSeen(at) <=> f \in HeadFields(pkt)
  BY <1>6, <1>7, Zenon
<1>9. HeadSeen(at) \subseteq Fields /\ HeadFields(pkt) \subseteq Fields
  BY DEF HeadSeen, HeadFields, Fields
<1> QED
  BY <1>8, <1>9

\* Down to the message, what has been stored is what the head holds.
LEMMA HeadStepValue ==
    ASSUME IInv, ValueInv, HeadStep
    PROVE  ValueInv'
<1>0. /\ at \in Nat \ {0} /\ (layer # "idle" => pkt \in Packet)
      /\ HeadValue /\ (UNCHANGED pkt => \A k : HeadSeen(k)' = HeadSeen(k))
  BY PacketsAssumption DEF IInv, Typed, ValueInv, HeadSeen, BssgpStores
<1>1. CASE Fail
  BY <1>1, FailValue
<1>2. CASE ParseNs /\ Goto("bssgp")
  <2>1. layer = "ns" /\ layer' = "bssgp" /\ UNCHANGED <<pkt, at, value>>
    BY <1>2 DEF ParseNs, Goto
  <2> QED
    BY <1>0, <2>1, NotDecoded DEF ValueInv, HeadValue, WalkValue
<1>3. CASE BssgpHead /\ Goto("bssgp_ies")
  <2>1. layer = "bssgp" /\ layer' = "bssgp_ies" /\ UNCHANGED <<pkt, at, value>>
    BY <1>3 DEF BssgpHead, Goto
  <2> QED
    BY <1>0, <2>1, NotDecoded DEF ValueInv, HeadValue, WalkValue
<1>4. CASE BssgpIe
  <2>1. /\ layer = "bssgp_ies" /\ layer' = "bssgp_ies" /\ UNCHANGED pkt /\ at' = at + 1
        /\ Store(BssgpStores(pkt.ies[at])) /\ pkt.ies[at].type # "llc_pdu"
    BY <1>4 DEF BssgpIe, NextIe
  <2>2. value' = Holding(HeadSeen(at) \cup BssgpStores(pkt.ies[at]))
    BY <1>0, <2>1, StoreAdds DEF HeadValue
  <2>3. value' = Holding(HeadSeen(at))'
    BY <1>0, <2>1, <2>2, HeadSeenNext DEF Holding
  <2>4. \A j \in 1..(at' - 1) : pkt.ies[j].type # "llc_pdu"
    <3>1. \A j \in 1..((at + 1) - 1) : j \in 1..(at - 1) \/ j = at
      BY <1>0
    <3> QED
      BY <1>0, <2>1, <3>1 DEF HeadValue
  <2> QED
    BY <1>0, <2>1, <2>3, <2>4, NotDecoded DEF ValueInv, HeadValue, WalkValue
<1>5. CASE BssgpPdu
  <2>1. /\ layer = "bssgp_ies" /\ layer' = "llc" /\ UNCHANGED <<pkt, value>>
        /\ pkt.ies[at].type = "llc_pdu" /\ at <= Len(pkt.ies)
    <3>1. Len(pkt.ies) \in Nat
      BY <1>0, <1>5 DEF Packet, BssgpPdu
    <3> QED
      BY <1>0, <1>5, <3>1 DEF BssgpPdu, Goto, NoFurtherIe
  <2>2. value = Holding(HeadFields(pkt))
    <3>1. at \in 1..Len(pkt.ies)
      BY <1>0, <2>1 DEF Packet
    <3> QED
      BY <1>0, <2>1, <3>1, HeadSeenAll DEF HeadValue
  <2> QED
    BY <2>1, <2>2, NotDecoded DEF ValueInv, HeadValue, WalkValue, Holding
<1>6. CASE LlcHead /\ Goto("gmm")
  <2>1. layer = "llc" /\ layer' = "gmm" /\ UNCHANGED <<pkt, value>>
    BY <1>6 DEF LlcHead, Goto
  <2> QED
    BY <1>0, <2>1, NotDecoded DEF ValueInv, HeadValue, WalkValue, Holding
<1>7. CASE LlcHead /\ pkt.sapi # "gmm" /\ Return("succ")
  <2>1. layer' = "done" /\ UNCHANGED pkt /\ pkt.sapi # "gmm"
    BY <1>7 DEF Return
  <2>2. DecodedAsSent'
    BY <2>1 DEF DecodedAsSent, Decoded
  <2> QED
    BY <2>1, <2>2 DEF ValueInv, HeadValue, WalkValue
<1>8. CASE GmmHead /\ layer' = "message" /\ value' = ClearCauses /\ UNCHANGED pkt
  <2>1. layer = "gmm"
    BY <1>8 DEF GmmHead
  <2>2. ClearCauses = Holding(HeadFields(pkt))
    BY <1>0, <2>1 DEF HeadValue, ClearCauses, Holding, HeadFields
  <2> QED
    BY <1>8, <2>2, NotDecoded DEF ValueInv, HeadValue, WalkValue, Holding
<1> QED
  BY <1>1, <1>2, <1>3, <1>4, <1>5, <1>6, <1>7, <1>8 DEF HeadStep, ParseNs, BssgpHead, BssgpNoPdu,
     LlcHead, GmmHead, UnknownMessage, MessageTooShort
-----------------------------------------------------------------------------

\* A handler that fails.
LEMMA ReturnFailValue ==
    ASSUME Return("fail")
    PROVE  ValueInv'
<1>1. layer' = "done" /\ ret' = "fail"
  BY DEF Return
<1> QED
  BY <1>1, NotDecoded DEF ValueInv, HeadValue, WalkValue

\* A message that ends with its fixed part, and one whose walk begins.
LEMMA StoresValue ==
    ASSUME ValueInv, layer = "message", NEW fields, Return("succ"),
           ~Exempt(pkt) => Store(fields) /\ fields = FixedFields(pkt) \cup OptionalFields(pkt)
    PROVE  ValueInv'
<1>1. layer' = "done" /\ UNCHANGED pkt
  BY DEF Return
<1>2. ~Exempt(pkt) => value' = Holding(HeadFields(pkt) \cup fields)
  BY StoreAdds DEF ValueInv, HeadValue
<1>3. ~Exempt(pkt) =>
        HeadFields(pkt) \cup fields = HeadFields(pkt) \cup FixedFields(pkt) \cup OptionalFields(pkt)
  OBVIOUS
<1> QED
  BY <1>1, <1>2, <1>3, DoneValue

LEMMA WalkValueBegins ==
    ASSUME ValueInv, layer = "message", NEW fields, Walk, fields = FixedFields(pkt),
           ~Exempt(pkt) => Store(fields) \/ (fields = {} /\ UNCHANGED value),
           pkt.msg \in Walked
    PROVE  ValueInv'
<1>1. layer' = "gmm_ies" /\ UNCHANGED pkt /\ at' = 1
  BY DEF Walk
<1>2. ~Exempt(pkt) => value' = Holding(HeadFields(pkt) \cup fields)
  <2>1. value = Holding(HeadFields(pkt))
    BY DEF ValueInv, HeadValue
  <2>2. HeadFields(pkt) \cup {} = HeadFields(pkt)
    OBVIOUS
  <2> QED
    BY <2>1, <2>2, StoreAdds DEF Holding
<1>3. OptSeen(at)' = {}
  BY <1>1 DEF OptSeen
<1> QED
  BY <1>1, <1>2, <1>3, NotDecoded DEF ValueInv, HeadValue, WalkValue, Holding

\* A walk goes on with what the IE holds.
LEMMA WalkValueGoesOn ==
    ASSUME IInv, ValueInv, layer = "gmm_ies", UNCHANGED <<pkt, layer>>, at' = at + 1,
           at <= Len(pkt.opt), pkt.opt[at].iei \in KnownIes[pkt.msg],
           StoredBy(pkt.opt[at].iei) \subseteq Fields,
           \/ ~Exempt(pkt) => Store(StoredBy(pkt.opt[at].iei))
           \/ StoredBy(pkt.opt[at].iei) = {} /\ UNCHANGED value
    PROVE  ValueInv'
<1> DEFINE fields == StoredBy(pkt.opt[at].iei)
<1>0. fields \subseteq Fields
  OBVIOUS
<1> HIDE DEF fields
<1>1. at \in Nat \ {0}
  BY DEF IInv, Typed
<1>2. \A j : j \in 1..((at + 1) - 1) <=> j \in 1..(at - 1) \/ j = at
  BY <1>1
<1>3. ASSUME ~Exempt(pkt)
      PROVE  /\ \A j \in 1..((at + 1) - 1) : pkt.opt[j].iei \in KnownIes[pkt.msg]
             /\ value' = Holding(HeadFields(pkt) \cup FixedFields(pkt) \cup OptSeen(at + 1))
  <2>1. /\ \A j \in 1..(at - 1) : pkt.opt[j].iei \in KnownIes[pkt.msg]
        /\ value = Holding(HeadFields(pkt) \cup FixedFields(pkt) \cup OptSeen(at))
    BY <1>3 DEF ValueInv, WalkValue
  <2>2. OptSeen(at + 1) = OptSeen(at) \cup fields
    BY <1>0, <1>2 DEF OptSeen, fields
  <2>3. value' = Holding((HeadFields(pkt) \cup FixedFields(pkt) \cup OptSeen(at)) \cup fields)
    <3>1. CASE Store(fields)
      BY <2>1, <3>1, StoreAdds
    <3>2. CASE fields = {} /\ UNCHANGED value
      BY <2>1, <3>2 DEF Holding
    <3> QED
      BY <1>3, <3>1, <3>2 DEF fields
  <2>4. (HeadFields(pkt) \cup FixedFields(pkt) \cup OptSeen(at)) \cup fields
            = HeadFields(pkt) \cup FixedFields(pkt) \cup OptSeen(at + 1)
    BY <2>2
  <2> QED
    BY <1>2, <2>1, <2>3, <2>4
<1>4. WalkValue'
  <2>1. ~Exempt(pkt) => pkt.msg \in Walked
    BY DEF ValueInv, WalkValue
  <2>2. pkt' = pkt /\ at' = at + 1
    OBVIOUS
  <2>3. OptSeen(at)' = OptSeen(at + 1)
    BY <2>2, Zenon DEF OptSeen, StoredBy, IdentityField
  <2> QED
    BY <1>3, <2>1, <2>2, <2>3, Zenon DEF WalkValue, Holding
<1> QED
  BY <1>4, NotDecoded DEF ValueInv, HeadValue

\* The last IE a loop looks for, when none behind it would store a field of its own.
LEMMA LastIe ==
    ASSUME pkt \in Packet, pkt.msg \in Walked, at \in 1..Len(pkt.opt),
           \A j \in 1..(at - 1) : pkt.opt[j].iei \in KnownIes[pkt.msg],
           StoredBy(pkt.opt[at].iei) \subseteq Fields,
           \A i \in 1..Len(pkt.opt) :
               i > at => StoredBy(pkt.opt[i].iei) \subseteq StoredBy(pkt.opt[at].iei)
    PROVE  OptSeen(at) \cup StoredBy(pkt.opt[at].iei) = OptionalFields(pkt)
<1>1. Len(pkt.opt) \in Nat
  BY DEF Packet
<1>2. ASSUME NEW i \in 1..Len(pkt.opt)
      PROVE  i \in 1..(at - 1) \/ i = at \/ i > at
  BY <1>1
<1>3. ASSUME NEW i \in 1..(at - 1)
      PROVE  i \in 1..Len(pkt.opt) /\ \A j \in 1..(i - 1) : j \in 1..(at - 1)
  BY <1>1
<1>4. ASSUME NEW f \in OptionalFields(pkt)
      PROVE  f \in OptSeen(at) \cup StoredBy(pkt.opt[at].iei)
  <2>1. PICK i \in 1..Len(pkt.opt) : f \in Fields /\ f \in StoredBy(pkt.opt[i].iei)
    BY OptionalAre
  <2> QED
    BY <1>2, <2>1 DEF OptSeen
<1>5. ASSUME NEW f \in OptSeen(at) \cup StoredBy(pkt.opt[at].iei)
      PROVE  f \in OptionalFields(pkt)
  <2>1. PICK i \in 1..Len(pkt.opt) :
           /\ f \in Fields /\ f \in StoredBy(pkt.opt[i].iei)
           /\ \A j \in 1..(i - 1) : j \in 1..(at - 1)
    BY <1>3 DEF OptSeen
  <2> QED
    BY <2>1, OptionalAre
<1> QED
  BY <1>4, <1>5
\* A loop that ends at the IE it looks for last.
LEMMA StoreAndEndValue ==
    ASSUME IInv, ValueInv, layer = "gmm_ies", at <= Len(pkt.opt), NEW fields, StoreAndEnd(fields),
           fields \subseteq Fields, fields = StoredBy(pkt.opt[at].iei),
           ~Exempt(pkt) => Store(fields),
           \A i \in 1..Len(pkt.opt) : i > at => StoredBy(pkt.opt[i].iei) \subseteq fields
    PROVE  ValueInv'
<1>1. layer' = "done" /\ UNCHANGED pkt
  BY DEF StoreAndEnd, Return
<1>2. pkt \in Packet /\ at \in 1..Len(pkt.opt)
  BY AtHand, PacketsAssumption DEF IInv, Typed
<1>3. ASSUME ~Exempt(pkt)
      PROVE  value' = Holding(HeadFields(pkt) \cup FixedFields(pkt) \cup OptionalFields(pkt))
  <2>1. /\ pkt.msg \in Walked
        /\ \A j \in 1..(at - 1) : pkt.opt[j].iei \in KnownIes[pkt.msg]
        /\ value = Holding(HeadFields(pkt) \cup FixedFields(pkt) \cup OptSeen(at))
    BY <1>3 DEF ValueInv, WalkValue
  <2>2. value' = Holding((HeadFields(pkt) \cup FixedFields(pkt) \cup OptSeen(at)) \cup fields)
    BY <1>3, <2>1, StoreAdds
  <2>3. OptSeen(at) \cup fields = OptionalFields(pkt)
    BY <1>2, <2>1, LastIe
  <2>4. (HeadFields(pkt) \cup FixedFields(pkt) \cup OptSeen(at)) \cup fields
            = HeadFields(pkt) \cup FixedFields(pkt) \cup OptionalFields(pkt)
    BY <2>3
  <2> QED
    BY <2>2, <2>4
<1> QED
  BY <1>1, <1>3, DoneValue

\* A loop that has seen all, or an IE it does not know.
LEMMA WalkEndsValue ==
    ASSUME IInv, ValueInv, NEW m \in Messages, Unknown(m) \/ Ended(m)
    PROVE  ValueInv'
<1>1. /\ layer = "gmm_ies" /\ pkt.msg = m /\ layer' = "done" /\ UNCHANGED <<pkt, value>>
  BY DEF Unknown, Ended, Walking, Return
<1>2. pkt \in Packet
  BY <1>1, PacketsAssumption DEF IInv, Typed
<1>3. Len(pkt.opt) \in Nat /\ at \in 1..(Len(pkt.opt) + 1)
  BY <1>1, <1>2 DEF IInv, CountRight, Packet
<1>4. ASSUME ~Exempt(pkt)
      PROVE  value' = Holding(HeadFields(pkt) \cup FixedFields(pkt) \cup OptionalFields(pkt))
  <2>1. /\ pkt.msg \in Walked
        /\ \A j \in 1..(at - 1) : pkt.opt[j].iei \in KnownIes[pkt.msg]
        /\ value = Holding(HeadFields(pkt) \cup FixedFields(pkt) \cup OptSeen(at))
    BY <1>1, <1>4 DEF ValueInv, WalkValue
  <2>2. at <= Len(pkt.opt) => pkt.opt[at].iei \notin KnownIes[pkt.msg]
    <3>1. CASE Unknown(m)
      BY <1>1, <3>1 DEF Unknown
    <3>2. CASE Ended(m)
      <4>1. ~Lost(pkt, at) /\ len = 0
        BY <1>3, <1>4, <3>2, LostIsExempt DEF Ended
      <4>2. at = Len(pkt.opt) + 1
        BY <1>1, <4>1, AtEnd
      <4> QED
        BY <1>3, <4>2
    <3> QED
      BY <3>1, <3>2
  <2>3. OptSeen(at) = OptionalFields(pkt)
    BY <1>2, <1>3, <2>1, <2>2, OptionalSeen
  <2> QED
    BY <1>1, <2>1, <2>3
<1> QED
  BY <1>1, <1>4, DoneValue

\* A walk that leaves its list is that of a message left out.
LEMMA StrayValue ==
    ASSUME IInv, NEW m \in Messages, NEW stored, Stray(m, stored)
    PROVE  ValueInv'
<1>1. Lost(pkt, at)
  BY NoStray
<1>2. layer = "gmm_ies" /\ layer' = "done" /\ UNCHANGED pkt
  BY DEF Stray, Walking
<1>3. pkt \in Packet
  BY <1>2, PacketsAssumption DEF IInv, Typed
<1>4. Len(pkt.opt) \in Nat /\ at \in 1..(Len(pkt.opt) + 1)
  BY <1>2, <1>3 DEF IInv, CountRight, Packet
<1> QED
  BY <1>1, <1>2, <1>4, LostIsExempt, DoneValue

\* An IE of which nothing is stored.
LEMMA SkipValue ==
    ASSUME IInv, ValueInv, NEW m, Walking(m), at <= Len(pkt.opt), NEW n, NEW taken,
           MoveBy(n, taken), UNCHANGED value,
           pkt.opt[at].iei \in KnownIes[m], StoredBy(pkt.opt[at].iei) = {}
    PROVE  ValueInv'
<1>1. layer = "gmm_ies" /\ pkt.msg = m /\ UNCHANGED <<pkt, layer>> /\ at' = at + 1
  BY DEF Walking, MoveBy
<1> QED
  BY <1>1, WalkValueGoesOn

\* One that is stored.
LEMMA KeepValue ==
    ASSUME IInv, ValueInv, NEW m, Walking(m), at <= Len(pkt.opt), NEW n, NEW taken,
           MoveBy(n, taken), NEW fields, ~Exempt(pkt) => Store(fields), fields \subseteq Fields,
           pkt.opt[at].iei \in KnownIes[m], fields = StoredBy(pkt.opt[at].iei)
    PROVE  ValueInv'
<1>1. layer = "gmm_ies" /\ pkt.msg = m /\ UNCHANGED <<pkt, layer>> /\ at' = at + 1
  BY DEF Walking, MoveBy
<1>2. ~Exempt(pkt) => Store(StoredBy(pkt.opt[at].iei))
  OBVIOUS
<1> QED
  BY <1>1, <1>2, WalkValueGoesOn

-----------------------------------------------------------------------------

\* The messages without a list of IEs.
LEMMA FixedValue ==
    ASSUME IInv, ValueInv,
           \/ sp_parse_attach_request \/ sp_parse_attach_complete \/ sp_parse_attach_reject
           \/ sp_parse_detach_request \/ sp_parse_detach_accept
           \/ sp_parse_rau_complete \/ sp_parse_rau_reject
           \/ sp_parse_pdp_request \/ sp_parse_pdp_reject
           \/ sp_parse_deact_request \/ sp_parse_deact_accept
    PROVE  ValueInv'
<1>1. CASE sp_parse_attach_request
  <2>1. layer = "message" /\ pkt.msg = "attach_request"
    BY <1>1 DEF sp_parse_attach_request, Called
  <2>2. pkt.who \in {"imsi", "imei", "tmsi", "other"}
    BY <2>1, PacketsAssumption DEF IInv, Typed, Packet
  <2>3. IdentityField \cup {"ra"} = FixedFields(pkt) \cup OptionalFields(pkt)
    BY <2>1, <2>2 DEF IdentityField, FixedFields, OptionalFields, Accepts
  <2>4. CASE Return("succ") /\ pkt.fault # "identity_length"
    <3>1. ~Exempt(pkt) => Store(IdentityField \cup {"ra"})
      <4> SUFFICES ASSUME ~Exempt(pkt) PROVE Store(IdentityField \cup {"ra"})
        OBVIOUS
      <4>1. ~Beheaded(pkt)
        <5>1. pkt \in Packets
          BY <2>1, PacketsAssumption DEF IInv, Typed
        <5> QED
          BY <5>1, LeftCounts DEF Exempt, Consistent
      <4>2. value' = [f \in Fields |-> CASE f \in {} -> "stray"
                                         [] f \in (IdentityField \cup {"ra"}) \ {} -> "sent"
                                         [] OTHER -> value[f]]
        BY <1>1, <2>4, <4>1 DEF sp_parse_attach_request
      <4> QED
        BY <4>2 DEF Store, StoreAs
    <3> QED
      BY <2>1, <2>3, <2>4, <3>1, StoresValue
  <2> QED
    BY <1>1, <2>4, ReturnFailValue DEF sp_parse_attach_request
<1>2. CASE sp_parse_attach_complete
  BY <1>2, StoresValue DEF sp_parse_attach_complete, Called, Stores, FixedFields, OptionalFields, Accepts
<1>3. CASE sp_parse_attach_reject
  BY <1>3, StoresValue DEF sp_parse_attach_reject, Called, Stores, FixedFields, OptionalFields, Accepts
<1>4. CASE sp_parse_detach_request
  <2> DEFINE fields == IF pkt.size >= 5 /\ pkt.opt # << >> /\ pkt.opt[1].iei = GMM_CAUSE
                       THEN {"gmmCause"} ELSE {}
  <2>1. layer = "message" /\ pkt.msg = "detach_request" /\ Return("succ") /\ Store(fields) /\ ~(pkt.size < 3)
    BY <1>4 DEF sp_parse_detach_request, Called, Stores, MinSize
  <2>2. ASSUME ~Exempt(pkt), pkt.opt # << >>, pkt.opt[1].iei = GMM_CAUSE
        PROVE  pkt.size >= 5
    <3>1. pkt \in Packets /\ pkt \in Packet
      BY <2>1, PacketsAssumption DEF IInv, Typed
    <3>2. 1 \in 1..Len(pkt.opt) /\ Len(pkt.opt) \in Nat
      BY <2>2, <3>1 DEF Packet
    <3>3. pkt.opt[1].size = 2
      BY <2>2, <3>1, <3>2, PacketsAssumption DEF FixedSizes, TMSI_STATUS, READY_TIMER, FLOW_ID, SIGNATURE,
         AUTH_RESPONSE, P_TMSI, GMM_CAUSE, SM_CAUSE
    <3>4. pkt.left[1] = pkt.opt[1].size + pkt.left[2] /\ pkt.left[2] \in Nat
      <4>1. pkt.left[1] = pkt.opt[1].size + pkt.left[1 + 1] /\ pkt.left[1 + 1] \in Nat
        BY <3>1, <3>2, OptSizes, Zenon
      <4> QED
        BY <4>1
    <3>5. pkt.size = pkt.head + pkt.left[1] /\ pkt.head = 3
      BY <2>1, <2>2, <3>1, PacketsAssumption DEF Exempt, Consistent, Whole, FixedHeads
    <3> QED
      BY <3>3, <3>4, <3>5
  <2>3. ~Exempt(pkt) => fields = FixedFields(pkt) \cup OptionalFields(pkt)
    BY <2>1, <2>2 DEF FixedFields, OptionalFields, Accepts
  <2> HIDE DEF fields
  <2> QED
    BY <2>1, <2>3, StoresValue
<1>5. CASE sp_parse_detach_accept
  BY <1>5, StoresValue DEF sp_parse_detach_accept, Called, Stores, FixedFields, OptionalFields, Accepts
<1>6. CASE sp_parse_rau_complete
  BY <1>6, StoresValue DEF sp_parse_rau_complete, Called, Stores, FixedFields, OptionalFields, Accepts
<1>7. CASE sp_parse_rau_reject
  BY <1>7, StoresValue DEF sp_parse_rau_reject, Called, Stores, FixedFields, OptionalFields, Accepts
<1>8. CASE sp_parse_pdp_request
  <2>1. layer = "message" /\ pkt.msg = "pdp_request"
    BY <1>8 DEF sp_parse_pdp_request, Called
  <2>2. {"nsapi", "qosR"} \cup (IF pkt.apn = "whole" THEN {"apn"} ELSE {})
            = FixedFields(pkt) \cup OptionalFields(pkt)
    BY <2>1 DEF FixedFields, OptionalFields, Accepts
  <2> QED
    BY <1>8, <2>1, <2>2, StoresValue, ReturnFailValue DEF sp_parse_pdp_request
<1>9. CASE sp_parse_pdp_reject
  BY <1>9, StoresValue DEF sp_parse_pdp_reject, Called, Stores, FixedFields, OptionalFields, Accepts
<1>10. CASE sp_parse_deact_request
  BY <1>10, StoresValue DEF sp_parse_deact_request, Called, Stores, FixedFields, OptionalFields, Accepts
<1>11. CASE sp_parse_deact_accept
  BY <1>11, StoresValue DEF sp_parse_deact_accept, Called, Stores, FixedFields, OptionalFields, Accepts
<1> QED
  BY <1>1, <1>2, <1>3, <1>4, <1>5, <1>6, <1>7, <1>8, <1>9, <1>10, <1>11
\* What a walk stores is told by the message and the identifier.
LEMMA StoredInAccept ==
    ASSUME pkt.msg \in Accepts
    PROVE  /\ StoredBy(P_TMSI) = {"tmsi"} /\ StoredBy(GMM_CAUSE) = {"gmmCause"}
           /\ \A iei : iei \notin {P_TMSI, GMM_CAUSE} => StoredBy(iei) = {}
BY DEF StoredBy, P_TMSI, GMM_CAUSE

LEMMA StoredInPdpAccept ==
    ASSUME pkt.msg = "pdp_accept"
    PROVE  /\ StoredBy(PDP_ADDRESS) = {"ip"} /\ StoredBy(SM_CAUSE) = {"smCause"}
           /\ \A iei : iei \notin {PDP_ADDRESS, SM_CAUSE} => StoredBy(iei) = {}
BY DEF StoredBy, PDP_ADDRESS, SM_CAUSE, Accepts

\* The cause ends an accept, and no P-TMSI follows it.
LEMMA CauseValue ==
    ASSUME IInv, ValueInv, layer = "gmm_ies", pkt.msg \in Accepts, Known(GMM_CAUSE),
           StoreAndEnd({"gmmCause"})
    PROVE  ValueInv'
<1>1. at \in 1..Len(pkt.opt) /\ pkt.opt[at].iei = GMM_CAUSE
  BY AtHand DEF Known
<1>2. pkt \in Packets /\ Len(pkt.opt) \in Nat
  BY PacketsAssumption DEF IInv, Typed, Packet
<1>3. ASSUME NEW i \in 1..Len(pkt.opt), i > at
      PROVE  pkt.opt[i].iei # P_TMSI
  <2>1. at <= i
    BY <1>1, <1>2, <1>3
  <2> QED
    BY <1>1, <1>2, <2>1, OrderAssumption DEF Allocates
<1>4. \A i \in 1..Len(pkt.opt) : i > at => StoredBy(pkt.opt[i].iei) \subseteq {"gmmCause"}
  BY <1>3, StoredInAccept
<1>5. {"gmmCause"} \subseteq Fields /\ at <= Len(pkt.opt)
  BY <1>1, <1>2 DEF Fields
<1>6. ~Exempt(pkt) => Store({"gmmCause"})
  BY <1>1, <1>5, IeIsSent DEF StoreAndEnd, Exempt
<1> QED
  BY <1>1, <1>4, <1>5, <1>6, StoredInAccept, StoreAndEndValue

LEMMA AuthResponseValue ==
    ASSUME IInv, ValueInv, sp_parse_auth_response
    PROVE  ValueInv'
<1>1. CASE Called("auth_response") /\ Keep /\ Walk
  BY <1>1, WalkValueBegins DEF Called, FixedFields, Walked, Accepts, Keep
<1>2. CASE Walking("auth_response") /\ Known(AUTH_RESPONSE) /\ Skip(5)
  <2>1. StoredBy(AUTH_RESPONSE) = {} /\ AUTH_RESPONSE \in KnownIes["auth_response"]
    BY <1>2 DEF StoredBy, Walking, Accepts, AUTH_RESPONSE, IDENTITY, KnownIes
  <2> QED
    BY <1>2, <2>1, SkipValue DEF Known, Skip
<1>3. CASE /\ Walking("auth_response") /\ Known(IDENTITY) /\ pkt.opt[at].size \in 7..11
           /\ StoreAndEnd(IdentityField)
  <2>1. layer = "gmm_ies" /\ pkt.msg = "auth_response" /\ pkt.opt[at].iei = IDENTITY /\ at <= Len(pkt.opt)
    BY <1>3 DEF Walking, Known
  <2>2. \A iei : StoredBy(iei) \subseteq IdentityField
    BY <2>1 DEF StoredBy, Accepts
  <2>3. StoredBy(IDENTITY) = IdentityField
    BY <2>1 DEF StoredBy, Accepts
  <2>4. IdentityField \subseteq Fields
    <3>1. pkt.who \in {"imsi", "imei", "tmsi", "other"}
      BY <2>1, PacketsAssumption DEF IInv, Typed, Packet
    <3> QED
      BY <3>1 DEF IdentityField, Fields
  <2>5. ~Exempt(pkt) => Store(IdentityField)
    BY <1>3, <2>1, IeIsSent DEF StoreAndEnd, Exempt
  <2> QED
    BY <1>3, <2>1, <2>2, <2>3, <2>4, <2>5, StoreAndEndValue
<1>4. CASE Fail
  BY <1>4, FailValue
<1>5. CASE Unknown("auth_response") \/ Ended("auth_response")
  BY <1>5, WalkEndsValue DEF Messages
<1>6. CASE Stray("auth_response", {{}, {"imsi"}, {"imei"}, {"tmsi"}})
  BY <1>6, StrayValue DEF Messages
<1> QED
  BY <1>1, <1>2, <1>3, <1>4, <1>5, <1>6 DEF sp_parse_auth_response

\* The IEs that both accept messages may hold.
LEMMA AcceptIesValue ==
    ASSUME IInv, ValueInv, NEW m \in Accepts, Walking(m),
           \/ Known(SIGNATURE) /\ Skip(4)
           \/ Known(READY_TIMER) /\ Skip(2)
           \/ Known(P_TMSI) /\ StoreTmsi
           \/ Known(IDENTITY) /\ SkipList
           \/ Known(GMM_CAUSE) /\ StoreAndEnd({"gmmCause"})
    PROVE  ValueInv'
<1>1. /\ pkt.msg \in Accepts /\ layer = "gmm_ies"
      /\ {SIGNATURE, READY_TIMER, P_TMSI, IDENTITY, GMM_CAUSE} \subseteq KnownIes[m]
  BY DEF Walking, Accepts, KnownIes
<1>2. CASE \/ Known(SIGNATURE) /\ Skip(4)
           \/ Known(READY_TIMER) /\ Skip(2)
  <2>1. StoredBy(SIGNATURE) = {} /\ StoredBy(READY_TIMER) = {}
    BY <1>1, StoredInAccept DEF SIGNATURE, READY_TIMER, P_TMSI, GMM_CAUSE
  <2> QED
    BY <1>1, <1>2, <2>1, SkipValue DEF Known, Skip
<1>3. CASE Known(P_TMSI) /\ StoreTmsi
  <2>1. {"tmsi"} \subseteq Fields
    BY DEF Fields
  <2>2. ~Exempt(pkt) => Store({"tmsi"})
    BY <1>1, <1>3, IeIsSent DEF Known, StoreTmsi, Exempt
  <2> QED
    BY <1>1, <1>3, <2>1, <2>2, StoredInAccept, KeepValue DEF Known, StoreTmsi
<1>4. CASE Known(IDENTITY) /\ SkipList
  <2>1. StoredBy(IDENTITY) = {}
    BY <1>1, StoredInAccept DEF IDENTITY, P_TMSI, GMM_CAUSE
  <2>2. PICK n \in TakenByList : MoveBy(pkt.opt[at].size, n) /\ UNCHANGED value
    BY <1>4 DEF SkipList
  <2> QED
    BY <1>1, <1>4, <2>1, <2>2, SkipValue DEF Known
<1>5. CASE Known(GMM_CAUSE) /\ StoreAndEnd({"gmmCause"})
  BY <1>1, <1>5, CauseValue
<1> QED
  BY <1>2, <1>3, <1>4, <1>5

LEMMA AreaIsSent ==
    ASSUME IInv, layer = "message", WalkBehindArea
    PROVE  Walk /\ (~Exempt(pkt) => Store({"ra"}))
<1>1. pkt \in Packets
  BY PacketsAssumption DEF IInv, Typed
<1>2. ~Exempt(pkt) => ~Beheaded(pkt)
  BY <1>1, LeftCounts DEF Exempt, Consistent
<1> QED
  BY <1>2, Zenon DEF WalkBehindArea, Store

LEMMA AttachAcceptValue ==
    ASSUME IInv, ValueInv, sp_parse_attach_accept
    PROVE  ValueInv'
<1>1. CASE Called("attach_accept") /\ WalkBehindArea
  BY <1>1, AreaIsSent, WalkValueBegins DEF Called, FixedFields, Walked, Accepts
<1>2. CASE /\ Walking("attach_accept")
           /\ \/ Known(SIGNATURE) /\ Skip(4)
              \/ Known(READY_TIMER) /\ Skip(2)
              \/ Known(P_TMSI) /\ StoreTmsi
              \/ Known(IDENTITY) /\ SkipList
              \/ Known(GMM_CAUSE) /\ StoreAndEnd({"gmmCause"})
  BY <1>2, AcceptIesValue DEF Accepts
<1>3. CASE Unknown("attach_accept") \/ Ended("attach_accept")
  BY <1>3, WalkEndsValue DEF Messages
<1>4. CASE Stray("attach_accept", SUBSET {"tmsi", "gmmCause"})
  BY <1>4, StrayValue DEF Messages
<1> QED
  BY <1>1, <1>2, <1>3, <1>4 DEF sp_parse_attach_accept

LEMMA RauAcceptValue ==
    ASSUME IInv, ValueInv, sp_parse_rau_accept
    PROVE  ValueInv'
<1>1. CASE Called("rau_accept") /\ WalkBehindArea
  BY <1>1, AreaIsSent, WalkValueBegins DEF Called, FixedFields, Walked, Accepts
<1>2. CASE /\ Walking("rau_accept")
           /\ \/ Known(SIGNATURE) /\ Skip(4)
              \/ Known(READY_TIMER) /\ Skip(2)
              \/ Known(P_TMSI) /\ StoreTmsi
              \/ Known(IDENTITY) /\ SkipList
              \/ Known(GMM_CAUSE) /\ StoreAndEnd({"gmmCause"})
  BY <1>2, AcceptIesValue DEF Accepts
<1>3. CASE Walking("rau_accept") /\ Known(N_PDU_LIST) /\ SkipList
  <2>1. StoredBy(N_PDU_LIST) = {} /\ N_PDU_LIST \in KnownIes["rau_accept"]
    BY <1>3, StoredInAccept DEF Walking, Accepts, N_PDU_LIST, P_TMSI, GMM_CAUSE, KnownIes
  <2>2. PICK n \in TakenByList : MoveBy(pkt.opt[at].size, n) /\ UNCHANGED value
    BY <1>3 DEF SkipList
  <2> QED
    BY <1>3, <2>1, <2>2, SkipValue DEF Known
<1>4. CASE Unknown("rau_accept") \/ Ended("rau_accept")
  BY <1>4, WalkEndsValue DEF Messages
<1>5. CASE Stray("rau_accept", SUBSET {"tmsi", "gmmCause"})
  BY <1>5, StrayValue DEF Messages
<1> QED
  BY <1>1, <1>2, <1>3, <1>4, <1>5 DEF sp_parse_rau_accept

LEMMA RauRequestValue ==
    ASSUME IInv, ValueInv, sp_parse_rau_request \/ RauRequestIes
    PROVE  ValueInv'
<1>1. CASE Called("rau_request") /\ Fail
  BY <1>1, FailValue
<1>2. CASE Called("rau_request") /\ Store({"ra"}) /\ Walk
  BY <1>2, WalkValueBegins DEF Called, FixedFields, Walked, Accepts
<1>3. CASE /\ Walking("rau_request")
           /\ \/ Known(SIGNATURE) /\ Skip(4)
              \/ Known(READY_TIMER) /\ Skip(2)
              \/ Known(DRX_OR_OPTIONS) /\ Skip(3)
              \/ Known(TMSI_STATUS) /\ Skip(1)
  <2>1. \A iei \in {SIGNATURE, READY_TIMER, DRX_OR_OPTIONS, TMSI_STATUS} :
            iei \in KnownIes["rau_request"] /\ StoredBy(iei) = {}
    BY <1>3 DEF Walking, StoredBy, Accepts, KnownIes, SIGNATURE, READY_TIMER, DRX_OR_OPTIONS,
       TMSI_STATUS, P_TMSI
  <2>2. /\ at <= Len(pkt.opt) /\ UNCHANGED value /\ \E n \in Nat : MoveBy(n, n)
        /\ pkt.opt[at].iei \in {SIGNATURE, READY_TIMER, DRX_OR_OPTIONS, TMSI_STATUS}
    BY <1>3 DEF Known, Skip
  <2> QED
    BY <1>3, <2>1, <2>2, SkipValue
<1>4. CASE Walking("rau_request") /\ Known(P_TMSI) /\ StoreAndEnd({"tmsi"})
  <2>1. layer = "gmm_ies" /\ pkt.msg = "rau_request" /\ pkt.opt[at].iei = P_TMSI /\ at <= Len(pkt.opt)
    BY <1>4 DEF Walking, Known
  <2>2. StoredBy(P_TMSI) = {"tmsi"} /\ \A iei : StoredBy(iei) \subseteq {"tmsi"}
    BY <2>1 DEF StoredBy, Accepts
  <2>3. {"tmsi"} \subseteq Fields
    BY DEF Fields
  <2>4. ~Exempt(pkt) => Store({"tmsi"})
    BY <1>4, <2>1, IeIsSent DEF StoreAndEnd, Exempt
  <2> QED
    BY <1>4, <2>1, <2>2, <2>3, <2>4, StoreAndEndValue
<1>5. CASE Unknown("rau_request") \/ Ended("rau_request")
  BY <1>5, WalkEndsValue DEF Messages
<1>6. CASE Stray("rau_request", {{}, {"tmsi"}})
  BY <1>6, StrayValue DEF Messages
<1> QED
  BY <1>1, <1>2, <1>3, <1>4, <1>5, <1>6 DEF sp_parse_rau_request, RauRequestIes

\* The single byte that is not looked at holds neither an address nor a cause.
LEMMA SingleByte ==
    ASSUME IInv, layer = "message", pkt.msg = "pdp_accept", LeftOf(pkt) <= 1, Consistent(pkt)
    PROVE  OptionalFields(pkt) = {}
<1>1. pkt \in Packets /\ pkt \in Packet
  BY PacketsAssumption DEF IInv, Typed
<1>2. Len(pkt.opt) \in Nat
  BY <1>1 DEF Packet
<1>3. pkt.left[1] <= 1
  BY <1>1, LeftCounts DEF Consistent
<1>4. ASSUME NEW i \in 1..Len(pkt.opt)
      PROVE  pkt.opt[i].iei \notin {PDP_ADDRESS, SM_CAUSE}
  <2>1. 1 \in 1..Len(pkt.opt)
    BY <1>2
  <2>2. /\ pkt.left[1] = pkt.opt[1].size + pkt.left[1 + 1]
        /\ pkt.opt[1].size \in Nat \ {0} /\ pkt.left[1 + 1] \in Nat
    BY <1>1, <2>1, OptSizes, Zenon
  <2>3. pkt.opt[1].size = 1 /\ pkt.left[2] = 0
    BY <1>3, <2>2
  <2>4. i = 1
    <3> SUFFICES ASSUME 2 \in 1..Len(pkt.opt) PROVE FALSE
      BY <1>2
    <3>1. pkt.left[2] = pkt.opt[2].size + pkt.left[2 + 1] /\ pkt.opt[2].size \in Nat \ {0} /\ pkt.left[2 + 1] \in Nat
      BY <1>1, OptSizes, Zenon
    <3> QED
      BY <2>3, <3>1
  <2>5. pkt.opt[1].iei # PDP_ADDRESS
    BY <2>1, <2>3 DEF Consistent
  <2>6. pkt.opt[1].iei # SM_CAUSE
    BY <1>1, <2>1, <2>3, PacketsAssumption DEF FixedSizes
  <2> QED
    BY <2>4, <2>5, <2>6
<1>5. ~Found(pkt, PDP_ADDRESS) /\ ~Found(pkt, SM_CAUSE)
  BY <1>4 DEF Found
<1> QED
  BY <1>5 DEF OptionalFields, Accepts

LEMMA PdpAcceptValue ==
    ASSUME IInv, ValueInv, sp_parse_pdp_accept
    PROVE  ValueInv'
<1>1. CASE Return("fail")
  BY <1>1, ReturnFailValue
<1>2. CASE Called("pdp_accept") /\ Store({"qosN"}) /\ LeftOf(pkt) <= 1 /\ Return("succ")
  <2>1. layer = "message" /\ pkt.msg = "pdp_accept"
    BY <1>2 DEF Called
  <2>2. ~Exempt(pkt) => OptionalFields(pkt) = {}
    BY <1>2, <2>1, SingleByte DEF Exempt
  <2>3. ~Exempt(pkt) => {"qosN"} = FixedFields(pkt) \cup OptionalFields(pkt)
    BY <2>1, <2>2 DEF FixedFields, Accepts
  <2> QED
    BY <1>2, <2>1, <2>3, StoresValue
<1>3. CASE Called("pdp_accept") /\ Store({"qosN"}) /\ Walk
  BY <1>3, WalkValueBegins DEF Called, FixedFields, Walked, Accepts
<1>4. CASE Walking("pdp_accept") /\ Known(PDP_ADDRESS) /\ StoreAndSkip({"ip"}, pkt.opt[at].size)
  <2>1. PDP_ADDRESS \in KnownIes["pdp_accept"] /\ {"ip"} \subseteq Fields
    BY DEF KnownIes, Fields
  <2>2. ~Exempt(pkt) => Store({"ip"})
    BY <1>4, IeIsSent DEF Walking, Known, StoreAndSkip, Exempt
  <2> QED
    BY <1>4, <2>1, <2>2, StoredInPdpAccept, KeepValue DEF Walking, Known, StoreAndSkip
<1>5. CASE /\ Walking("pdp_accept")
           /\ \/ Known(DRX_OR_OPTIONS) /\ Skip(pkt.opt[at].size)
              \/ Known(FLOW_ID) /\ Skip(3)
  <2>1. \A iei \in {DRX_OR_OPTIONS, FLOW_ID} : iei \in KnownIes["pdp_accept"] /\ StoredBy(iei) = {}
    BY <1>5, StoredInPdpAccept DEF Walking, KnownIes, DRX_OR_OPTIONS, FLOW_ID, PDP_ADDRESS, SM_CAUSE
  <2>2. /\ at <= Len(pkt.opt) /\ UNCHANGED value /\ \E n : MoveBy(n, n)
        /\ pkt.opt[at].iei \in {DRX_OR_OPTIONS, FLOW_ID}
    BY <1>5 DEF Known, Skip
  <2> QED
    BY <1>5, <2>1, <2>2, SkipValue
<1>6. CASE Walking("pdp_accept") /\ Known(SM_CAUSE) /\ StoreAndEnd({"smCause"})
  <2>1. layer = "gmm_ies" /\ pkt.msg = "pdp_accept" /\ pkt.opt[at].iei = SM_CAUSE /\ at <= Len(pkt.opt)
    BY <1>6 DEF Walking, Known
  <2>2. pkt \in Packets /\ Len(pkt.opt) \in Nat /\ at \in 1..Len(pkt.opt)
    BY <2>1, AtHand, PacketsAssumption DEF IInv, Typed, Packet
  <2>3. ASSUME NEW i \in 1..Len(pkt.opt), i > at
        PROVE  pkt.opt[i].iei # PDP_ADDRESS
    <3>1. at <= i
      BY <2>2, <2>3
    <3> QED
      BY <2>1, <2>2, <3>1, OrderAssumption
  <2>4. \A i \in 1..Len(pkt.opt) : i > at => StoredBy(pkt.opt[i].iei) \subseteq {"smCause"}
    BY <2>1, <2>3, StoredInPdpAccept
  <2>5. {"smCause"} \subseteq Fields
    BY DEF Fields
  <2>6. ~Exempt(pkt) => Store({"smCause"})
    BY <1>6, <2>1, IeIsSent DEF StoreAndEnd, Exempt
  <2> QED
    BY <1>6, <2>1, <2>4, <2>5, <2>6, StoredInPdpAccept, StoreAndEndValue
<1>7. CASE Unknown("pdp_accept") \/ Ended("pdp_accept")
  BY <1>7, WalkEndsValue DEF Messages
<1>8. CASE Stray("pdp_accept", SUBSET {"ip", "smCause"})
  BY <1>8, StrayValue DEF Messages
<1> QED
  BY <1>1, <1>2, <1>3, <1>4, <1>5, <1>6, <1>7, <1>8 DEF sp_parse_pdp_accept

\* Every step keeps what has been stored in agreement with the packet.
LEMMA StepValue ==
    ASSUME IInv, ValueInv, [Next]_vars
    PROVE  ValueInv'
<1>1. ASSUME NEW p \in Packets, Receive(p) PROVE ValueInv'
  <2>1. layer' = "ns" /\ at' = 1 /\ value' = Cleared
    BY <1>1 DEF Receive, ClearInfo
  <2>2. HeadSeen(at)' = {}
    BY <2>1 DEF HeadSeen
  <2>3. value' = Holding(HeadSeen(at))'
    BY <2>1, <2>2 DEF Holding, Cleared
  <2> QED
    BY <2>1, <2>3, NotDecoded DEF ValueInv, HeadValue, WalkValue
<1>2. CASE HeadStep
  BY <1>2, HeadStepValue
<1>3. CASE MessageStep
  BY <1>3, FixedValue, AuthResponseValue, AttachAcceptValue, RauRequestValue, RauAcceptValue,
     PdpAcceptValue DEF MessageStep
<1>4. CASE Finish
  <2>1. layer' = "idle"
    BY <1>4 DEF Finish
  <2> QED
    BY <2>1, NotDecoded DEF ValueInv, HeadValue, WalkValue
<1>5. CASE UNCHANGED vars
  <2>1. UNCHANGED <<pkt, layer, at, value, ret>>
    BY <1>5 DEF vars
  <2>2. HeadValue'
    BY <2>1 DEF ValueInv, HeadValue, HeadSeen, BssgpStores, Holding
  <2>3. WalkValue'
    BY <2>1 DEF ValueInv, WalkValue, OptSeen, StoredBy, IdentityField, Holding
  <2>4. DecodedAsSent'
    BY <2>1 DEF ValueInv, DecodedAsSent, Decoded
  <2> QED
    BY <2>2, <2>3, <2>4 DEF ValueInv
<1> QED
  BY <1>1, <1>2, <1>3, <1>4, <1>5 DEF Next, sp_process_gb

\* Whatever IEs the packets hold before one another, in the standard's order: what a decoded
\* message leaves in g_gb_info is what its head, its fixed part and its optional IEs carry, and
\* nothing else.  The walks over both lists are followed IE by IE, with the fields seen so far.
THEOREM DecodedAsSentAlways == Spec => []DecodedAsSent
<1>1. Init => ValueInv
  BY DEF Init, ValueInv, HeadValue, WalkValue, DecodedAsSent, Decoded
<1>2. IInv /\ ValueInv /\ [Next]_vars => ValueInv'
  BY StepValue
<1>3. ValueInv => DecodedAsSent
  BY DEF ValueInv
<1> QED
  BY <1>1, <1>2, <1>3, Inductive, PTL DEF Spec

-----------------------------------------------------------------------------
(* The radio capability: CapabilityDecoded.  First the string of bits and the *)
(* tree of tests, then the layers.                                            *)

\* The bits s stand in the string b at the position i.
Stands(b, i, s) == i + Len(s) <= Len(b) /\ \A k \in 1..Len(s) : b[i + k] = s[k]

Bits == Seq(Bit)

\* The strings of n bits.
BitsOf(n) == {s \in Bits : Len(s) = n}

LEMMA BitsJoin ==
    ASSUME NEW s \in Bits, NEW t \in Bits
    PROVE  s \o t \in Bits /\ Len(s \o t) = Len(s) + Len(t) /\ Len(s) \in Nat /\ Len(t) \in Nat
BY ConcatProperties, LenProperties DEF Bits

\* Where two strings stand one behind the other, each stands.
LEMMA Split ==
    ASSUME NEW b \in Bits, NEW i \in Nat, NEW s \in Bits, NEW t \in Bits, Stands(b, i, s \o t)
    PROVE  Stands(b, i, s) /\ Stands(b, i + Len(s), t)
<1>1. /\ Len(s) \in Nat /\ Len(t) \in Nat /\ Len(s \o t) = Len(s) + Len(t) /\ Len(b) \in Nat
      /\ \A k \in 1 .. Len(s) + Len(t) : (s \o t)[k] = IF k <= Len(s) THEN s[k] ELSE t[k - Len(s)]
  BY ConcatProperties, LenProperties DEF Bits
<1>2. \A k \in 1 .. Len(s) + Len(t) : b[i + k] = IF k <= Len(s) THEN s[k] ELSE t[k - Len(s)]
  BY <1>1 DEF Stands
<1>3. \A k \in 1 .. Len(s) : b[i + k] = s[k]
  BY <1>1, <1>2
<1>4. ASSUME NEW k \in 1 .. Len(t) PROVE b[i + Len(s) + k] = t[k]
  <2>1. /\ Len(s) + k \in 1 .. Len(s) + Len(t) /\ ~ (Len(s) + k <= Len(s))
        /\ (Len(s) + k) - Len(s) = k /\ i + (Len(s) + k) = i + Len(s) + k
    BY <1>1
  <2>2. b[i + (Len(s) + k)] = t[(Len(s) + k) - Len(s)]
    BY <1>2, <2>1
  <2> QED
    BY <2>1, <2>2
<1>5. i + Len(s) <= Len(b) /\ i + Len(s) + Len(t) <= Len(b)
  BY <1>1 DEF Stands
<1> QED
  BY <1>3, <1>4, <1>5 DEF Stands

\* A field that is there when f is among "has", and its length.
Opt(f, has, s) == IF f \in has THEN <<1>> \o s ELSE <<0>>
OptLength(f, has, n) == IF f \in has THEN 1 + n ELSE 1

LEMMA FieldBits ==
    ASSUME NEW has, NEW f, NEW n \in Nat, NEW s \in Bits, Len(s) = n
    PROVE  /\ Opt(f, has, s) \in Bits /\ Len(Opt(f, has, s)) = OptLength(f, has, n)
           /\ OptLength(f, has, n) \in Nat
<1>1. <<1>> \in Bits /\ <<0>> \in Bits /\ Len(<<1>>) = 1 /\ Len(<<0>>) = 1
  BY DEF Bits, Bit
<1>2. <<1>> \o s \in Bits /\ Len(<<1>> \o s) = 1 + n
  BY <1>1, BitsJoin
<1> QED
  BY <1>1, <1>2 DEF Opt, OptLength

\* What the code reads of a field: its presence bit and its content.
LEMMA FieldRead ==
    ASSUME NEW b \in Bits, NEW i \in Nat, NEW has, NEW f, NEW s \in Bits,
           Stands(b, i, Opt(f, has, s))
    PROVE  /\ At(b, i) = IF f \in has THEN 1 ELSE 0
           /\ f \in has => Stands(b, i + 1, s)
<1>1. CASE f \in has
  <2>1. <<1>> \in Bits /\ Len(<<1>>) = 1 /\ <<1>>[1] = 1
    BY DEF Bits, Bit
  <2>2. Stands(b, i, <<1>>) /\ Stands(b, i + Len(<<1>>), s)
    BY <1>1, <2>1, Split DEF Opt
  <2>3. At(b, i) = 1
    BY <2>1, <2>2 DEF Stands, At
  <2> QED
    BY <1>1, <2>1, <2>2, <2>3
<1>2. CASE f \notin has
  <2>1. Opt(f, has, s) = <<0>> /\ Len(<<0>>) = 1 /\ <<0>>[1] = 0
    BY <1>2 DEF Opt
  <2>2. Stands(b, i, <<0>>)
    BY <2>1
  <2>3. At(b, i) = 0
    BY <2>1, <2>2 DEF Stands, At
  <2> QED
    BY <1>2, <2>3
<1> QED
  BY <1>1, <1>2

\* The code goes on where the field ends.
LEMMA FieldPassed ==
    ASSUME NEW b \in Bits, NEW i \in Nat, NEW has, NEW f, NEW n \in Nat, NEW s \in BitsOf(n),
           Stands(b, i, Opt(f, has, s))
    PROVE  After(b, i, n) = i + OptLength(f, has, n)
<1>1. s \in Bits
  BY DEF BitsOf
<1>2. At(b, i) = IF f \in has THEN 1 ELSE 0
  BY <1>1, FieldRead
<1> QED
  BY <1>2 DEF After, OptLength

\* A part of the string that is as long as what stands there.
LEMMA Cut ==
    ASSUME NEW b \in Bits, NEW i \in Nat, NEW s \in Bits, Stands(b, i, s), Len(s) > 0
    PROVE  SubSeq(b, i + 1, i + Len(s)) = s
<1>1. Len(s) \in Nat /\ i + Len(s) <= Len(b) /\ \A k \in 1..Len(s) : b[i + k] = s[k] /\ s[k] \in Bit
  BY LenProperties DEF Stands, Bits
<1> DEFINE c == SubSeq(b, i + 1, i + Len(s))
<1>2. \A j \in i + 1 .. i + Len(s) : b[j] \in Bit
  <2>1. \A j \in i + 1 .. i + Len(s) : j - i \in 1..Len(s) /\ i + (j - i) = j
    BY <1>1
  <2> QED
    BY <1>1, <2>1
<1>3. i + 1 \in Int /\ i + Len(s) \in Int /\ (i + Len(s)) - (i + 1) + 1 = Len(s) /\ i + 1 <= i + Len(s)
  BY <1>1
<1>4. /\ c \in Seq(Bit) /\ Len(c) = (i + Len(s)) - (i + 1) + 1
      /\ \A k \in 1 .. (i + Len(s)) - (i + 1) + 1 : c[k] = b[i + 1 + k - 1]
  BY <1>2, <1>3, SubSeqProperties
<1>5. \A k \in 1..Len(s) : c[k] = s[k]
  <2>1. \A k \in 1..Len(s) : i + 1 + k - 1 = i + k
    BY <1>1
  <2> QED
    BY <1>1, <1>3, <1>4, <2>1
<1> HIDE DEF c
<1>6. c = s
  BY <1>3, <1>4, <1>5, SeqEqual DEF Bits
<1> QED
  BY <1>6 DEF c

Capabilities == Capability([1..5 -> Bit], [1..4 -> Bit])

LEMMA OnesBits ==
    ASSUME NEW n \in Nat
    PROVE  Ones(n) \in Bits /\ Len(Ones(n)) = n
<1>1. Ones(n) \in [1..n -> Bit]
  BY DEF Ones, Bit
<1> QED
  BY <1>1 DEF Bits

LEMMA FunctionBits ==
    ASSUME NEW n \in Nat, NEW s \in [1..n -> Bit]
    PROVE  s \in Bits /\ Len(s) = n
BY DEF Bits

\* What is sent are bits, of these lengths.
LEMMA ClassBits ==
    ASSUME NEW s \in [1..5 -> Bit]
    PROVE  /\ s \in Bits /\ Len(s) = 5
           /\ s \o Ones(1) \in Bits /\ Len(s \o Ones(1)) = 6
           /\ \A b \in Bits, i \in Nat : Stands(b, i, s \o Ones(1)) => Stands(b, i, s)
<1>1. s \in Bits /\ Len(s) = 5
  BY FunctionBits
<1>2. Ones(1) \in Bits /\ Len(Ones(1)) = 1
  BY OnesBits
<1> DEFINE o == Ones(1)
<1> HIDE DEF o
<1>5. o \in Bits /\ Len(o) = 1
  BY <1>2 DEF o
<1>6. s \o o \in Bits /\ Len(s \o o) = Len(s) + Len(o)
  BY <1>1, <1>5, BitsJoin
<1>3. s \o Ones(1) \in Bits /\ Len(s \o Ones(1)) = 6
  <2>1. s \o o \in Bits /\ Len(s \o o) = 6
    BY <1>1, <1>5, <1>6
  <2> QED
    BY <2>1 DEF o
<1>4. \A b \in Bits, i \in Nat : Stands(b, i, s \o Ones(1)) => Stands(b, i, s)
  BY <1>1, <1>2, Split
<1> QED
  BY <1>1, <1>3, <1>4

DtmBits(has) == Ones(3) \o Opt("dtmEgprs", has, Ones(2))
DtmLength(has) == 3 + OptLength("dtmEgprs", has, 2)

LEMMA DtmIsBits ==
    ASSUME NEW has
    PROVE  /\ DtmBits(has) \in Bits /\ Len(DtmBits(has)) = DtmLength(has)
           /\ DtmLength(has) \in Nat
<1>1. Ones(3) \in Bits /\ Len(Ones(3)) = 3 /\ Ones(2) \in Bits /\ Len(Ones(2)) = 2
  BY OnesBits
<1> DEFINE f == Opt("dtmEgprs", has, Ones(2))
           n == OptLength("dtmEgprs", has, 2)
<1>2. f \in Bits /\ Len(f) = n /\ n \in Nat
  BY <1>1, FieldBits
<1> HIDE DEF f, n
<1>3. Ones(3) \o f \in Bits /\ Len(Ones(3) \o f) = 3 + Len(f)
  BY <1>1, <1>2, BitsJoin
<1> QED
  BY <1>2, <1>3 DEF DtmBits, DtmLength, f, n

\* The multislot capability, in its order.
SlotBits(has, gprs, egprs) ==
    Opt("hscsd", has, Ones(5)) \o Opt("gprs", has, gprs \o Ones(1))
        \o Opt("sms", has, Ones(8)) \o Opt("ecsd", has, Ones(5))
        \o Opt("egprs", has, egprs \o Ones(1)) \o Opt("dtm", has, DtmBits(has))

\* The bits of the multislot capability are bits.
LEMMA SlotsAreBits ==
    ASSUME NEW has, NEW gprs \in [1..5 -> Bit], NEW egprs \in [1..5 -> Bit]
    PROVE  SlotBits(has, gprs, egprs) \in Bits
<1>1. \A s, t \in Bits : s \o t \in Bits
  BY BitsJoin
<1>2. /\ Ones(5) \in Bits /\ Ones(8) \in Bits
      /\ gprs \o Ones(1) \in Bits /\ egprs \o Ones(1) \in Bits /\ DtmBits(has) \in Bits
  BY OnesBits, ClassBits, DtmIsBits
<1>3. \A f : \A s \in Bits : Opt(f, has, s) \in Bits
  <2>1. <<0>> \in Bits /\ <<1>> \in Bits
    BY DEF Bits, Bit
  <2> QED
    BY <1>1, <2>1, Zenon DEF Opt
<1> QED
  BY <1>1, <1>2, <1>3, Zenon DEF SlotBits

\* The parts of a multislot capability stand in b from i1 on, those of GPRS, EGPRS and DTM
\* from i2, i5 and i6, and it ends at "end".
PartsAt(b, i1, i2, i5, i6, has, gprs, egprs, end) ==
    /\ At(b, i1) = IF "hscsd" \in has THEN 1 ELSE 0
    /\ At(b, i2) = IF "gprs" \in has THEN 1 ELSE 0
    /\ "gprs" \in has => Stands(b, i2 + 1, gprs)
    /\ At(b, i5) = IF "egprs" \in has THEN 1 ELSE 0
    /\ "egprs" \in has => Stands(b, i5 + 1, egprs)
    /\ i2 \in Nat /\ i5 \in Nat /\ i6 \in Nat
    /\ Stands(b, i6, Opt("dtm", has, DtmBits(has)))
    /\ end = i6 + OptLength("dtm", has, DtmLength(has))

\* Each part of a multislot capability stands where the parts before it end.
LEMMA SlotsStand ==
    ASSUME NEW has, NEW gprs \in [1..5 -> Bit], NEW egprs \in [1..5 -> Bit],
           NEW b \in Bits, NEW i1 \in Nat,
           NEW i2, i2 = After(b, i1, 5), NEW i3, i3 = After(b, i2, 6), NEW i4, i4 = After(b, i3, 8),
           NEW i5, i5 = After(b, i4, 5), NEW i6, i6 = After(b, i5, 6),
           NEW all, all = SlotBits(has, gprs, egprs), Stands(b, i1, all)
    PROVE  PartsAt(b, i1, i2, i5, i6, has, gprs, egprs, i1 + Len(all))
<1> DEFINE f1 == Opt("hscsd", has, Ones(5))
           f2 == Opt("gprs", has, gprs \o Ones(1))
           f3 == Opt("sms", has, Ones(8))
           f4 == Opt("ecsd", has, Ones(5))
           f5 == Opt("egprs", has, egprs \o Ones(1))
           f6 == Opt("dtm", has, DtmBits(has))
           n1 == OptLength("hscsd", has, 5)
           n2 == OptLength("gprs", has, 6)
           n3 == OptLength("sms", has, 8)
           n4 == OptLength("ecsd", has, 5)
           n5 == OptLength("egprs", has, 6)
           n6 == OptLength("dtm", has, DtmLength(has))
           s2 == f1 \o f2
           s3 == s2 \o f3
           s4 == s3 \o f4
           s5 == s4 \o f5
           s6 == s5 \o f6
           j2 == i1 + n1
           j3 == j2 + n2
           j4 == j3 + n3
           j5 == j4 + n4
           j6 == j5 + n5
<1>1. Ones(5) \in Bits /\ Len(Ones(5)) = 5
  BY OnesBits
<1>2. Ones(8) \in Bits /\ Len(Ones(8)) = 8
  BY OnesBits
<1>3. gprs \o Ones(1) \in Bits /\ Len(gprs \o Ones(1)) = 6
  BY ClassBits
<1>4. egprs \o Ones(1) \in Bits /\ Len(egprs \o Ones(1)) = 6
  BY ClassBits
<1>11. f1 \in Bits /\ Len(f1) = n1 /\ n1 \in Nat
  BY <1>1, FieldBits
<1>12. f2 \in Bits /\ Len(f2) = n2 /\ n2 \in Nat
  BY <1>3, FieldBits
<1>13. f3 \in Bits /\ Len(f3) = n3 /\ n3 \in Nat
  BY <1>2, FieldBits
<1>14. f4 \in Bits /\ Len(f4) = n4 /\ n4 \in Nat
  BY <1>1, FieldBits
<1>15. f5 \in Bits /\ Len(f5) = n5 /\ n5 \in Nat
  BY <1>4, FieldBits
<1>16. f6 \in Bits /\ Len(f6) = n6 /\ n6 \in Nat
  BY DtmIsBits, FieldBits
<1>17. SlotBits(has, gprs, egprs) = s6
  BY DEF SlotBits
<1> HIDE DEF f1, f2, f3, f4, f5, f6, n1, n2, n3, n4, n5, n6
<1>22. s2 \in Bits /\ Len(s2) = n1 + n2
  BY <1>11, <1>12, BitsJoin
<1> HIDE DEF s2
<1>23. s3 \in Bits /\ Len(s3) = n1 + n2 + n3
  BY <1>22, <1>13, BitsJoin
<1> HIDE DEF s3
<1>24. s4 \in Bits /\ Len(s4) = n1 + n2 + n3 + n4
  BY <1>23, <1>14, BitsJoin
<1> HIDE DEF s4
<1>25. s5 \in Bits /\ Len(s5) = n1 + n2 + n3 + n4 + n5
  BY <1>24, <1>15, BitsJoin
<1> HIDE DEF s5
<1>26. s6 \in Bits /\ Len(s6) = n1 + n2 + n3 + n4 + n5 + n6
  BY <1>25, <1>16, BitsJoin
<1>30. ASSUME Stands(b, i1, s6)
       PROVE  /\ At(b, i1) = IF "hscsd" \in has THEN 1 ELSE 0
              /\ At(b, j2) = IF "gprs" \in has THEN 1 ELSE 0
              /\ "gprs" \in has => Stands(b, j2 + 1, gprs)
              /\ At(b, j5) = IF "egprs" \in has THEN 1 ELSE 0
              /\ "egprs" \in has => Stands(b, j5 + 1, egprs)
              /\ j2 = After(b, i1, 5) /\ j3 = After(b, j2, 6) /\ j4 = After(b, j3, 8)
              /\ j5 = After(b, j4, 5) /\ j6 = After(b, j5, 6)
              /\ j2 \in Nat /\ j5 \in Nat /\ j6 \in Nat
              /\ Stands(b, j6, f6)
              /\ i1 + Len(s6) = j6 + n6
  <2>1. /\ j2 \in Nat /\ j3 \in Nat /\ j4 \in Nat /\ j5 \in Nat /\ j6 \in Nat
        /\ i1 + Len(s6) = j6 + n6 /\ i1 + Len(s5) = j6 /\ i1 + Len(s4) = j5
        /\ i1 + Len(s3) = j4 /\ i1 + Len(s2) = j3 /\ i1 + Len(f1) = j2
    BY <1>11, <1>12, <1>13, <1>14, <1>15, <1>16, <1>22, <1>23, <1>24, <1>25, <1>26
  <2> HIDE DEF j2, j3, j4, j5, j6
  <2>2. Stands(b, i1, s5) /\ Stands(b, j6, f6)
    BY <1>16, <1>25, <1>30, <2>1, Split
  <2>3. Stands(b, i1, s4) /\ Stands(b, j5, f5)
    BY <1>15, <1>24, <2>1, <2>2, Split DEF s5
  <2>4. Stands(b, i1, s3) /\ Stands(b, j4, f4)
    BY <1>14, <1>23, <2>1, <2>3, Split DEF s4
  <2>5. Stands(b, i1, s2) /\ Stands(b, j3, f3)
    BY <1>13, <1>22, <2>1, <2>4, Split DEF s3
  <2>6. Stands(b, i1, f1) /\ Stands(b, j2, f2)
    BY <1>11, <1>12, <2>1, <2>5, Split DEF s2
  <2>11. /\ At(b, i1) = IF "hscsd" \in has THEN 1 ELSE 0
         /\ After(b, i1, 5) = j2
    <3>1. Stands(b, i1, Opt("hscsd", has, Ones(5)))
      BY <2>6 DEF f1
    <3>2. /\ At(b, i1) = IF "hscsd" \in has THEN 1 ELSE 0
          /\ "hscsd" \in has => Stands(b, i1 + 1, Ones(5))
      <4>1. i1 \in Nat
        BY <2>1
      <4> QED
        BY <1>1, <3>1, <4>1, FieldRead
    <3>3. After(b, i1, 5) = j2
      <4>1. Ones(5) \in BitsOf(5)
        BY <1>1 DEF BitsOf
      <4>2. After(b, i1, 5) = i1 + OptLength("hscsd", has, 5)
        <5>1. i1 \in Nat /\ 5 \in Nat
          BY <2>1
        <5> QED
          BY <3>1, <4>1, <5>1, FieldPassed
      <4> QED
        BY <4>2 DEF j2, n1
    <3> QED
      BY <3>2, <3>3
  <2>12. /\ At(b, j2) = IF "gprs" \in has THEN 1 ELSE 0
         /\ After(b, j2, 6) = j3
         /\ "gprs" \in has => Stands(b, j2 + 1, gprs)
    <3>0. PICK t \in Bits : t = gprs \o Ones(1)
      BY <1>3
    <3>1. Stands(b, j2, Opt("gprs", has, gprs \o Ones(1)))
      BY <2>6 DEF f2
    <3>2. /\ At(b, j2) = IF "gprs" \in has THEN 1 ELSE 0
          /\ "gprs" \in has => Stands(b, j2 + 1, gprs \o Ones(1))
      <4>1. Stands(b, j2, Opt("gprs", has, t))
        BY <3>0, <3>1
      <4>2. j2 \in Nat
        BY <2>1
      <4>3. /\ At(b, j2) = IF "gprs" \in has THEN 1 ELSE 0
            /\ "gprs" \in has => Stands(b, j2 + 1, t)
        BY <4>1, <4>2, FieldRead
      <4> QED
        BY <3>0, <4>3
    <3>3. After(b, j2, 6) = j3
      <4>1. gprs \o Ones(1) \in BitsOf(6)
        BY <1>3 DEF BitsOf
      <4>2. After(b, j2, 6) = j2 + OptLength("gprs", has, 6)
        <5>1. j2 \in Nat /\ 6 \in Nat
          BY <2>1
        <5> QED
          BY <3>1, <4>1, <5>1, FieldPassed
      <4> QED
        BY <4>2 DEF j3, n2
    <3>4. "gprs" \in has => Stands(b, j2 + 1, gprs)
      <4>1. j2 + 1 \in Nat
        BY <2>1
      <4> QED
        BY <3>2, <4>1, ClassBits, Zenon
    <3> QED
      BY <3>2, <3>3, <3>4
  <2>13. /\ At(b, j3) = IF "sms" \in has THEN 1 ELSE 0
         /\ After(b, j3, 8) = j4
    <3>1. Stands(b, j3, Opt("sms", has, Ones(8)))
      BY <2>5 DEF f3
    <3>2. /\ At(b, j3) = IF "sms" \in has THEN 1 ELSE 0
          /\ "sms" \in has => Stands(b, j3 + 1, Ones(8))
      <4>1. j3 \in Nat
        BY <2>1
      <4> QED
        BY <1>2, <3>1, <4>1, FieldRead
    <3>3. After(b, j3, 8) = j4
      <4>1. Ones(8) \in BitsOf(8)
        BY <1>2 DEF BitsOf
      <4>2. After(b, j3, 8) = j3 + OptLength("sms", has, 8)
        <5>1. j3 \in Nat /\ 8 \in Nat
          BY <2>1
        <5> QED
          BY <3>1, <4>1, <5>1, FieldPassed
      <4> QED
        BY <4>2 DEF j4, n3
    <3> QED
      BY <3>2, <3>3
  <2>14. /\ At(b, j4) = IF "ecsd" \in has THEN 1 ELSE 0
         /\ After(b, j4, 5) = j5
    <3>1. Stands(b, j4, Opt("ecsd", has, Ones(5)))
      BY <2>4 DEF f4
    <3>2. /\ At(b, j4) = IF "ecsd" \in has THEN 1 ELSE 0
          /\ "ecsd" \in has => Stands(b, j4 + 1, Ones(5))
      <4>1. j4 \in Nat
        BY <2>1
      <4> QED
        BY <1>1, <3>1, <4>1, FieldRead
    <3>3. After(b, j4, 5) = j5
      <4>1. Ones(5) \in BitsOf(5)
        BY <1>1 DEF BitsOf
      <4>2. After(b, j4, 5) = j4 + OptLength("ecsd", has, 5)
        <5>1. j4 \in Nat /\ 5 \in Nat
          BY <2>1
        <5> QED
          BY <3>1, <4>1, <5>1, FieldPassed
      <4> QED
        BY <4>2 DEF j5, n4
    <3> QED
      BY <3>2, <3>3
  <2>15. /\ At(b, j5) = IF "egprs" \in has THEN 1 ELSE 0
         /\ After(b, j5, 6) = j6
         /\ "egprs" \in has => Stands(b, j5 + 1, egprs)
    <3>0. PICK t \in Bits : t = egprs \o Ones(1)
      BY <1>4
    <3>1. Stands(b, j5, Opt("egprs", has, egprs \o Ones(1)))
      BY <2>3 DEF f5
    <3>2. /\ At(b, j5) = IF "egprs" \in has THEN 1 ELSE 0
          /\ "egprs" \in has => Stands(b, j5 + 1, egprs \o Ones(1))
      <4>1. Stands(b, j5, Opt("egprs", has, t))
        BY <3>0, <3>1
      <4>2. j5 \in Nat
        BY <2>1
      <4>3. /\ At(b, j5) = IF "egprs" \in has THEN 1 ELSE 0
            /\ "egprs" \in has => Stands(b, j5 + 1, t)
        BY <4>1, <4>2, FieldRead
      <4> QED
        BY <3>0, <4>3
    <3>3. After(b, j5, 6) = j6
      <4>1. egprs \o Ones(1) \in BitsOf(6)
        BY <1>4 DEF BitsOf
      <4>2. After(b, j5, 6) = j5 + OptLength("egprs", has, 6)
        <5>1. j5 \in Nat /\ 6 \in Nat
          BY <2>1
        <5> QED
          BY <3>1, <4>1, <5>1, FieldPassed
      <4> QED
        BY <4>2 DEF j6, n5
    <3>4. "egprs" \in has => Stands(b, j5 + 1, egprs)
      <4>1. j5 + 1 \in Nat
        BY <2>1
      <4> QED
        BY <3>2, <4>1, ClassBits, Zenon
    <3> QED
      BY <3>2, <3>3, <3>4
  <2> QED
    BY <2>1, <2>2, <2>11, <2>12, <2>13, <2>14, <2>15
<1> HIDE DEF s6, j2, j3, j4, j5, j6
<1>31. all = s6
  BY <1>17
<1>32. Stands(b, i1, s6)
  BY <1>31
<1>33. i2 = j2 /\ i3 = j3 /\ i4 = j4 /\ i5 = j5 /\ i6 = j6
  BY <1>30, <1>32, Zenon
<1> QED
  BY <1>30, <1>31, <1>32, <1>33, Zenon DEF f6, n6, PartsAt

\* Behind the bit of DTM, get_umts finds the bits of the other radio technologies.
LEMMA UmtsRead ==
    ASSUME NEW has, NEW umts \in [1..4 -> Bit], NEW b \in Bits, NEW i \in Nat, NEW j \in Nat,
           Stands(b, i, Opt("dtm", has, DtmBits(has))),
           j = i + OptLength("dtm", has, DtmLength(has)),
           Stands(b, j, Opt("psk8", has, Ones(2))),
           Stands(b, j + OptLength("psk8", has, 2) + 2, umts)
    PROVE  get_umts(b, i) = umts
<1>1. At(b, i) = (IF "dtm" \in has THEN 1 ELSE 0) /\ ("dtm" \in has => Stands(b, i + 1, DtmBits(has)))
  BY DtmIsBits, FieldRead
<1>2. Ones(2) \in Bits /\ Len(Ones(2)) = 2
  BY OnesBits
<1>3. Ones(3) \in Bits /\ Len(Ones(3)) = 3
  BY OnesBits
<1>4. Opt("dtmEgprs", has, Ones(2)) \in Bits
  BY <1>2, FieldBits
<1> DEFINE psk8 == IF At(b, i) = 0 THEN i + 1
                   ELSE IF At(b, i + 4) = 0 THEN i + 5 ELSE i + 7
<1>5. psk8 = j
  <2>1. CASE "dtm" \in has
    <3>1. Stands(b, i + 1 + Len(Ones(3)), Opt("dtmEgprs", has, Ones(2)))
      BY <1>1, <1>3, <1>4, <2>1, Split DEF DtmBits
    <3>2. Stands(b, i + 4, Opt("dtmEgprs", has, Ones(2)))
      <4>1. i + 1 + 3 = i + 4
        OBVIOUS
      <4> QED
        BY <1>3, <3>1, <4>1
    <3>3. At(b, i + 4) = IF "dtmEgprs" \in has THEN 1 ELSE 0
      BY <1>2, <3>2, FieldRead
    <3> QED
      BY <1>1, <2>1, <3>3 DEF OptLength, DtmLength
  <2>2. CASE "dtm" \notin has
    BY <1>1, <2>2 DEF OptLength
  <2> QED
    BY <2>1, <2>2
<1> HIDE DEF psk8
<1>6. At(b, j) = IF "psk8" \in has THEN 1 ELSE 0
  BY <1>2, FieldRead
<1> DEFINE fdd == IF At(b, psk8) = 1 THEN psk8 + 5 ELSE psk8 + 3
<1>7. fdd = j + OptLength("psk8", has, 2) + 2 /\ fdd \in Nat
  BY <1>5, <1>6 DEF OptLength
<1>8. get_umts(b, i) = SubSeq(b, fdd + 1, fdd + 4)
  BY DEF get_umts, psk8
<1> HIDE DEF fdd
<1>9. umts \in Bits /\ Len(umts) = 4
  BY FunctionBits
<1>10. Stands(b, fdd, umts)
  BY <1>7
<1>11. SubSeq(b, fdd + 1, fdd + Len(umts)) = umts
  <2>1. Len(umts) > 0
    BY <1>9
  <2> QED
    BY <1>7, <1>9, <1>10, <2>1, Cut
<1> QED
  BY <1>8, <1>9, <1>11

\* A class of five bits is read where it stands.
LEMMA ClassRead ==
    ASSUME NEW has, NEW f, NEW s \in [1..5 -> Bit], NEW b \in Bits, NEW i \in Nat,
           At(b, i) = IF f \in has THEN 1 ELSE 0,
           f \in has => Stands(b, i + 1, s)
    PROVE  Class(b, i) = IF f \in has THEN s ELSE None
<1>1. CASE f \in has
  <2>1. s \in Bits /\ Len(s) = 5
    BY FunctionBits
  <2>4. i + 1 \in Nat /\ Len(s) > 0
    BY <2>1
  <2>2. SubSeq(b, i + 1 + 1, i + 1 + Len(s)) = s
    BY <1>1, <2>1, <2>4, Cut
  <2>3. Five(b, i + 1) = s
    BY <2>1, <2>2 DEF Five
  <2> QED
    BY <1>1, <2>3 DEF Class
<1>2. CASE f \notin has
  BY <1>2 DEF Class
<1> QED
  BY <1>1, <1>2

\* What is read from the bit of the multislot capability on, and what was sent.
ReadSlots(b, i, skew) == IF At(b, i) = 1 THEN Slots(b, i + 1, skew) ELSE NoSlots(b, i + 1)
Shown(has, f, class) == IF {"multislot", f} \subseteq has THEN class ELSE None

\* What the tests from the bit of the multislot capability on find.
LEMMA SlotsRead ==
    ASSUME NEW has, NEW gprs \in [1..5 -> Bit], NEW egprs \in [1..5 -> Bit],
           NEW umts \in [1..4 -> Bit], NEW b \in Bits, NEW i \in Nat, NEW skew,
           Stands(b, i, Opt("multislot", has, SlotBits(has, gprs, egprs))),
           NEW j \in Nat, j = i + Len(Opt("multislot", has, SlotBits(has, gprs, egprs))),
           Stands(b, j, Opt("psk8", has, Ones(2))),
           Stands(b, j + OptLength("psk8", has, 2) + 2, umts)
    PROVE  /\ ReadSlots(b, i, skew).gprs = Shown(has, "gprs", gprs)
           /\ "multislot" \in has /\ has \cap {"hscsd", "gprs"} # {}
                 => ReadSlots(b, i, skew) = [gprs |-> Shown(has, "gprs", gprs),
                                             egprs |-> Shown(has, "egprs", egprs), umts |-> umts]
<1> DEFINE i1 == i + 1
           i2 == After(b, i1, 5)
           i3 == After(b, i2, 6)
           i4 == After(b, i3, 8)
           i5 == After(b, i4, 5)
           i6 == After(b, i5, 6)
           all == SlotBits(has, gprs, egprs)
<1>1. all \in Bits
  BY SlotsAreBits
<1>2. At(b, i) = (IF "multislot" \in has THEN 1 ELSE 0) /\ ("multislot" \in has => Stands(b, i1, all))
  BY <1>1, FieldRead
<1>3. CASE "multislot" \notin has
  BY <1>2, <1>3 DEF ReadSlots, Shown, NoSlots
<1>4. CASE "multislot" \in has
  <2>1. i1 \in Nat /\ Stands(b, i1, all)
    BY <1>2, <1>4
  <2> HIDE DEF i1
  <2>0. /\ i2 = After(b, i1, 5) /\ i3 = After(b, i2, 6) /\ i4 = After(b, i3, 8)
        /\ i5 = After(b, i4, 5) /\ i6 = After(b, i5, 6) /\ all = SlotBits(has, gprs, egprs)
    OBVIOUS
  <2> HIDE DEF i2, i3, i4, i5, i6, all
  <2>2. /\ At(b, i1) = IF "hscsd" \in has THEN 1 ELSE 0
        /\ At(b, i2) = IF "gprs" \in has THEN 1 ELSE 0
        /\ "gprs" \in has => Stands(b, i2 + 1, gprs)
        /\ At(b, i5) = IF "egprs" \in has THEN 1 ELSE 0
        /\ "egprs" \in has => Stands(b, i5 + 1, egprs)
        /\ i2 \in Nat /\ i5 \in Nat /\ i6 \in Nat
        /\ Stands(b, i6, Opt("dtm", has, DtmBits(has)))
        /\ i1 + Len(all) = i6 + OptLength("dtm", has, DtmLength(has))
    <3>1. PartsAt(b, i1, i2, i5, i6, has, gprs, egprs, i1 + Len(all))
      BY <2>0, <2>1, SlotsStand, Zenon
    <3> QED
      BY <3>1, Zenon DEF PartsAt
  <2>3. Len(all) \in Nat /\ Len(Opt("multislot", has, all)) = 1 + Len(all)
    <3>1. Len(all) \in Nat
      BY <1>1, BitsJoin
    <3>2. Len(Opt("multislot", has, all)) = OptLength("multislot", has, Len(all))
      BY <1>1, <3>1, FieldBits
    <3> QED
      BY <1>4, <3>1, <3>2 DEF OptLength
  <2>4. i1 + Len(all) = j
    BY <2>3 DEF i1, all
  <2>5. Class(b, i2) = IF "gprs" \in has THEN gprs ELSE None
    BY <2>2, ClassRead
  <2>6. Class(b, i5) = IF "egprs" \in has THEN egprs ELSE None
    BY <2>2, ClassRead
  <2>7. get_umts(b, i6) = umts
    BY <2>2, <2>4, UmtsRead
  <2>8. FromSms(b, i3) = [egprs |-> Class(b, i5), umts |-> get_umts(b, i6)]
    BY DEF FromSms, i4, i5, i6
  <2>9. has \cap {"hscsd", "gprs"} # {} => ~(At(b, i1) = 0 /\ At(b, i2) = 0)
    BY <2>2
  <2>10. Slots(b, i1, skew).gprs = Class(b, i2)
    BY DEF Slots, i2
  <2>11. has \cap {"hscsd", "gprs"} # {}
             => Slots(b, i1, skew) = [gprs |-> Class(b, i2), egprs |-> Class(b, i5), umts |-> get_umts(b, i6)]
    BY <2>8, <2>9 DEF Slots, i2, i3
  <2>12. At(b, i) = 1
    BY <1>2, <1>4
  <2> QED
    BY <1>4, <2>5, <2>6, <2>7, <2>10, <2>11, <2>12 DEF i1, ReadSlots, Shown
<1> QED
  BY <1>3, <1>4

\* The bits a mobile sends, by their parts.
LEMMA EncodeParts ==
    ASSUME NEW c
    PROVE  Encode(c) = Ones(14) \o Opt("a5", c.has, Ones(7)) \o Ones(4)
                       \o Opt("multislot", c.has, SlotBits(c.has, c.gprs, c.egprs))
                       \o Opt("psk8", c.has, Ones(2)) \o Ones(2) \o c.umts \o Zeros(24)
BY DEF Encode, Field, Opt, SlotBits, DtmBits

\* The whole string stands at its beginning.
LEMMA StandsWhole ==
    ASSUME NEW b \in Bits
    PROVE  Stands(b, 0, b)
BY LenProperties DEF Stands, Bits

\* Whatever fields a capability has and whatever its classes are, the class of GPRS is read as
\* it was sent, and where the tree is right the rest is too.
LEMMA CapabilityRead ==
    ASSUME NEW c \in Capabilities
    PROVE  /\ sp_get_msc(Encode(c)).gprs = Sent(c).gprs
           /\ TreeRight(c) => sp_get_msc(Encode(c)) = Sent(c)
<1> DEFINE has == c.has
           b == Encode(c)
           slots == SlotBits(has, c.gprs, c.egprs)
           g1 == Ones(14)
           g2 == Opt("a5", has, Ones(7))
           g3 == Ones(4)
           g4 == Opt("multislot", has, slots)
           g5 == Opt("psk8", has, Ones(2))
           g6 == Ones(2)
           g7 == c.umts
           g8 == Zeros(24)
           n2 == OptLength("a5", has, 7)
           n5 == OptLength("psk8", has, 2)
           s2 == g1 \o g2
           s3 == s2 \o g3
           s4 == s3 \o g4
           s5 == s4 \o g5
           s6 == s5 \o g6
           s7 == s6 \o g7
           s8 == s7 \o g8
<1>0. c.gprs \in [1..5 -> Bit] /\ c.egprs \in [1..5 -> Bit] /\ c.umts \in [1..4 -> Bit]
  BY DEF Capabilities, Capability
<1>1. b = s8
  BY EncodeParts
<1>10. Ones(7) \in Bits /\ Len(Ones(7)) = 7
  BY OnesBits
<1>11. g1 \in Bits /\ Len(g1) = 14
  BY OnesBits
<1>12. g2 \in Bits /\ Len(g2) = n2 /\ n2 \in Nat
  BY <1>10, FieldBits
<1>13. g3 \in Bits /\ Len(g3) = 4
  BY OnesBits
<1>14. g4 \in Bits /\ Len(g4) \in Nat
  <2>1. \A d \in Bits : slots \in Bits
    BY <1>0, SlotsAreBits, Zenon
  <2>2. slots \in Bits
    BY <2>1, <1>11
  <2>3. Len(slots) \in Nat
    BY <2>2, BitsJoin
  <2> QED
    BY <2>2, <2>3, FieldBits
<1>16. g6 \in Bits /\ Len(g6) = 2
  BY OnesBits
<1>15. g5 \in Bits /\ Len(g5) = n5 /\ n5 \in Nat
  BY <1>16, FieldBits
<1>17. g7 \in Bits /\ Len(g7) = 4
  BY <1>0, FunctionBits
<1>18. g8 \in Bits /\ Len(g8) = 24
  <2>1. Zeros(24) \in [1..24 -> Bit]
    BY DEF Zeros, Bit
  <2> QED
    BY <2>1, FunctionBits
<1> HIDE DEF g1, g2, g3, g4, g5, g6, g7, g8, b, n2, n5
<1>22. s2 \in Bits /\ Len(s2) = 14 + n2
  BY <1>11, <1>12, BitsJoin
<1> HIDE DEF s2
<1>23. s3 \in Bits /\ Len(s3) = 14 + n2 + 4
  BY <1>22, <1>13, BitsJoin
<1> HIDE DEF s3
<1>24. s4 \in Bits /\ Len(s4) = 14 + n2 + 4 + Len(g4)
  BY <1>23, <1>14, BitsJoin
<1> HIDE DEF s4
<1>25. s5 \in Bits /\ Len(s5) = 14 + n2 + 4 + Len(g4) + n5
  BY <1>24, <1>15, BitsJoin
<1> HIDE DEF s5
<1>26. s6 \in Bits /\ Len(s6) = 14 + n2 + 4 + Len(g4) + n5 + 2
  BY <1>25, <1>16, BitsJoin
<1> HIDE DEF s6
<1>27. s7 \in Bits
  BY <1>26, <1>17, BitsJoin
<1> HIDE DEF s7
<1>28. b \in Bits
  BY <1>1, <1>27, <1>18, BitsJoin
<1>30. Stands(b, 0, s8)
  BY <1>1, <1>28, StandsWhole
<1>31. Stands(b, 0, s7)
  BY <1>18, <1>27, <1>28, <1>30, Split
<1>32. Stands(b, 0, s6) /\ Stands(b, 0 + Len(s6), g7)
  BY <1>17, <1>26, <1>28, <1>31, Split DEF s7
<1>33. Stands(b, 0, s5)
  BY <1>16, <1>25, <1>28, <1>32, Split DEF s6
<1>34. Stands(b, 0, s4) /\ Stands(b, 0 + Len(s4), g5)
  BY <1>15, <1>24, <1>28, <1>33, Split DEF s5
<1>35. Stands(b, 0, s3) /\ Stands(b, 0 + Len(s3), g4)
  BY <1>14, <1>23, <1>28, <1>34, Split DEF s4
<1>36. Stands(b, 0, s2)
  BY <1>13, <1>22, <1>28, <1>35, Split DEF s3
<1>37. Stands(b, 0 + Len(g1), g2)
  BY <1>11, <1>12, <1>28, <1>36, Split DEF s2
<1>38. At(b, 14) = IF "a5" \in has THEN 1 ELSE 0
  <2>1. Stands(b, 14, Opt("a5", has, Ones(7)))
    BY <1>11, <1>37 DEF g2
  <2> QED
    BY <1>10, <1>28, <2>1, FieldRead
<1> DEFINE i == IF "a5" \in has THEN 26 ELSE 19
           j == i + Len(g4)
           k == j + n5 + 2
<1>39. i \in Nat /\ j \in Nat /\ 0 + Len(s3) = i /\ 0 + Len(s4) = j /\ 0 + Len(s6) = k
  BY <1>14, <1>15, <1>23, <1>24, <1>26 DEF n2, OptLength
<1> HIDE DEF i, j, k
<1>40. Stands(b, i, g4) /\ Stands(b, j, g5) /\ Stands(b, k, g7)
  BY <1>32, <1>34, <1>35, <1>39
<1> DEFINE Read(skew) == ReadSlots(b, i, skew)
<1>41. ASSUME NEW skew
       PROVE  /\ Read(skew).gprs = Sent(c).gprs
              /\ TreeRight(c) => Read(skew) = Sent(c)
  <2>1. /\ Stands(b, i, Opt("multislot", has, slots)) /\ j = i + Len(Opt("multislot", has, slots))
        /\ Stands(b, j, Opt("psk8", has, Ones(2)))
        /\ Stands(b, j + OptLength("psk8", has, 2) + 2, c.umts)
    BY <1>40 DEF g4, g5, g7, j, k, n5
  <2>2. /\ Read(skew).gprs = Shown(has, "gprs", c.gprs)
        /\ "multislot" \in has /\ has \cap {"hscsd", "gprs"} # {}
              => Read(skew) = [gprs |-> Shown(has, "gprs", c.gprs),
                               egprs |-> Shown(has, "egprs", c.egprs), umts |-> c.umts]
    BY <1>0, <1>28, <1>39, <2>1, SlotsRead
  <2> QED
    BY <2>2 DEF Sent, TreeRight, Shown
<1>42. sp_get_msc(b) = IF "a5" \in has THEN Read(1) ELSE Read(9)
  <2>1. CASE "a5" \in has
    <3>1. At(b, 14) = 1 /\ i = 26 /\ i + 1 = 27
      BY <1>38, <2>1 DEF i
    <3>2. Read(1) = WithA5(b)
      BY <3>1 DEF WithA5, ReadSlots
    <3> QED
      BY <2>1, <3>1, <3>2 DEF sp_get_msc
  <2>2. CASE "a5" \notin has
    <3>1. At(b, 14) = 0 /\ i = 19 /\ i + 1 = 20
      BY <1>38, <2>2 DEF i
    <3>2. Read(9) = WithoutA5(b)
      BY <3>1 DEF WithoutA5, ReadSlots
    <3> QED
      BY <2>2, <3>1, <3>2 DEF sp_get_msc
  <2> QED
    BY <2>1, <2>2
<1> HIDE DEF Read
<1>43. CASE "a5" \in has
  <2>1. Encode(c) = b /\ sp_get_msc(b) = Read(1)
    BY <1>42, <1>43 DEF b
  <2> QED
    BY <1>41, <2>1
<1>44. CASE "a5" \notin has
  <2>1. Encode(c) = b /\ sp_get_msc(b) = Read(9)
    BY <1>42, <1>44 DEF b
  <2> QED
    BY <1>41, <2>1
<1> QED
  BY <1>43, <1>44

-----------------------------------------------------------------------------
\* What the capability of a packet is decoded to.
Read(p) == sp_get_msc(Encode(p.cap))

\* Is there a capability among the BSSGP IEs before the k-th, which is read downlink only?
HeadCapability(k) ==
    pkt.dir = "down" /\ \E i \in 1..(k - 1) : pkt.ies[i].type = "msrac" /\ pkt.ies[i].long

\* The head has been read.
InBody == layer \in {"llc", "gmm", "message", "gmm_ies"} \/ Decoded

\* The capability of the message has been read.
MessageRead ==
    \/ layer = "gmm_ies" /\ pkt.msg = "rau_request"
    \/ Decoded /\ pkt.msg \in {"attach_request", "rau_request"}

MscInv ==
    /\ DOMAIN msc = {"bssgp", "gmm"}
    /\ layer \in {"ns", "bssgp"} => at = 1
    /\ layer = "bssgp_ies" /\ HeadCapability(at) => msc["bssgp"] = Read(pkt)
    /\ InBody /\ pkt.dir = "down" /\ InHead(pkt, "msrac") => msc["bssgp"] = Read(pkt)
    /\ MessageRead => msc["gmm"] = Read(pkt)

\* A decoding that has failed promises nothing.
LEMMA FailMsc ==
    ASSUME MscInv, UNCHANGED msc, layer' \in {"idle", "done"}, layer' = "done" => ret' = "fail"
    PROVE  MscInv'
BY DEF MscInv, InBody, MessageRead, Decoded, HeadCapability

\* The head is walked IE by IE, and ends at the PDU.
LEMMA HeadMsc ==
    ASSUME IInv, MscInv, HeadStep
    PROVE  MscInv'
<1>1. CASE Fail
  BY <1>1, FailMsc DEF Fail, Return
<1>2. CASE ParseNs /\ Goto("bssgp")
  BY <1>2 DEF ParseNs, Goto, MscInv, InBody, MessageRead, Decoded
<1>3. CASE BssgpHead /\ Goto("bssgp_ies")
  <2>1. /\ layer = "bssgp" /\ layer' = "bssgp_ies" /\ at' = 1 /\ UNCHANGED <<pkt, msc>>
    BY <1>3 DEF BssgpHead, Goto, MscInv
  <2>2. ~HeadCapability(at)'
    BY <2>1 DEF HeadCapability
  <2> QED
    BY <2>1, <2>2 DEF MscInv, InBody, MessageRead, Decoded
<1>4. CASE BssgpIe
  <2> DEFINE ie == pkt.ies[at]
  <2>1. /\ layer = "bssgp_ies" /\ layer' = "bssgp_ies" /\ at' = at + 1 /\ UNCHANGED pkt
        /\ msc' = IF ie.type = "msrac" /\ ie.long /\ pkt.dir = "down"
                  THEN [msc EXCEPT !["bssgp"] = Read(pkt)] ELSE msc
    BY <1>4 DEF BssgpIe, NextIe, Read
  <2>2. DOMAIN msc' = {"bssgp", "gmm"}
    BY <2>1 DEF MscInv
  <2>3. ASSUME HeadCapability(at)' PROVE msc'["bssgp"] = Read(pkt)
    <3>1. PICK i \in 1..at : pkt.ies[i].type = "msrac" /\ pkt.ies[i].long
      <4>1. at \in Nat /\ (at + 1) - 1 = at
        BY DEF IInv, Typed
      <4> QED
        BY <2>1, <2>3, <4>1 DEF HeadCapability
    <3>2. pkt.dir = "down" /\ at \in Nat
      BY <2>1, <2>3 DEF HeadCapability, IInv, Typed
    <3>3. CASE ie.type = "msrac" /\ ie.long
      BY <2>1, <3>2, <3>3 DEF MscInv
    <3>4. CASE ~(ie.type = "msrac" /\ ie.long)
      <4>1. i # at
        BY <3>1, <3>4
      <4>2. i \in 1..(at - 1)
        BY <3>1, <3>2, <4>1
      <4>3. HeadCapability(at) /\ msc' = msc
        BY <2>1, <3>1, <3>2, <3>4, <4>2 DEF HeadCapability
      <4> QED
        BY <2>1, <4>3 DEF MscInv
    <3> QED
      BY <3>3, <3>4
  <2>4. ~InBody' /\ ~MessageRead' /\ layer' \notin {"ns", "bssgp"}
    BY <2>1 DEF InBody, MessageRead, Decoded
  <2>5. Read(pkt)' = Read(pkt)
    BY <2>1 DEF Read
  <2> QED
    BY <2>2, <2>3, <2>4, <2>5 DEF MscInv
<1>5. CASE BssgpPdu
  <2>1. /\ layer = "bssgp_ies" /\ layer' = "llc" /\ UNCHANGED <<pkt, msc>>
        /\ pkt.ies[at].type = "llc_pdu" /\ at \in Nat \ {0}
    BY <1>5 DEF BssgpPdu, Goto, IInv, Typed
  <2>2. ASSUME pkt.dir = "down", InHead(pkt, "msrac") PROVE HeadCapability(at)
    <3>1. PICK i \in 1..Len(pkt.ies) :
              /\ pkt.ies[i].type = "msrac" /\ pkt.ies[i].long
              /\ \A j \in 1..i : pkt.ies[j].type # "llc_pdu"
      BY <2>2 DEF InHead
    <3>2. i \in Nat /\ i >= 1
      OBVIOUS
    <3>3. ~(at <= i)
      BY <2>1, <3>1, <3>2
    <3>4. i \in 1..(at - 1)
      BY <2>1, <3>2, <3>3
    <3> QED
      BY <2>2, <3>1, <3>4 DEF HeadCapability
  <2> QED
    BY <2>1, <2>2 DEF MscInv, InBody, MessageRead, Decoded, Read
<1>6. CASE LlcHead /\ ~Fail
  <2>1. /\ layer = "llc" /\ UNCHANGED <<pkt, msc>>
        /\ layer' = "gmm" \/ (layer' = "done" /\ pkt.sapi # "gmm")
    BY <1>6 DEF LlcHead, Goto, Return
  <2> QED
    BY <2>1 DEF MscInv, InBody, MessageRead, Decoded, Read
<1>7. CASE GmmHead /\ ~Fail
  BY <1>7 DEF GmmHead, MscInv, InBody, MessageRead, Decoded, Read
<1> QED
  BY <1>1, <1>2, <1>3, <1>4, <1>5, <1>6, <1>7 DEF HeadStep, ParseNs, BssgpHead, BssgpNoPdu,
     LlcHead, GmmHead, UnknownMessage, MessageTooShort

\* A handler works on the message, and either leaves the capability alone and is not the one
\* that should have read it, or reads it.
Handles ==
    /\ layer \in {"message", "gmm_ies"} /\ layer' \in {"gmm_ies", "done"} /\ UNCHANGED pkt
    /\ \/ UNCHANGED msc /\ (MessageRead' => MessageRead)
       \/ DecodeCapability

LEMMA HandlesMsc ==
    ASSUME MscInv, Handles
    PROVE  MscInv'
<1>1. /\ layer \in {"message", "gmm_ies"} /\ layer' \in {"gmm_ies", "done"}
      /\ pkt' = pkt /\ Read(pkt)' = Read(pkt) /\ InBody
  BY DEF Handles, InBody, Read
<1>2. CASE UNCHANGED msc /\ (MessageRead' => MessageRead)
  BY <1>1, <1>2 DEF MscInv, Handles, InBody, Read
<1>3. CASE DecodeCapability
  <2>1. /\ DOMAIN msc' = {"bssgp", "gmm"} /\ msc'["gmm"] = Read(pkt)
        /\ msc'["bssgp"] = msc["bssgp"]
    BY <1>3 DEF DecodeCapability, MscInv, Read
  <2> QED
    BY <1>1, <2>1 DEF MscInv, Handles, InBody, Read
<1> QED
  BY <1>2, <1>3 DEF Handles

\* A message of another kind holds no capability.
LEMMA OtherHandles ==
    ASSUME layer \in {"message", "gmm_ies"}, layer' \in {"gmm_ies", "done"}, UNCHANGED <<pkt, msc>>,
           pkt.msg \notin {"attach_request", "rau_request"}
    PROVE  Handles
BY DEF Handles, MessageRead

LEMMA MessageMsc ==
    ASSUME MscInv, MessageStep
    PROVE  MscInv'
<1>1. CASE sp_parse_attach_request
  <2>1. layer = "message" /\ layer' = "done" /\ pkt' = pkt /\ (DecodeCapability \/ (ret' = "fail" /\ UNCHANGED msc))
    BY <1>1 DEF sp_parse_attach_request, Called, Return
  <2> QED
    BY <2>1, FailMsc, HandlesMsc DEF Handles
<1>2. CASE sp_parse_rau_request
  <2>1. CASE Fail
    BY <2>1, FailMsc DEF Fail, Return
  <2>2. CASE Walk /\ DecodeCapability
    BY <1>2, <2>2, HandlesMsc DEF sp_parse_rau_request, Called, Walk, Handles
  <2> QED
    BY <1>2, <2>1, <2>2 DEF sp_parse_rau_request
<1>3. CASE RauRequestIes
  <2>1. /\ layer = "gmm_ies" /\ layer' \in {"gmm_ies", "done"} /\ UNCHANGED <<pkt, msc>>
        /\ pkt.msg = "rau_request"
    BY <1>3 DEF RauRequestIes, Walking, Known, Skip, StoreAndEnd, Unknown, Ended, Stray, MoveBy, Return
  <2> QED
    BY <2>1, HandlesMsc DEF Handles, MessageRead
<1>4. CASE \/ sp_parse_attach_complete \/ sp_parse_attach_reject \/ sp_parse_detach_request
           \/ sp_parse_detach_accept \/ sp_parse_rau_complete \/ sp_parse_rau_reject
           \/ sp_parse_pdp_request \/ sp_parse_pdp_reject \/ sp_parse_deact_request
           \/ sp_parse_deact_accept
  <2>1. /\ layer = "message" /\ layer' = "done" /\ UNCHANGED <<pkt, msc>>
        /\ pkt.msg \notin {"attach_request", "rau_request"}
    BY <1>4 DEF sp_parse_attach_complete, sp_parse_attach_reject, sp_parse_detach_request,
       sp_parse_detach_accept, sp_parse_rau_complete, sp_parse_rau_reject, sp_parse_pdp_request,
       sp_parse_pdp_reject, sp_parse_deact_request, sp_parse_deact_accept, Called, Stores, Return
  <2> QED
    BY <2>1, OtherHandles, HandlesMsc
<1>5. CASE sp_parse_auth_response
  <2>1. /\ layer \in {"message", "gmm_ies"} /\ layer' \in {"gmm_ies", "done"} /\ UNCHANGED <<pkt, msc>>
        /\ pkt.msg = "auth_response"
    BY <1>5 DEF sp_parse_auth_response, Called, Walk, Walking, Known, Skip, Fail, StoreAndEnd,
       Unknown, Ended, Stray, MoveBy, Return
  <2> QED
    BY <2>1, OtherHandles, HandlesMsc
<1>6. CASE sp_parse_attach_accept
  <2>1. /\ layer \in {"message", "gmm_ies"} /\ layer' \in {"gmm_ies", "done"} /\ UNCHANGED <<pkt, msc>>
        /\ pkt.msg = "attach_accept"
    BY <1>6 DEF sp_parse_attach_accept, Called, WalkBehindArea, Walk, Walking, Known, Skip, SkipList, StoreTmsi,
       StoreAndEnd, Unknown, Ended, Stray, MoveBy, Return
  <2> QED
    BY <2>1, OtherHandles, HandlesMsc
<1>7. CASE sp_parse_rau_accept
  <2>1. /\ layer \in {"message", "gmm_ies"} /\ layer' \in {"gmm_ies", "done"} /\ UNCHANGED <<pkt, msc>>
        /\ pkt.msg = "rau_accept"
    BY <1>7 DEF sp_parse_rau_accept, Called, WalkBehindArea, Walk, Walking, Known, Skip, SkipList, StoreTmsi,
       StoreAndEnd, Unknown, Ended, Stray, MoveBy, Return
  <2> QED
    BY <2>1, OtherHandles, HandlesMsc
<1>8. CASE sp_parse_pdp_accept
  <2>1. /\ layer \in {"message", "gmm_ies"} /\ layer' \in {"gmm_ies", "done"} /\ UNCHANGED <<pkt, msc>>
        /\ pkt.msg = "pdp_accept"
    BY <1>8 DEF sp_parse_pdp_accept, Called, Walk, Walking, Known, Skip, StoreAndSkip,
       StoreAndEnd, Unknown, Ended, Stray, MoveBy, Return
  <2> QED
    BY <2>1, OtherHandles, HandlesMsc
<1> QED
  BY <1>1, <1>2, <1>3, <1>4, <1>5, <1>6, <1>7, <1>8 DEF MessageStep

\* Every step keeps what has been read of the capability in agreement with the packet.
LEMMA StepMsc ==
    ASSUME IInv, MscInv, [Next]_vars
    PROVE  MscInv'
<1>1. ASSUME NEW p \in Packets, Receive(p) PROVE MscInv'
  <2>1. layer' = "ns" /\ at' = 1 /\ msc' = NoMsc
    BY <1>1 DEF Receive
  <2>2. DOMAIN NoMsc = {"bssgp", "gmm"}
    BY DEF NoMsc
  <2> QED
    BY <2>1, <2>2 DEF MscInv, InBody, MessageRead, Decoded
<1>2. CASE HeadStep
  BY <1>2, HeadMsc
<1>3. CASE MessageStep
  BY <1>3, MessageMsc
<1>4. CASE Finish
  BY <1>4, FailMsc DEF Finish
<1>5. CASE UNCHANGED vars
  <2>1. UNCHANGED <<pkt, layer, at, msc, ret>>
    BY <1>5 DEF vars
  <2>2. UNCHANGED InBody /\ UNCHANGED MessageRead /\ UNCHANGED HeadCapability(at)
    BY <2>1 DEF InBody, MessageRead, HeadCapability, Decoded
  <2> QED
    BY <2>1, <2>2 DEF MscInv, Read
<1> QED
  BY <1>1, <1>2, <1>3, <1>4, <1>5 DEF Next, sp_process_gb

\* Whatever fields a capability has, in whatever order the layers find it: in every combination
\* of fields in which the tree of tests of sp_get_msc is right, what a decoded message leaves is
\* the capability as it was sent, and the GPRS class is that in every combination.  The tree is
\* followed along the string a mobile sends, whose fields stand where those before them end.
THEOREM CapabilityDecodedAlways == Spec => []CapabilityDecoded
<1>1. Init => MscInv
  <2>1. DOMAIN NoMsc = {"bssgp", "gmm"}
    BY DEF NoMsc
  <2> QED
    BY <2>1 DEF Init, MscInv, InBody, MessageRead, Decoded
<1>2. IInv /\ MscInv /\ [Next]_vars => MscInv'
  BY StepMsc
<1>3. IInv /\ MscInv => CapabilityDecoded
  <2> SUFFICES ASSUME IInv, MscInv, Decoded
               PROVE  /\ pkt.msg \in {"attach_request", "rau_request"}
                            => /\ TreeRight(pkt.cap) => msc["gmm"] = Sent(pkt.cap)
                               /\ msc["gmm"].gprs = Sent(pkt.cap).gprs
                      /\ pkt.dir = "down" /\ InHead(pkt, "msrac")
                            => /\ TreeRight(pkt.cap) => msc["bssgp"] = Sent(pkt.cap)
                               /\ msc["bssgp"].gprs = Sent(pkt.cap).gprs
    BY DEF CapabilityDecoded
  <2>1. pkt.cap \in Capabilities
    <3>1. pkt \in Packet
      BY PacketsAssumption DEF IInv, Typed, Decoded
    <3> QED
      BY <3>1 DEF Packet, Capabilities
  <2>2. /\ Read(pkt).gprs = Sent(pkt.cap).gprs
        /\ TreeRight(pkt.cap) => Read(pkt) = Sent(pkt.cap)
    BY <2>1, CapabilityRead DEF Read
  <2>3. pkt.msg \in {"attach_request", "rau_request"} => msc["gmm"] = Read(pkt)
    BY DEF MscInv, MessageRead
  <2>4. pkt.dir = "down" /\ InHead(pkt, "msrac") => msc["bssgp"] = Read(pkt)
    BY DEF MscInv, InBody
  <2> QED
    BY <2>2, <2>3, <2>4
<1> QED
  BY <1>1, <1>2, <1>3, Inductive, PTL DEF Spec
=============================================================================
