--------------------------- MODULE ShmQueueProofs ---------------------------
(***************************************************************************)
(* Proofs about ShmQueue for every ring size, every set of items and every *)
(* bound, with a fenced producer.                                          *)
(***************************************************************************)
EXTENDS ShmQueue, SequenceTheorems, TLAPS

\* The producer's reservation: it acts on a total of the consumer that only
\* grows, so the room it saw is still there.
RoomKept == ppc # "idle" => Occupied < Size

\* Likewise the item the consumer saw stays until the consumer releases it.
WorkKept == cpc # "poll" => Occupied > 0

\* tail is always the slot after the last published one; while the producer
\* is between the copy and push_index++ it is one further.
TailAligned ==
    /\ ppc # "publish" => tail = Pos(Occupied)
    /\ ppc = "publish" => tail = Pos(Occupied + 1)

ItemHeld == ppc # "idle" => item \in Items

\* Stores under way can only be those of the item being copied.
CopyInSlot ==
    /\ \A i \in Index :
          ~(ppc = "publish" /\ i = Pos(Occupied)) => inflight[i] = NoItem
    /\ (ppc = "publish" /\ inflight[Pos(Occupied)] = NoItem)
          => slots[Pos(Occupied)] = item
    /\ ppc = "publish" => inflight[Pos(Occupied)] \in {NoItem, item}

SeenIsHead == cpc = "release" => seen = slots[head]

IInv ==
    /\ TypeOK
    /\ NoOverrun
    /\ RoomKept
    /\ WorkKept
    /\ TailAligned
    /\ ItemHeld
    /\ CopyInSlot
    /\ PublishedComplete
    /\ SeenIsHead

-----------------------------------------------------------------------------
(* Arithmetic of the ring.  Pos and Advance are the only users of the      *)
(* wrap-around; everything else follows from these three facts.            *)

\* Advancing an index modulo the size.
LEMMA AdvanceWraps ==
    ASSUME NEW i \in Index
    PROVE  /\ Advance(i) \in Index
           /\ Advance(i) = IF i + 1 = Size THEN 0 ELSE i + 1
  BY SizeAssumption DEF Advance, Index

\* A place inside the ring is an index, and distinct places are distinct.
LEMMA PosInRing ==
    ASSUME head \in Index, NEW j \in 0 .. Size
    PROVE  /\ Pos(j) \in Index
           /\ \A k \in 0 .. Size : (j < k /\ k - j < Size) => Pos(j) # Pos(k)
           /\ j < Size => Advance(Pos(j)) = Pos(j + 1)
  <1>1. /\ Pos(j) \in Index
        /\ \A k \in 0 .. Size : (j < k /\ k - j < Size) => Pos(j) # Pos(k)
    BY SizeAssumption DEF Pos, Index
  <1>2. ASSUME j < Size PROVE Advance(Pos(j)) = Pos(j + 1)
    <2>1. Advance(Pos(j)) = IF Pos(j) + 1 = Size THEN 0 ELSE Pos(j) + 1
      BY <1>1, AdvanceWraps
    <2> QED BY <1>2, <2>1, SizeAssumption DEF Pos, Index
  <1> QED BY <1>1, <1>2

-----------------------------------------------------------------------------
(* Type correctness.                                                       *)

\* Every step of either kind of producer keeps the types.
LEMMA NextKeepsType == TypeOK /\ [Next]_vars => TypeOK'
  <1> SUFFICES ASSUME TypeOK, [Next]_vars PROVE TypeOK'
    OBVIOUS
  <1> USE DEF TypeOK
  <1>1. CASE Refuse
    BY <1>1 DEF Refuse, consVars
  <1>2. ASSUME NEW v \in Items, Accept(v) PROVE TypeOK'
    BY <1>2 DEF Accept, consVars
  <1>3. CASE Copy
    <2>1. tail' \in Index
      BY <1>3, AdvanceWraps DEF Copy
    <2> QED BY <1>3, <2>1 DEF Copy, consVars
  <1>4. ASSUME NEW i \in Index, Drain(i) PROVE TypeOK'
    BY <1>4 DEF Drain, prodVars, consVars
  <1>5. CASE Publish
    BY <1>5 DEF Publish, consVars
  <1>6. CASE Poll
    BY <1>6 DEF Poll, prodVars
  <1>7. CASE Process
    BY <1>7 DEF Process, prodVars
  <1>8. CASE Release
    <2>1. head' \in Index
      BY <1>8, AdvanceWraps DEF Release
    <2> QED BY <1>8, <2>1 DEF Release, prodVars
  <1>9. ASSUME NEW p \in {"producer", "consumer"}, Exit(p) PROVE TypeOK'
    BY <1>9 DEF Exit, prodVars, consVars
  <1>10. CASE UNCHANGED vars
    BY <1>10 DEF vars, prodVars, consVars
  <1> QED
    BY <1>1, <1>2, <1>3, <1>4, <1>5, <1>6, <1>7, <1>8, <1>9, <1>10 DEF Next

\* Every variable keeps its type, for either kind of producer.
THEOREM TypeCorrect == Spec => []TypeOK
  <1>1. Init => TypeOK
    BY SizeAssumption DEF Init, TypeOK, Index
  <1> QED BY <1>1, NextKeepsType, PTL DEF Spec

-----------------------------------------------------------------------------
(* The inductive invariant.                                                *)

\* It holds of the cleared memory.
LEMMA InitIInv == Init => IInv
  <1> SUFFICES ASSUME Init PROVE IInv
    OBVIOUS
  <1>1. TypeOK /\ Occupied = 0
    BY SizeAssumption DEF Init, TypeOK, Index, Occupied
  <1> QED
    BY <1>1, SizeAssumption
    DEF Init, IInv, NoOverrun, RoomKept, WorkKept, TailAligned, ItemHeld,
        CopyInSlot, PublishedComplete, SeenIsHead, Pos,
        Index, TypeOK

\* The producer's steps that leave the memory of the queue alone.
LEMMA OfferKeepsIInv ==
    ASSUME IInv, TypeOK', Refuse \/ \E v \in Items : Accept(v)
    PROVE  IInv'
  <1>1. CASE Refuse
    BY <1>1
    DEF Refuse, consVars, IInv, TypeOK, NoOverrun, RoomKept, WorkKept,
        TailAligned, ItemHeld, CopyInSlot, PublishedComplete, SeenIsHead, Pos, Occupied
  <1>2. ASSUME NEW v \in Items, Accept(v) PROVE IInv'
    <2>1. Occupied < Size
      BY <1>2, SizeAssumption DEF Accept, IsFull, IInv, TypeOK, Occupied
    <2> QED
      BY <1>2, <2>1
      DEF Accept, consVars, IInv, TypeOK, NoOverrun, RoomKept, WorkKept,
          TailAligned, ItemHeld, CopyInSlot, PublishedComplete, SeenIsHead, Pos, Occupied
  <1> QED BY <1>1, <1>2

\* The copy goes to the slot after the last published one: since there is
\* room, that is none of the published ones.
LEMMA CopyKeepsIInv ==
    ASSUME IInv, TypeOK', Copy
    PROVE  IInv'
  <1> USE DEF IInv
  <1>1. /\ Occupied \in Nat /\ Occupied < Size
        /\ tail = Pos(Occupied) /\ item \in Items
    BY SizeAssumption
    DEF Copy, TypeOK, NoOverrun, RoomKept, TailAligned, ItemHeld, Occupied
  <1>2. /\ Pos(Occupied) \in Index
        /\ Advance(Pos(Occupied)) = Pos(Occupied + 1)
    BY <1>1, PosInRing, SizeAssumption DEF TypeOK
  <1>3. \A j \in 0 .. Occupied - 1 : Pos(j) \in Index /\ Pos(j) # Pos(Occupied)
    <2> TAKE j \in 0 .. Occupied - 1
    <2>1. j \in 0 .. Size /\ Occupied \in 0 .. Size /\ j < Occupied /\ Occupied - j < Size
      BY <1>1, SizeAssumption
    <2> QED BY <2>1, <1>1, PosInRing, SizeAssumption DEF TypeOK
  <1>4. /\ Occupied' = Occupied
        /\ \A j \in 0 .. Size : Pos(j)' = Pos(j)
        /\ Pos(Occupied)' = Pos(Occupied)
        /\ Pos(Occupied + 1)' = Pos(Occupied + 1)
    BY DEF Copy, Occupied, Pos
  <1>5. /\ inflight' = [inflight EXCEPT ![Pos(Occupied)] = item]
        /\ slots' = [slots EXCEPT ![Pos(Occupied)] = Torn]
        /\ tail' = Pos(Occupied + 1)
    BY <1>1, <1>2 DEF Copy
  <1>6. NoOverrun' /\ RoomKept' /\ WorkKept' /\ ItemHeld'
    BY <1>1, <1>4
    DEF Copy, consVars, TypeOK, NoOverrun, RoomKept, WorkKept, ItemHeld
  <1>7. TailAligned'
    BY <1>4, <1>5 DEF Copy, TailAligned
  <1>8. CopyInSlot'
    <2>1. inflight'[Pos(Occupied)] = item /\ item # NoItem
      BY <1>1, <1>2, <1>5, ItemAssumption DEF TypeOK
    <2>2. \A i \in Index : i # Pos(Occupied) => inflight'[i] = NoItem
      BY <1>2, <1>5 DEF Copy, TypeOK, CopyInSlot
    <2>3. (CopyInSlot)' <=>
            /\ \A i \in Index :
                  ~(ppc' = "publish" /\ i = Pos(Occupied)) => inflight'[i] = NoItem
            /\ (ppc' = "publish" /\ inflight'[Pos(Occupied)] = NoItem)
                  => slots'[Pos(Occupied)] = item'
            /\ ppc' = "publish" => inflight'[Pos(Occupied)] \in {NoItem, item'}
      BY <1>4 DEF CopyInSlot
    <2> QED BY <2>1, <2>2, <2>3 DEF Copy
  <1>9. PublishedComplete'
    <2>1. \A j \in 0 .. Occupied - 1 : slots'[Pos(j)] = slots[Pos(j)]
      BY <1>3, <1>5 DEF TypeOK
    <2>2. head' = head
      BY DEF Copy
    <2> QED BY <1>4, <2>1, <2>2 DEF PublishedComplete, Pos
  <1>10. SeenIsHead'
    <2>1. cpc = "release" => head # Pos(Occupied)
      <3> SUFFICES ASSUME cpc = "release" PROVE head # Pos(Occupied)
        OBVIOUS
      <3>1. Occupied > 0
        BY DEF WorkKept
      <3>2. Pos(0) = head
        BY SizeAssumption DEF Pos, TypeOK, Index
      <3> QED BY <3>1, <3>2, <1>1, <1>3
    <2> QED BY <2>1, <1>2, <1>5 DEF Copy, consVars, SeenIsHead, TypeOK
  <1> QED BY <1>6, <1>7, <1>8, <1>9, <1>10

\* A store reaches memory: only the copy under way can be completed.
LEMMA DrainKeepsIInv ==
    ASSUME IInv, TypeOK', NEW i \in Index, Drain(i)
    PROVE  IInv'
  <1> USE DEF IInv
  <1>1. ppc = "publish" /\ i = Pos(Occupied)
    BY DEF Drain, CopyInSlot
  <1>2. /\ Occupied' = Occupied /\ head' = head
        /\ Pos(Occupied)' = Pos(Occupied)
        /\ Pos(Occupied + 1)' = Pos(Occupied + 1)
    BY DEF Drain, Occupied, Pos
  <1>3. /\ Occupied \in Nat /\ Occupied < Size
    BY <1>1, SizeAssumption DEF TypeOK, NoOverrun, RoomKept, Occupied
  <1>4. slots'[i] = inflight[i] /\ inflight[i] \in Items
    BY DEF Drain, TypeOK
  <1>5. NoOverrun' /\ RoomKept' /\ WorkKept' /\ TailAligned' /\ ItemHeld'
       
    BY <1>2
    DEF Drain, prodVars, consVars, NoOverrun, RoomKept, WorkKept,
        TailAligned, ItemHeld
  <1>6. /\ inflight[i] = item /\ inflight[i] # NoItem
        /\ inflight' = [inflight EXCEPT ![i] = NoItem]
        /\ slots' = [slots EXCEPT ![i] = item]
    BY <1>1 DEF Drain, CopyInSlot
  <1>7. CopyInSlot'
    <2>1. (CopyInSlot)' <=>
            /\ \A k \in Index :
                  ~(ppc' = "publish" /\ k = Pos(Occupied)) => inflight'[k] = NoItem
            /\ (ppc' = "publish" /\ inflight'[Pos(Occupied)] = NoItem)
                  => slots'[Pos(Occupied)] = item'
            /\ ppc' = "publish" => inflight'[Pos(Occupied)] \in {NoItem, item'}
      BY <1>2 DEF CopyInSlot
    <2> QED BY <1>1, <1>6, <2>1 DEF Drain, prodVars, CopyInSlot, TypeOK
  <1>8. \A j \in 0 .. Occupied - 1 : Pos(j) \in Index /\ Pos(j) # i
    BY <1>1, <1>3, PosInRing, SizeAssumption DEF TypeOK
  <1>9. PublishedComplete'
    <2>1. \A j \in 0 .. Occupied - 1 : slots'[Pos(j)] = slots[Pos(j)]
      BY <1>6, <1>8 DEF TypeOK
    <2> QED BY <1>2, <2>1 DEF PublishedComplete, Pos
  <1>10. SeenIsHead'
    <2>1. cpc = "release" => i # head
      <3>1. cpc = "release" => Pos(0) # i
        BY <1>8 DEF WorkKept, TypeOK, NoOverrun, Occupied
      <3> QED BY <3>1, SizeAssumption DEF Pos, TypeOK, Index
    <2> QED BY <2>1, <1>2, <1>6 DEF Drain, consVars, SeenIsHead, TypeOK
  <1> QED BY <1>5, <1>7, <1>9, <1>10

\* With a fence, the total moves only after the whole copy has arrived.
LEMMA PublishKeepsIInv ==
    ASSUME IInv, TypeOK', Fenced, Publish
    PROVE  IInv'
  <1> USE DEF IInv
  <1>1. /\ Occupied \in Nat /\ Occupied < Size
        /\ Occupied' = Occupied + 1 /\ head' = head
    BY SizeAssumption DEF Publish, TypeOK, NoOverrun, RoomKept, Occupied
  <1>2. /\ Pos(Occupied) \in Index
        /\ \A k \in Index : inflight[k] = NoItem
    BY <1>1, PosInRing, SizeAssumption DEF Publish, FencePassed, TypeOK
  <1>3. slots[Pos(Occupied)] \in Items
    BY <1>2 DEF Publish, CopyInSlot, ItemHeld
  <1>4. /\ RoomKept' /\ WorkKept' /\ ItemHeld'
        /\ SeenIsHead' /\ CopyInSlot'
    BY <1>1, <1>2
    DEF Publish, consVars, TypeOK, RoomKept, WorkKept, ItemHeld, SeenIsHead, CopyInSlot
  <1>5. NoOverrun'
    BY <1>1, SizeAssumption DEF Publish, TypeOK, NoOverrun
  <1>6. TailAligned'
    BY <1>1 DEF Publish, TailAligned, Pos
  <1>7. PublishedComplete'
    <2>1. \A j \in 0 .. Occupied : slots[Pos(j)] \in Items
      BY <1>1, <1>3 DEF PublishedComplete
    <2>2. slots' = slots /\ 0 .. Occupied' - 1 = 0 .. Occupied
      BY <1>1 DEF Publish
    <2> QED BY <1>1, <2>1, <2>2 DEF PublishedComplete, Pos
  <1> QED BY <1>4, <1>5, <1>6, <1>7

\* The consumer's steps before it gives the slot back.
LEMMA ReadKeepsIInv ==
    ASSUME IInv, TypeOK', Poll \/ Process
    PROVE  IInv'
  <1>1. CASE Poll
    BY <1>1
    DEF Poll, IsEmpty, prodVars, IInv, TypeOK, NoOverrun, RoomKept, WorkKept,
        TailAligned, ItemHeld, CopyInSlot, PublishedComplete, SeenIsHead, Pos, Occupied
  <1>2. CASE Process
    BY <1>2
    DEF Process, prodVars, IInv, TypeOK, NoOverrun, RoomKept, WorkKept,
        TailAligned, ItemHeld, CopyInSlot, PublishedComplete, SeenIsHead, Pos, Occupied
  <1> QED BY <1>1, <1>2

\* Giving the slot back renumbers the places: what was at j + 1 is now at j.
LEMMA ReleaseKeepsIInv ==
    ASSUME IInv, TypeOK', Release
    PROVE  IInv'
  <1> USE DEF IInv
  <1>1. /\ Occupied \in Nat /\ Occupied > 0 /\ Occupied <= Size
        /\ Occupied' = Occupied - 1
        /\ ppc # "idle" => Occupied < Size
    BY SizeAssumption
    DEF Release, TypeOK, NoOverrun, RoomKept, WorkKept, Occupied
  <1>2. head' = IF head + 1 = Size THEN 0 ELSE head + 1
    BY AdvanceWraps DEF Release, TypeOK
  <1>3. Pos(Occupied)' = Pos(Occupied)
    BY <1>1, <1>2, SizeAssumption DEF Pos, TypeOK, Index
  <1>4. /\ WorkKept' /\ ItemHeld' /\ SeenIsHead'
    BY DEF Release, prodVars, WorkKept, ItemHeld, SeenIsHead
  <1>5. RoomKept'
    BY <1>1, SizeAssumption DEF Release, prodVars, RoomKept
  <1>6. NoOverrun'
    BY <1>1, SizeAssumption DEF Release, TypeOK, NoOverrun, Occupied
  <1>7. TailAligned'
    BY <1>1, <1>2, SizeAssumption
    DEF Release, prodVars, TypeOK, Index, TailAligned, Pos
  <1>8. CopyInSlot'
    BY <1>3 DEF Release, prodVars, CopyInSlot
  <1>9. PublishedComplete'
    <2> SUFFICES ASSUME NEW j \in 0 .. Occupied' - 1
                 PROVE  slots'[Pos(j)'] \in Items
      BY DEF PublishedComplete, Pos
    <2>1. j + 1 \in 0 .. Occupied - 1 /\ j \in 0 .. Size - 1
      BY <1>1, SizeAssumption
    <2>2. Pos(j)' = Pos(j + 1)
      BY <2>1, <1>2, SizeAssumption DEF Pos, TypeOK, Index
    <2> QED BY <2>1, <2>2 DEF Release, PublishedComplete
  <1> QED BY <1>4, <1>6, <1>5, <1>7, <1>8, <1>9

\* One step of either process, or of the memory.
LEMMA NextKeepsIInv ==
    ASSUME Fenced
    PROVE  IInv /\ [Next]_vars => IInv'
  <1> SUFFICES ASSUME IInv, [Next]_vars PROVE IInv'
    OBVIOUS
  <1>1. TypeOK'
    BY NextKeepsType DEF IInv
  <1>2. CASE UNCHANGED vars
    BY <1>2
    DEF vars, prodVars, consVars, IInv, TypeOK, NoOverrun, RoomKept,
        WorkKept, TailAligned, ItemHeld, CopyInSlot, PublishedComplete,
        SeenIsHead, Pos, Occupied
  <1>3. ASSUME NEW p \in {"producer", "consumer"}, Exit(p) PROVE IInv'
    BY <1>3
    DEF Exit, prodVars, consVars, IInv, TypeOK, NoOverrun, RoomKept,
        WorkKept, TailAligned, ItemHeld, CopyInSlot, PublishedComplete,
        SeenIsHead, Pos, Occupied
  <1> QED
    BY <1>1, <1>2, <1>3, OfferKeepsIInv, CopyKeepsIInv, DrainKeepsIInv,
       PublishKeepsIInv, ReadKeepsIInv, ReleaseKeepsIInv
    DEF Next

\* The inductive invariant holds throughout, for a fenced producer.
THEOREM Inductive ==
    ASSUME Fenced
    PROVE  Spec => []IInv
  BY InitIInv, NextKeepsIInv, PTL DEF Spec

\* The two totals stay within one ring of each other.
THEOREM NoOverrunAlways ==
    ASSUME Fenced
    PROVE  Spec => []NoOverrun
  <1>1. IInv => NoOverrun
    BY DEF IInv
  <1> QED BY <1>1, Inductive, PTL

\* What is published can be read: no torn item between the totals.
THEOREM PublishedCompleteAlways ==
    ASSUME Fenced
    PROVE  Spec => []PublishedComplete
  <1>1. IInv => PublishedComplete
    BY DEF IInv
  <1> QED BY <1>1, Inductive, PTL

-----------------------------------------------------------------------------
(* The ring implements the bounded buffer.                                 *)

\* What the totals delimit is a sequence of items.
LEMMA ContentsIsSeq ==
    ASSUME IInv
    PROVE  /\ Contents \in Seq(Items)
           /\ Occupied \in Nat
           /\ Len(Contents) = Occupied
           /\ \A j \in 1 .. Occupied : Contents[j] = slots[Pos(j - 1)]
  <1>1. Occupied \in Nat
    BY DEF IInv, TypeOK, NoOverrun, Occupied
  <1>2. \A j \in 1 .. Occupied : slots[Pos(j - 1)] \in Items
    BY <1>1 DEF IInv, PublishedComplete
  <1>3. Contents \in [1 .. Occupied -> Items]
    BY <1>2 DEF Contents
  <1>4. Contents \in Seq(Items)
    BY <1>1, <1>3, SeqDef
  <1>5. Len(Contents) = Occupied
    BY <1>1, <1>4, LenProperties DEF Contents
  <1> QED BY <1>1, <1>4, <1>5 DEF Contents

\* The same after a step.
LEMMA ContentsIsSeqNext ==
    IInv' => (Contents \in Seq(Items) /\ Len(Contents) = Occupied)'
  <1>1. IInv => Contents \in Seq(Items) /\ Len(Contents) = Occupied
    BY ContentsIsSeq
  <1> QED BY <1>1, PTL

\* Outside Publish and Release nothing between the totals changes.
LEMMA ContentsFrame ==
    ASSUME IInv, IInv', head' = head, push_index' = push_index,
           pop_index' = pop_index,
           \A j \in 0 .. Occupied - 1 : slots'[Pos(j)] = slots[Pos(j)]
    PROVE  Contents' = Contents
  <1>1. Occupied' = Occupied /\ Occupied \in Nat
    BY ContentsIsSeq DEF Occupied
  <1>2. \A j \in 1 .. Occupied : slots'[Pos(j - 1)] = slots[Pos(j - 1)]
    BY <1>1
  <1> QED BY <1>1, <1>2 DEF Contents, Pos

\* The copy and its arrival touch no published slot.
LEMMA StoresOutsideContents ==
    ASSUME IInv, Copy \/ \E i \in Index : Drain(i)
    PROVE  \A j \in 0 .. Occupied - 1 : slots'[Pos(j)] = slots[Pos(j)]
  <1> SUFFICES ASSUME NEW j \in 0 .. Occupied - 1
               PROVE  slots'[Pos(j)] = slots[Pos(j)]
    OBVIOUS
  <1>1. /\ ppc # "idle" /\ \A i \in Index : Drain(i) => i = Pos(Occupied)
        /\ Copy => tail = Pos(Occupied)
    BY DEF IInv, CopyInSlot, TailAligned, Drain, Copy
  <1>2. /\ Occupied \in Nat /\ Occupied < Size
    BY <1>1, ContentsIsSeq DEF IInv, RoomKept
  <1>3. Pos(j) \in Index /\ Pos(Occupied) \in Index /\ Pos(j) # Pos(Occupied)
    BY <1>2, PosInRing, SizeAssumption DEF IInv, TypeOK
  <1> QED BY <1>1, <1>3 DEF Copy, Drain, IInv, TypeOK

\* push_index++ appends the item that was copied.
LEMMA PublishIsPut ==
    ASSUME IInv, IInv', Fenced, Publish
    PROVE  Fifo!Put
  <1>1. /\ Occupied \in Nat /\ Occupied < Size /\ Occupied' = Occupied + 1
        /\ head' = head /\ slots' = slots /\ out' = out
    BY ContentsIsSeq, SizeAssumption
    DEF Publish, consVars, IInv, TypeOK, RoomKept, Occupied
  <1>2. slots[Pos(Occupied)] = item /\ item \in Items
    <2>1. Pos(Occupied) \in Index
      BY <1>1, PosInRing, SizeAssumption DEF IInv, TypeOK
    <2> QED BY <2>1 DEF Publish, FencePassed, IInv, CopyInSlot, ItemHeld
  <1>3. /\ Contents \in Seq(Items) /\ Contents' \in Seq(Items)
        /\ Len(Contents) = Occupied /\ Len(Contents') = Occupied + 1
        /\ \A j \in 1 .. Occupied : Contents[j] = slots[Pos(j - 1)]
        /\ \A j \in 1 .. Occupied + 1 : Contents'[j] = slots[Pos(j - 1)]
    <2>1. Contents' \in Seq(Items) /\ Len(Contents') = Occupied'
      BY ContentsIsSeqNext
    <2>2. \A j \in 1 .. Occupied + 1 : Contents'[j] = slots[Pos(j - 1)]
      BY <1>1 DEF Contents, Pos
    <2> QED BY <1>1, <2>1, <2>2, ContentsIsSeq
  <1>4. Contents' = Append(Contents, item)
    <2>1. /\ Append(Contents, item) \in Seq(Items)
          /\ Len(Append(Contents, item)) = Occupied + 1
          /\ \A j \in 1 .. Occupied : Append(Contents, item)[j] = Contents[j]
          /\ Append(Contents, item)[Occupied + 1] = item
      BY <1>2, <1>3, AppendProperties
    <2>2. Contents'[Occupied + 1] = item
      <3>1. (Occupied + 1) - 1 = Occupied /\ Occupied + 1 \in 1 .. Occupied + 1
        BY <1>1
      <3> QED BY <1>2, <1>3, <3>1
    <2>3. \A j \in 1 .. Occupied + 1 : Contents'[j] = Append(Contents, item)[j]
      <3> TAKE j \in 1 .. Occupied + 1
      <3>0. j = Occupied + 1 \/ j \in 1 .. Occupied
        BY <1>1
      <3>1. CASE j = Occupied + 1
        BY <2>1, <2>2, <3>1
      <3>2. CASE j \in 1 .. Occupied
        BY <1>3, <2>1, <3>2
      <3> QED BY <3>0, <3>1, <3>2
    <2> QED BY <1>3, <2>1, <2>3, SeqEqual
  <1> QED BY <1>1, <1>2, <1>3, <1>4 DEF Fifo!Put

\* pop_index++ takes away the oldest item, and it is the one processed.
LEMMA ReleaseIsGet ==
    ASSUME IInv, IInv', Release
    PROVE  Fifo!Get
  <1>1. /\ Occupied \in Nat /\ Occupied > 0 /\ Occupied <= Size
        /\ Occupied' = Occupied - 1
        /\ slots' = slots /\ out' = seen /\ seen = slots[head]
        /\ head \in Index
        /\ head' = IF head + 1 = Size THEN 0 ELSE head + 1
    BY ContentsIsSeq, AdvanceWraps
    DEF Release, prodVars, IInv, TypeOK, NoOverrun, WorkKept, SeenIsHead,
        Occupied
  <1>2. /\ Contents \in Seq(Items) /\ Contents # << >>
        /\ Len(Contents) = Occupied
    BY <1>1, ContentsIsSeq, EmptySeq
  <1>3. Contents' \in Seq(Items) /\ Len(Contents') = Occupied - 1
    <2>1. Contents' \in Seq(Items) /\ Len(Contents') = Occupied'
      BY ContentsIsSeqNext
    <2> QED BY <1>1, <2>1
  <1>4. Head(Contents) = out'
    <2>1. Contents[1] = slots[Pos(0)] /\ Pos(0) = head
      BY <1>1, ContentsIsSeq, SizeAssumption DEF Pos, Index
    <2>2. Head(Contents) = Contents[1]
      BY <1>2
    <2> QED BY <1>1, <2>1, <2>2
  <1>5. Contents' = Tail(Contents)
    <2>1. /\ Tail(Contents) \in Seq(Items)
          /\ Len(Tail(Contents)) = Occupied - 1
          /\ \A j \in 1 .. Occupied - 1 : Tail(Contents)[j] = Contents[j + 1]
      BY <1>2, HeadTailProperties
    <2>2. \A j \in 1 .. Occupied - 1 : Contents'[j] = slots[Pos(j)]
      BY <1>1, SizeAssumption DEF Contents, Pos, Index
    <2>3. \A j \in 1 .. Occupied - 1 : Contents[j + 1] = slots[Pos(j)]
      <3> TAKE j \in 1 .. Occupied - 1
      <3>1. j + 1 \in 1 .. Occupied /\ (j + 1) - 1 = j
        BY <1>1
      <3> QED BY <3>1, ContentsIsSeq
    <2> QED BY <1>3, <2>1, <2>2, <2>3, SeqEqual
  <1> QED BY <1>2, <1>4, <1>5 DEF Fifo!Get

\* Every step of the ring is a step of the buffer or changes nothing in it.
LEMMA NextIsFifoStep ==
    ASSUME Fenced, IInv, IInv', [Next]_vars
    PROVE  [Fifo!Next]_(Fifo!fifoVars)
  <1>1. CASE Publish
    BY <1>1, PublishIsPut DEF Fifo!Next
  <1>2. CASE Release
    BY <1>2, ReleaseIsGet DEF Fifo!Next
  <1>3. CASE ~Publish /\ ~Release
    <2>1. /\ head' = head /\ push_index' = push_index /\ pop_index' = pop_index
          /\ out' = out
      BY <1>3
      DEF Next, Refuse, Accept, Copy, Drain, Poll, Process, Exit, vars,
          prodVars, consVars
    <2>2. \A j \in 0 .. Occupied - 1 : slots'[Pos(j)] = slots[Pos(j)]
      BY <1>3, StoresOutsideContents
      DEF Next, Refuse, Accept, Poll, Process, Exit, vars, prodVars, consVars
    <2> QED BY <2>1, <2>2, ContentsFrame DEF Fifo!fifoVars
  <1> QED BY <1>1, <1>2, <1>3

\* With a fence, the ring in shared memory is a bounded first-in first-out
\* buffer: nothing is lost, doubled, reordered or torn between the two
\* processes, whatever the size and however their steps interleave.
THEOREM Refinement ==
    ASSUME Fenced
    PROVE  Spec => FifoSpec
  <1>1. Init => Fifo!Init
    <2> SUFFICES ASSUME Init PROVE Fifo!Init
      OBVIOUS
    <2>1. Occupied = 0 /\ out = NoItem
      BY DEF Init, Occupied
    <2>2. Contents = << >>
      BY <2>1, InitIInv, ContentsIsSeq, EmptySeq
    <2> QED BY <2>1, <2>2 DEF Fifo!Init
  <1>2. IInv /\ IInv' /\ [Next]_vars => [Fifo!Next]_(Fifo!fifoVars)
    BY NextIsFifoStep
  <1> QED BY <1>1, <1>2, Inductive, PTL DEF Spec, FifoSpec, Fifo!Spec

\* The item a consumer works on is not touched before it is released.
THEOREM InPlaceStableAlways ==
    ASSUME Fenced
    PROVE  Spec => InPlaceStable
  <1>1. ASSUME IInv, [Next]_vars
        PROVE  [(cpc \in {"process", "release"})
                  => (slots'[head] = slots[head])]_vars
    <2> SUFFICES ASSUME cpc \in {"process", "release"}
                 PROVE  slots'[head] = slots[head]
      OBVIOUS
    <2>1. Pos(0) = head /\ 0 \in 0 .. Occupied - 1
      BY <1>1, ContentsIsSeq, SizeAssumption
      DEF IInv, TypeOK, Index, WorkKept, Pos
    <2> QED
      BY <1>1, <2>1, StoresOutsideContents
      DEF Next, Refuse, Accept, Publish, Poll, Process, Release, Exit, vars,
          prodVars, consVars
  <1> QED BY <1>1, Inductive, PTL DEF Spec, InPlaceStable

=============================================================================
