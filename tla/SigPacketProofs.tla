--------------------------- MODULE SigPacketProofs ---------------------------
(* What holds of SigPacket for any packets, chains, configurations, sizes of   *)
(* the ring and numbers of packets.                                            *)
EXTENDS SigPacket, FiniteSetTheorems, WellFoundedInduction, TLAPS

\* A packet is in hand.
Busy == {"l2", "l3", "l4", "l5", "dispatch", "hung", "dead"}

\* What TypeOK says, without the configuration and what sp_get_l5_proto finds in it.
Types ==
    /\ packet \in [Buffers -> Packets \cup {Nothing}]
    /\ tail \in 0..MaxPackets /\ head \in 1..(tail + 1)
    /\ phase \in Busy \cup {"top", "next", "stopped"}
    /\ entry \in Nat \ {0} /\ last \in 0..MaxPackets
    /\ desc \in Buffers /\ merged \in BOOLEAN
    /\ pool \in [Chains -> Buffers \cup {Nothing}]
    /\ turns \in [Buffers -> Nat] /\ given \in [Buffers -> Nat] /\ handed \in [Buffers -> Nat]
    /\ kept \in Nat

\* The batch lies in the ring, and its packets have arrived.
InBatch ==
    /\ \A b \in 1..tail : packet[b] \in Packets
    /\ phase \in Busy \cup {"next"} => entry <= last /\ last <= tail

\* Only behind the third layer is a packet a merged one, and another than the entry's.
Merging == phase \in {"top", "next", "stopped", "l2", "l3"} => ~merged /\ (phase \in Busy => desc = entry)

\* The head is not past the entry, but for a merged packet; as long as no packet was left
\* alone it is right there.
HeadAt ==
    LET moved == IF merged THEN 1 ELSE 0
    IN  phase \in Busy \cup {"next"} =>
            /\ head <= entry + moved
            /\ kept = 0 => head = entry + moved

\* A buffer waits in the chain of its packet, and so in one only.
PoolHome == \A c \in Chains : pool[c] # Nothing =>
    /\ pool[c] \in 0..tail
    /\ packet[pool[c]] \in Packets /\ packet[pool[c]].chain = c

Held(b) == IF \E c \in Chains : pool[c] = b THEN 1 ELSE 0
InHand(b) == IF phase \in Busy /\ b = desc THEN 1 ELSE 0

\* Each time a buffer's packet was begun is accounted for.
Balance == \A b \in Buffers : turns[b] = given[b] + handed[b] + Held(b) + InHand(b)

\* What was begun lies before the head, or is in hand.
Begun == kept = 0 => \A b \in Entries :
    turns[b] = IF b < head \/ (phase \in Busy /\ b = entry) THEN 1 ELSE 0

IInv == Types /\ InBatch /\ Merging /\ HeadAt /\ PoolHome /\ Balance /\ Begun

-----------------------------------------------------------------------------

\* With every buffer at home, the number of chains it waits in is one or none.
LEMMA WaitingIsHeld ==
    ASSUME Types, PoolHome, NEW b \in Buffers
    PROVE  Waiting(b) = Held(b)
<1> DEFINE S == {c \in Chains : pool[c] = b}
<1>1. b # Nothing
  BY PacketAssumption DEF Buffers
<1>2. CASE S = {}
  BY <1>2, FS_EmptySet DEF Waiting, Held
<1>3. ASSUME NEW c \in S PROVE Waiting(b) = Held(b)
  <2>1. S = {c}
    BY <1>1, <1>3 DEF PoolHome
  <2>2. Cardinality(S) = 1
    BY <2>1, FS_Singleton
  <2> QED
    BY <1>3, <2>2 DEF Waiting, Held
<1> QED
  BY <1>2, <1>3

-----------------------------------------------------------------------------

\* At first there is nothing in hand and nothing waits.
LEMMA Start == Init => IInv
<1> SUFFICES ASSUME Init PROVE IInv
  OBVIOUS
<1> USE PacketAssumption DEF Init
<1>1. Types
  <2>1. tail \in 0..MaxPackets /\ head \in 1..(tail + 1)
    OBVIOUS
  <2>2. /\ phase \in Busy \cup {"top", "next", "stopped"}
        /\ entry \in Nat \ {0} /\ last \in 0..MaxPackets /\ kept \in Nat
    OBVIOUS
  <2>3. desc \in Buffers /\ merged \in BOOLEAN
    <3>1. merged \in BOOLEAN
      BY Zenon
    <3> QED
      BY <3>1 DEF Buffers
  <2>4. packet \in [Buffers -> Packets \cup {Nothing}] /\ pool \in [Chains -> Buffers \cup {Nothing}]
    OBVIOUS
  <2>5. turns \in [Buffers -> Nat] /\ given \in [Buffers -> Nat] /\ handed \in [Buffers -> Nat]
    OBVIOUS
  <2> QED
    BY <2>1, <2>2, <2>3, <2>4, <2>5 DEF Types
<1>2. InBatch /\ Merging /\ HeadAt /\ PoolHome
  BY DEF InBatch, Merging, HeadAt, PoolHome, Busy
<1>3. Balance
  BY DEF Balance, Held, InHand, Busy, Buffers
<1>4. Begun
  BY DEF Begun, Busy, Entries, Buffers
<1> QED
  BY <1>1, <1>2, <1>3, <1>4 DEF IInv

\* A number lies before the end of its lap.
LEMMA LapEnds ==
    ASSUME NEW x \in Nat, NEW r \in Nat \ {0}
    PROVE  (x \div r + 1) * r \in Nat /\ x < (x \div r + 1) * r
<1>1. x \div r \in Nat
  OBVIOUS
<1>2. x < (x \div r) * r + r
  OBVIOUS
<1> DEFINE q == x \div r
<1>3. (q + 1) * r = q * r + r /\ q * r \in Nat
  BY <1>1
<1> QED
  BY <1>2, <1>3

\* What the peek shows lies between the head and the tail.
LEMMA AvailableIn ==
    ASSUME Types, head <= tail
    PROVE  Available \in Nat \ {0} /\ head + Available - 1 <= tail
<1> DEFINE lap == ((head - 1) \div RingSize + 1) * RingSize
<1>1. lap \in Nat /\ head - 1 < lap
  <2>1. head - 1 \in Nat /\ RingSize \in Nat \ {0}
    BY PacketAssumption DEF Types
  <2> QED
    BY <2>1, LapEnds
<1>2. Available = (IF tail < lap THEN tail ELSE lap) - head + 1
  BY DEF Available
<1> HIDE DEF lap
<1> QED
  BY <1>1, <1>2 DEF Types

-----------------------------------------------------------------------------

\* A packet in hand goes on to the next layer.
LEMMA GoesOn ==
    ASSUME IInv, NEW p \in Busy \ {"l2"}, phase \in Busy, p = "l3" => phase = "l2",
           phase' = p,
           UNCHANGED <<ringVars, entry, last, desc, merged, turns, fateVars>>
    PROVE  IInv'
<1> USE DEF IInv, ringVars, fateVars
<1>1. Types'
  BY DEF Types
<1>2. InBatch' /\ Merging' /\ HeadAt' /\ PoolHome'
  BY DEF InBatch, Merging, HeadAt, PoolHome, Busy
<1>3. Balance'
  BY DEF Balance, Held, InHand, Buffers
<1>4. Begun'
  BY DEF Begun, Entries
<1> QED
  BY <1>1, <1>2, <1>3, <1>4

\* The packet in hand is given back, and its entry consumed unless it is a merged one.
LEMMA DiscardKeeps ==
    ASSUME IInv, phase \in Busy, Discard
    PROVE  IInv'
<1> USE DEF IInv, Discard, NextEntry, Drop, ConsumeUnlessMerged, Consume, Count
<1>0. /\ UNCHANGED <<packet, tail, desc, turns, pool, handed, kept, last>>
      /\ phase' \in {"top", "next"} /\ (phase' = "next" => entry # last)
      /\ entry' = entry + 1 /\ merged' = FALSE
      /\ given' = [given EXCEPT ![desc] = @ + 1]
      /\ head' = IF merged THEN head ELSE head + 1
  OBVIOUS
<1> HIDE DEF Discard, NextEntry, Drop, ConsumeUnlessMerged, Consume, Count
<1>1. Types'
  <2>1. head' \in 1..(tail' + 1)
    BY <1>0 DEF Types, InBatch, HeadAt
  <2>2. given' \in [Buffers -> Nat]
    BY <1>0 DEF Types
  <2>3. merged' \in BOOLEAN
    BY <1>0, Zenon
  <2>4. phase' \in Busy \cup {"top", "next", "stopped"} /\ entry' \in Nat \ {0}
    BY <1>0 DEF Types
  <2> QED
    BY <1>0, <2>1, <2>2, <2>3, <2>4 DEF Types
<1>2. InBatch'
  BY <1>0 DEF Types, InBatch, Busy
<1>3. Merging'
  BY <1>0 DEF Merging, Busy
<1>4. HeadAt'
  BY <1>0 DEF Types, HeadAt, Busy
<1>5. PoolHome'
  BY <1>0 DEF PoolHome
<1>6. Balance'
  <2> SUFFICES ASSUME NEW b \in Buffers
               PROVE  turns'[b] = given'[b] + handed'[b] + Held(b)' + InHand(b)'
    BY DEF Balance, Buffers
  <2>1. Held(b)' = Held(b) /\ InHand(b)' = 0 /\ Held(b) \in Nat
    BY <1>0 DEF Held, InHand, Busy
  <2>2. turns[b] = given[b] + handed[b] + Held(b) + InHand(b)
    BY DEF Balance
  <2>3. given[b] \in Nat /\ handed[b] \in Nat
    BY DEF Types
  <2>4. CASE b = desc
    <3>1. InHand(b) = 1 /\ given'[b] = given[b] + 1
      BY <1>0, <2>4 DEF InHand, Types
    <3> QED
      BY <1>0, <2>1, <2>2, <2>3, <3>1
  <2>5. CASE b # desc
    <3>1. InHand(b) = 0 /\ given'[b] = given[b]
      BY <1>0, <2>5 DEF InHand, Types
    <3> QED
      BY <1>0, <2>1, <2>2, <2>3, <3>1
  <2> QED
    BY <2>4, <2>5
<1>7. Begun'
  BY <1>0 DEF Begun, HeadAt, Types, Busy, Entries
<1> QED
  BY <1>1, <1>2, <1>3, <1>4, <1>5, <1>6, <1>7

\* A fragment waits in its chain; the entry is consumed.
LEMMA CacheKeeps ==
    ASSUME IInv, CacheFragment
    PROVE  IInv'
<1> DEFINE home == packet[entry].chain
<1> USE DEF IInv
<1>0. /\ UNCHANGED <<packet, tail, desc, turns, given, handed, kept, last>>
      /\ phase = "l3" /\ pool[home] = Nothing
      /\ phase' \in {"top", "next"} /\ (phase' = "next" => entry # last)
      /\ entry' = entry + 1 /\ merged' = FALSE
      /\ pool' = [pool EXCEPT ![home] = entry]
      /\ head' = head + 1
  BY DEF CacheFragment, NextEntry, Consume, InL3, InUse, Here
<1>1. entry \in 1..tail /\ packet[entry] \in Packets /\ home \in Chains /\ desc = entry /\ ~merged
  <2>1. entry \in 1..tail /\ packet[entry] \in Packets /\ desc = entry /\ ~merged
    BY <1>0 DEF Types, InBatch, Merging, Busy
  <2> QED
    BY <2>1, PacketAssumption DEF Packet
<1>2. \A c \in Chains : pool[c] # entry
  <2> SUFFICES ASSUME NEW c \in Chains, pool[c] = entry PROVE FALSE
    OBVIOUS
  <2>1. pool[c] # Nothing
    BY <1>1, PacketAssumption
  <2> QED
    BY <1>0, <2>1 DEF PoolHome
<1> HIDE DEF home
<1>3. Types'
  <2>1. head' \in 1..(tail' + 1)
    BY <1>0, <1>1 DEF Types, HeadAt, Busy
  <2>2. pool' \in [Chains -> Buffers \cup {Nothing}]
    BY <1>0, <1>1 DEF Types, Buffers
  <2>3. merged' \in BOOLEAN
    BY <1>0, Zenon
  <2>4. phase' \in Busy \cup {"top", "next", "stopped"} /\ entry' \in Nat \ {0}
    BY <1>0 DEF Types
  <2> QED
    BY <1>0, <2>1, <2>2, <2>3, <2>4 DEF Types
<1>4. InBatch'
  BY <1>0 DEF Types, InBatch, Busy
<1>5. Merging'
  BY <1>0 DEF Merging, Busy
<1>6. HeadAt'
  BY <1>0, <1>1 DEF Types, HeadAt, Busy
<1>7. PoolHome'
  <2> SUFFICES ASSUME NEW c \in Chains, pool'[c] # Nothing
               PROVE  /\ pool'[c] \in 0..tail
                      /\ packet[pool'[c]] \in Packets /\ packet[pool'[c]].chain = c
    BY <1>0 DEF PoolHome
  <2>1. CASE c = home
    BY <1>0, <1>1, <2>1 DEF Types, home
  <2>2. CASE c # home
    BY <1>0, <2>2 DEF Types, PoolHome
  <2> QED
    BY <2>1, <2>2
<1>8. Balance'
  <2> SUFFICES ASSUME NEW b \in Buffers
               PROVE  turns'[b] = given'[b] + handed'[b] + Held(b)' + InHand(b)'
    BY DEF Balance, Buffers
  <2>1. InHand(b)' = 0
    BY <1>0 DEF InHand, Busy
  <2>2. turns[b] = given[b] + handed[b] + Held(b) + InHand(b)
    BY DEF Balance
  <2>3. given[b] \in Nat /\ handed[b] \in Nat
    BY DEF Types
  <2>4. CASE b = entry
    <3>1. InHand(b) = 1 /\ Held(b) = 0
      BY <1>0, <1>1, <1>2, <2>4 DEF InHand, Held, Busy
    <3>2. Held(b)' = 1
      BY <1>0, <1>1, <2>4 DEF Held, Types
    <3> QED
      BY <1>0, <2>1, <2>2, <2>3, <3>1, <3>2
  <2>5. CASE b # entry
    <3>1. InHand(b) = 0
      BY <1>1, <2>5 DEF InHand
    <3>2. b # Nothing
      BY PacketAssumption DEF Buffers
    <3>3. \A c \in Chains : pool'[c] = b <=> pool[c] = b
      BY <1>0, <1>1, <2>5, <3>2 DEF Types
    <3>4. Held(b)' = Held(b)
      BY <3>3 DEF Held
    <3> QED
      BY <1>0, <2>1, <2>2, <2>3, <3>1, <3>4
  <2> QED
    BY <2>4, <2>5
<1>9. Begun'
  BY <1>0, <1>1 DEF Begun, HeadAt, Types, Busy, Entries
<1> QED
  BY <1>3, <1>4, <1>5, <1>6, <1>7, <1>8, <1>9

\* The half in hand is given back and consumed, and the one that waited is in hand.
LEMMA MergeKeeps ==
    ASSUME IInv, MergeIntoCached
    PROVE  IInv'
<1> DEFINE home == packet[entry].chain
           other == pool[home]
<1> USE DEF IInv
<1>0. /\ UNCHANGED <<packet, tail, entry, last, turns, handed, kept>>
      /\ phase = "l3" /\ phase' = "l4" /\ other # Nothing
      /\ desc' = other /\ merged' = TRUE
      /\ pool' = [pool EXCEPT ![home] = Nothing]
      /\ given' = [given EXCEPT ![entry] = @ + 1]
      /\ head' = head + 1
  BY DEF MergeIntoCached, DoneWith, Drop, Consume, Count, InL3, InUse, Here
<1>1. entry \in 1..tail /\ home \in Chains /\ desc = entry /\ ~merged
  <2>1. entry \in 1..tail /\ packet[entry] \in Packets /\ desc = entry /\ ~merged
    BY <1>0 DEF Types, InBatch, Merging, Busy
  <2> QED
    BY <2>1, PacketAssumption DEF Packet
<1>2. other \in 0..tail /\ other \in Buffers /\ entry \in Buffers
  BY <1>0, <1>1 DEF PoolHome, Types, Buffers
<1>3. \A c \in Chains : pool[c] = other => c = home
  BY <1>0, <1>1 DEF PoolHome
<1> HIDE DEF home
<1>4. Types'
  <2>1. head' \in 1..(tail' + 1)
    BY <1>0, <1>1 DEF Types, HeadAt, Busy
  <2>2. pool' \in [Chains -> Buffers \cup {Nothing}] /\ given' \in [Buffers -> Nat]
    BY <1>0, <1>1 DEF Types
  <2>3. merged' \in BOOLEAN
    BY <1>0, Zenon
  <2>4. phase' \in Busy \cup {"top", "next", "stopped"} /\ desc' \in Buffers
    BY <1>0, <1>2 DEF Busy
  <2> QED
    BY <1>0, <2>1, <2>2, <2>3, <2>4 DEF Types
<1>5. InBatch'
  BY <1>0 DEF Types, InBatch, Busy
<1>6. Merging'
  BY <1>0 DEF Merging, Busy
<1>7. HeadAt'
  BY <1>0, <1>1 DEF Types, HeadAt, Busy
<1>8. PoolHome'
  BY <1>0, <1>1 DEF Types, PoolHome
<1>9. Balance'
  <2> SUFFICES ASSUME NEW b \in Buffers
               PROVE  turns'[b] = given'[b] + handed'[b] + Held(b)' + InHand(b)'
    BY DEF Balance, Buffers
  <2>1. turns[b] = given[b] + handed[b] + Held(b) + InHand(b)
    BY DEF Balance
  <2>2. given[b] \in Nat /\ handed[b] \in Nat
    BY DEF Types
  <2>3. given'[b] = given[b] + InHand(b) /\ InHand(b) \in 0..1
    BY <1>0, <1>1 DEF InHand, Busy, Types
  <2>4. Held(b)' + InHand(b)' = Held(b) /\ Held(b) \in 0..1
    <3>1. CASE b = other
      <4>1. Held(b) = 1 /\ InHand(b)' = 1
        BY <1>0, <1>1, <3>1 DEF Held, InHand, Busy
      <4>2. \A c \in Chains : pool'[c] # b
        BY <1>0, <1>1, <1>3, <3>1 DEF Types
      <4>3. Held(b)' = 0
        BY <4>2 DEF Held
      <4> QED
        BY <4>1, <4>3
    <3>2. CASE b # other
      <4>1. InHand(b)' = 0
        BY <1>0, <3>2 DEF InHand
      <4>2. b # Nothing
        BY PacketAssumption DEF Buffers
      <4>3. \A c \in Chains : pool'[c] = b <=> pool[c] = b
        BY <1>0, <1>1, <3>2, <4>2 DEF Types
      <4>4. Held(b)' = Held(b) /\ Held(b) \in 0..1
        BY <4>3 DEF Held
      <4> QED
        BY <4>1, <4>4
    <3> QED
      BY <3>1, <3>2
  <2>5. turns'[b] = turns[b] /\ handed'[b] = handed[b]
    BY <1>0
  <2>6. Held(b)' \in 0..1 /\ InHand(b)' \in 0..1
    BY DEF Held, InHand
  <2> QED
    BY <2>1, <2>2, <2>3, <2>4, <2>5, <2>6
<1>10. Begun'
  BY <1>0, <1>1 DEF Begun, HeadAt, Types, Busy, Entries
<1> QED
  BY <1>4, <1>5, <1>6, <1>7, <1>8, <1>9, <1>10

\* A packet that is left alone: its buffer is somebody else's, and the head stays.
LEMMA KeepKeeps ==
    ASSUME IInv, KeepPacket
    PROVE  IInv'
<1> USE DEF IInv
<1>0. /\ UNCHANGED <<packet, tail, head, desc, turns, pool, given, last>>
      /\ phase = "dispatch"
      /\ phase' \in {"top", "next"} /\ (phase' = "next" => entry # last)
      /\ entry' = entry + 1 /\ merged' = FALSE
      /\ handed' = [handed EXCEPT ![desc] = @ + 1]
      /\ kept' = IF merged THEN kept ELSE kept + 1
  BY DEF KeepPacket, NextEntry, Count, ringVars
<1>1. Types'
  <2>1. handed' \in [Buffers -> Nat] /\ kept' \in Nat
    BY <1>0 DEF Types
  <2>2. merged' \in BOOLEAN
    BY <1>0, Zenon
  <2>3. phase' \in Busy \cup {"top", "next", "stopped"} /\ entry' \in Nat \ {0}
    BY <1>0 DEF Types
  <2> QED
    BY <1>0, <2>1, <2>2, <2>3 DEF Types
<1>2. InBatch'
  BY <1>0 DEF Types, InBatch, Busy
<1>3. Merging'
  BY <1>0 DEF Merging, Busy
<1>4. HeadAt'
  BY <1>0 DEF Types, HeadAt, Busy
<1>5. PoolHome'
  BY <1>0 DEF PoolHome
<1>6. Balance'
  <2> SUFFICES ASSUME NEW b \in Buffers
               PROVE  turns'[b] = given'[b] + handed'[b] + Held(b)' + InHand(b)'
    BY DEF Balance, Buffers
  <2>1. Held(b)' = Held(b) /\ InHand(b)' = 0 /\ Held(b) \in Nat
    BY <1>0 DEF Held, InHand, Busy
  <2>2. turns[b] = given[b] + handed[b] + Held(b) + InHand(b)
    BY DEF Balance
  <2>3. given[b] \in Nat /\ handed[b] \in Nat
    BY DEF Types
  <2>4. handed'[b] = handed[b] + InHand(b) /\ InHand(b) \in 0..1
    BY <1>0 DEF InHand, Busy, Types
  <2> QED
    BY <1>0, <2>1, <2>2, <2>3, <2>4
<1>7. Begun'
  BY <1>0 DEF Begun, HeadAt, Types, Busy, Entries
<1> QED
  BY <1>1, <1>2, <1>3, <1>4, <1>5, <1>6, <1>7

\* The next descriptor is taken in hand, or given back at once.
LEMMA BeginKeeps ==
    ASSUME IInv, Begin
    PROVE  IInv'
<1> USE DEF IInv
<1>1. /\ UNCHANGED <<packet, tail, pool, handed, kept, last>>
      /\ phase = "next" /\ desc' = entry
      /\ turns' = [turns EXCEPT ![entry] = @ + 1]
  BY DEF Begin, NextEntry, Count
<1>2. \/ /\ phase' \in {"top", "next"} /\ (phase' = "next" => entry # last)
         /\ entry' = entry + 1 /\ merged' = FALSE /\ head' = head + 1
         /\ given' = [given EXCEPT ![entry] = @ + 1]
      \/ phase' = "l2" /\ UNCHANGED <<head, given, entry, merged>>
  BY DEF Begin, NextEntry, Count, DoneWith, Drop, Consume
<1>3. entry \in 1..tail /\ entry \in Buffers /\ ~merged /\ head <= entry
  <2>1. entry \in 1..tail /\ ~merged
    BY <1>1 DEF Types, InBatch, Merging
  <2>2. head <= entry
    BY <1>1, <2>1 DEF HeadAt, Types
  <2>3. entry \in Buffers
    BY <2>1, PacketAssumption DEF Buffers, Types
  <2> QED
    BY <2>1, <2>2, <2>3
<1>4. Types'
  <2>1. head' \in 1..(tail' + 1) /\ entry' \in Nat \ {0}
    <3>1. head' \in {head, head + 1} /\ entry' \in {entry, entry + 1}
      BY <1>2
    <3>2. tail' = tail /\ head <= entry /\ entry <= tail
      BY <1>1, <1>3
    <3>3. head \in Nat \ {0} /\ entry \in Nat \ {0} /\ tail \in Nat
      BY DEF Types
    <3>4. head' \in Nat \ {0} /\ head' <= tail + 1 /\ entry' \in Nat \ {0}
      BY <3>1, <3>2, <3>3
    <3>5. head' \in 1..(tail' + 1)
      BY <3>2, <3>3, <3>4
    <3> QED
      BY <3>4, <3>5
  <2>2. given' \in [Buffers -> Nat] /\ turns' \in [Buffers -> Nat]
    <3>1. turns' \in [Buffers -> Nat]
      BY <1>1, <1>3 DEF Types
    <3>2. given' = given \/ given' = [given EXCEPT ![entry] = @ + 1]
      BY <1>2
    <3> QED
      BY <1>3, <3>1, <3>2 DEF Types
  <2>3. merged' \in BOOLEAN
    <3>1. merged' = FALSE \/ merged' = merged
      BY <1>2, Zenon
    <3> QED
      BY <3>1, Zenon DEF Types
  <2>4. phase' \in Busy \cup {"top", "next", "stopped"} /\ desc' \in Buffers
    BY <1>1, <1>2, <1>3 DEF Busy
  <2> QED
    BY <1>1, <2>1, <2>2, <2>3, <2>4 DEF Types
<1>5. InBatch'
  BY <1>1, <1>2 DEF Types, InBatch, Busy
<1>6. Merging'
  BY <1>1, <1>2, <1>3 DEF Merging, Busy
<1>7. HeadAt'
  BY <1>1, <1>2, <1>3 DEF Types, HeadAt, Busy
<1>8. PoolHome'
  BY <1>1 DEF PoolHome
<1>9. Balance'
  <2> SUFFICES ASSUME NEW b \in Buffers
               PROVE  turns'[b] = given'[b] + handed'[b] + Held(b)' + InHand(b)'
    BY DEF Balance, Buffers
  <2>1. Held(b)' = Held(b) /\ Held(b) \in Nat /\ InHand(b) = 0
    BY <1>1 DEF Held, InHand, Busy
  <2>2. turns[b] = given[b] + handed[b] + Held(b) + InHand(b)
    BY DEF Balance
  <2>3. given[b] \in Nat /\ handed[b] \in Nat
    BY DEF Types
  <2>4. turns'[b] = turns[b] + (IF b = entry THEN 1 ELSE 0)
    BY <1>1 DEF Types
  <2>5. given'[b] + InHand(b)' = given[b] + (IF b = entry THEN 1 ELSE 0)
    BY <1>1, <1>2, <2>3 DEF Types, InHand, Busy
  <2>6. given'[b] \in Nat /\ InHand(b)' \in Nat /\ handed'[b] = handed[b]
    BY <1>1, <1>4 DEF Types, InHand
  <2> QED
    BY <2>1, <2>2, <2>3, <2>4, <2>5, <2>6
<1>10. Begun'
  BY <1>1, <1>2, <1>3 DEF Begun, HeadAt, Types, Busy, Entries
<1> QED
  BY <1>4, <1>5, <1>6, <1>7, <1>8, <1>9, <1>10

\* A batch is peeked, and the timeout empties some chains.
LEMMA PeekKeeps ==
    ASSUME IInv, Peek
    PROVE  IInv'
<1> USE DEF IInv
<1>1. PICK old \in SUBSET {c \in Chains : pool[c] # Nothing} :
        /\ pool' = [c \in Chains |-> IF c \in old THEN Nothing ELSE pool[c]]
        /\ given' = [b \in Buffers |-> given[b] + (IF b \in {pool[c] : c \in old} THEN 1 ELSE 0)]
  BY DEF Peek
<1>2. /\ UNCHANGED <<packet, tail, head, desc, merged, turns, handed, kept>>
      /\ phase = "top" /\ phase' = "next" /\ entry' = head /\ head <= tail
      /\ last' = head + Available - 1
  BY DEF Peek, ringVars
<1>3. Available \in Nat \ {0} /\ head + Available - 1 <= tail
  BY <1>2, AvailableIn
<1>4. ~merged
  BY <1>2 DEF Merging
<1>5. Types'
  <2>1. last' \in 0..MaxPackets /\ entry' \in Nat \ {0}
    BY <1>2, <1>3, PacketAssumption DEF Types
  <2>2. pool' \in [Chains -> Buffers \cup {Nothing}] /\ given' \in [Buffers -> Nat]
    BY <1>1 DEF Types
  <2>3. phase' \in Busy \cup {"top", "next", "stopped"}
    BY <1>2
  <2> QED
    BY <1>2, <2>1, <2>2, <2>3 DEF Types
<1>6. InBatch'
  BY <1>2, <1>3 DEF Types, InBatch, Busy
<1>7. Merging'
  BY <1>2, <1>4 DEF Merging, Busy
<1>8. HeadAt'
  BY <1>2, <1>4 DEF Types, HeadAt, Busy
<1>9. PoolHome'
  BY <1>1, <1>2 DEF PoolHome
<1>10. Balance'
  <2> SUFFICES ASSUME NEW b \in Buffers
               PROVE  turns'[b] = given'[b] + handed'[b] + Held(b)' + InHand(b)'
    BY DEF Balance, Buffers
  <2>1. InHand(b)' = 0 /\ InHand(b) = 0
    BY <1>2 DEF InHand, Busy
  <2>2. turns[b] = given[b] + handed[b] + Held(b) + InHand(b)
    BY DEF Balance
  <2>3. given[b] \in Nat /\ handed[b] \in Nat
    BY DEF Types
  <2>4. b # Nothing
    BY PacketAssumption DEF Buffers
  <2>5. CASE \E c \in old : pool[c] = b
    <3>1. PICK c \in old : pool[c] = b
      BY <2>5
    <3>2. Held(b) = 1 /\ given'[b] = given[b] + 1
      BY <1>1, <3>1 DEF Held
    <3>3. \A d \in Chains : pool[d] = b => d = c
      BY <1>1, <2>4, <3>1 DEF PoolHome
    <3>4. \A d \in Chains : pool'[d] # b
      BY <1>1, <2>4, <3>1, <3>3
    <3>5. Held(b)' = 0
      BY <3>4 DEF Held
    <3> QED
      BY <1>2, <2>1, <2>2, <2>3, <3>2, <3>5
  <2>6. CASE ~\E c \in old : pool[c] = b
    <3>1. given'[b] = given[b]
      BY <1>1, <2>3, <2>6
    <3>2. \A c \in Chains : pool'[c] = b <=> pool[c] = b
      BY <1>1, <2>4, <2>6
    <3>3. Held(b)' = Held(b)
      BY <3>2 DEF Held
    <3> QED
      BY <1>2, <2>1, <2>2, <2>3, <3>1, <3>3
  <2> QED
    BY <2>5, <2>6
<1>11. Begun'
  BY <1>2 DEF Begun, Busy, Entries
<1> QED
  BY <1>5, <1>6, <1>7, <1>8, <1>9, <1>10, <1>11

\* What arrives lies behind all that is known.
LEMMA ArriveKeeps ==
    ASSUME IInv, NEW p \in Packets, Arrive(p)
    PROVE  IInv'
<1> USE DEF IInv
<1>0. /\ UNCHANGED <<head, phase, entry, last, desc, merged, turns, pool, given, handed, kept>>
      /\ tail < MaxPackets /\ tail' = tail + 1
      /\ packet' = [packet EXCEPT ![tail + 1] = p]
  BY DEF Arrive, loopVars, fateVars
<1>1. tail \in Nat /\ tail + 1 \in Buffers /\ MaxPackets \in Nat
  BY <1>0, PacketAssumption DEF Types, Buffers
<1>2. Types'
  BY <1>0, <1>1 DEF Types
<1>3. InBatch'
  BY <1>0, <1>1 DEF Types, InBatch, Buffers
<1>4. Merging' /\ HeadAt' /\ Begun'
  BY <1>0 DEF Merging, HeadAt, Begun
<1>5. PoolHome'
  <2> SUFFICES ASSUME NEW c \in Chains, pool[c] # Nothing
               PROVE  /\ pool[c] \in 0..(tail + 1)
                      /\ packet'[pool[c]] \in Packets /\ packet'[pool[c]].chain = c
    BY <1>0 DEF PoolHome
  <2>1. pool[c] \in 0..tail /\ packet[pool[c]] \in Packets /\ packet[pool[c]].chain = c
    BY DEF PoolHome
  <2>2. packet'[pool[c]] = packet[pool[c]]
    BY <1>0, <1>1, <2>1 DEF Types, Buffers
  <2> QED
    BY <1>1, <2>1, <2>2
<1>6. Balance'
  BY <1>0 DEF Balance, Held, InHand
<1> QED
  BY <1>2, <1>3, <1>4, <1>5, <1>6

\* Another parser's fragment comes into a chain that was empty.
LEMMA OthersPutKeeps ==
    ASSUME IInv, NEW p \in Packets, OthersPut(p)
    PROVE  IInv'
<1> USE DEF IInv
<1>0. /\ UNCHANGED <<tail, head, phase, entry, last, desc, merged, given, handed, kept>>
      /\ packet[0] = Nothing /\ pool[p.chain] = Nothing
      /\ packet' = [packet EXCEPT ![0] = p]
      /\ pool' = [pool EXCEPT ![p.chain] = 0]
      /\ turns' = [turns EXCEPT ![0] = @ + 1]
  BY DEF OthersPut, loopVars, Count
<1>1. p.chain \in Chains /\ 0 \in Buffers /\ 0 # Nothing
  BY PacketAssumption DEF Packet, Buffers
<1>2. \A c \in Chains : pool[c] # 0
  BY <1>0, <1>1, PacketAssumption DEF PoolHome
<1>3. Types'
  BY <1>0, <1>1 DEF Types
<1>4. InBatch'
  BY <1>0, <1>1 DEF Types, InBatch
<1>5. Merging' /\ HeadAt'
  BY <1>0 DEF Merging, HeadAt
<1>6. PoolHome'
  <2> SUFFICES ASSUME NEW c \in Chains, pool'[c] # Nothing
               PROVE  /\ pool'[c] \in 0..tail
                      /\ packet'[pool'[c]] \in Packets /\ packet'[pool'[c]].chain = c
    BY <1>0 DEF PoolHome
  <2>1. CASE c = p.chain
    BY <1>0, <1>1, <2>1 DEF Types
  <2>2. CASE c # p.chain
    <3>1. pool'[c] = pool[c]
      BY <1>0, <2>2 DEF Types
    <3>2. pool[c] \in 0..tail /\ packet[pool[c]] \in Packets /\ packet[pool[c]].chain = c
      BY <3>1 DEF PoolHome
    <3>3. packet'[pool[c]] = packet[pool[c]]
      BY <1>0, <1>2 DEF Types
    <3> QED
      BY <3>1, <3>2, <3>3
  <2> QED
    BY <2>1, <2>2
<1>7. Balance'
  <2> SUFFICES ASSUME NEW b \in Buffers
               PROVE  turns'[b] = given'[b] + handed'[b] + Held(b)' + InHand(b)'
    BY DEF Balance, Buffers
  <2>1. InHand(b)' = InHand(b) /\ InHand(b) \in Nat
    BY <1>0 DEF InHand
  <2>2. turns[b] = given[b] + handed[b] + Held(b) + InHand(b)
    BY DEF Balance
  <2>3. given[b] \in Nat /\ handed[b] \in Nat
    BY DEF Types
  <2>4. CASE b = 0
    <3>1. Held(b) = 0
      BY <1>2, <2>4 DEF Held
    <3>2. Held(b)' = 1 /\ turns'[b] = turns[b] + 1
      BY <1>0, <1>1, <2>4 DEF Held, Types
    <3> QED
      BY <1>0, <2>1, <2>2, <2>3, <3>1, <3>2
  <2>5. CASE b # 0
    <3>1. b # Nothing
      BY PacketAssumption DEF Buffers
    <3>2. \A c \in Chains : pool'[c] = b <=> pool[c] = b
      BY <1>0, <2>5, <3>1 DEF Types
    <3>3. Held(b)' = Held(b) /\ turns'[b] = turns[b]
      BY <1>0, <2>5, <3>2 DEF Held, Types
    <3> QED
      BY <1>0, <2>1, <2>2, <2>3, <3>3
  <2> QED
    BY <2>4, <2>5
<1>8. Begun'
  BY <1>0 DEF Begun, Types, Entries
<1> QED
  BY <1>3, <1>4, <1>5, <1>6, <1>7, <1>8

\* Another parser takes over what waits in a chain.
LEMMA OthersTakeKeeps ==
    ASSUME IInv, NEW c \in Chains, OthersTake(c)
    PROVE  IInv'
<1> USE DEF IInv
<1>0. /\ UNCHANGED <<packet, tail, head, phase, entry, last, desc, merged, turns, given, kept>>
      /\ pool[c] # Nothing
      /\ pool' = [pool EXCEPT ![c] = Nothing]
      /\ handed' = [handed EXCEPT ![pool[c]] = @ + 1]
  BY DEF OthersTake, ringVars, loopVars, Count
<1>1. pool[c] \in Buffers
  BY <1>0 DEF Types
<1>2. Types'
  BY <1>0, <1>1 DEF Types
<1>3. InBatch' /\ Merging' /\ HeadAt' /\ Begun'
  BY <1>0 DEF InBatch, Merging, HeadAt, Begun
<1>4. PoolHome'
  BY <1>0 DEF PoolHome, Types
<1>5. Balance'
  <2> SUFFICES ASSUME NEW b \in Buffers
               PROVE  turns'[b] = given'[b] + handed'[b] + Held(b)' + InHand(b)'
    BY DEF Balance, Buffers
  <2>1. InHand(b)' = InHand(b) /\ InHand(b) \in Nat
    BY <1>0 DEF InHand
  <2>2. turns[b] = given[b] + handed[b] + Held(b) + InHand(b)
    BY DEF Balance
  <2>3. given[b] \in Nat /\ handed[b] \in Nat
    BY DEF Types
  <2>4. CASE b = pool[c]
    <3>1. Held(b) = 1 /\ handed'[b] = handed[b] + 1
      BY <1>0, <2>4 DEF Held, Types
    <3>2. \A d \in Chains : pool[d] = b => d = c
      BY <1>0, <2>4 DEF PoolHome
    <3>3. \A d \in Chains : pool'[d] # b
      BY <1>0, <2>4, <3>2 DEF Types
    <3>4. Held(b)' = 0
      BY <3>3 DEF Held
    <3> QED
      BY <1>0, <2>1, <2>2, <2>3, <3>1, <3>4
  <2>5. CASE b # pool[c]
    <3>1. b # Nothing
      BY PacketAssumption DEF Buffers
    <3>2. \A d \in Chains : pool'[d] = b <=> pool[d] = b
      BY <1>0, <2>5, <3>1 DEF Types
    <3>3. Held(b)' = Held(b) /\ handed'[b] = handed[b]
      BY <1>0, <2>5, <3>2 DEF Held, Types
    <3> QED
      BY <1>0, <2>1, <2>2, <2>3, <3>3
  <2> QED
    BY <2>4, <2>5
<1> QED
  BY <1>2, <1>3, <1>4, <1>5

-----------------------------------------------------------------------------

\* Every step of the system keeps the invariant.
LEMMA StepKeeps ==
    ASSUME IInv, [Next]_vars
    PROVE  IInv'
<1>1. CASE Peek
  BY <1>1, PeekKeeps
<1>2. CASE Begin
  BY <1>2, BeginKeeps
<1>3. CASE process_l2_layer
  <2>1. phase = "l2"
    BY <1>3 DEF process_l2_layer
  <2>2. CASE Discard
    BY <2>1, <2>2, DiscardKeeps DEF Busy
  <2>3. CASE Goto("l3")
    BY <2>1, <2>3, GoesOn DEF Busy, Goto
  <2> QED
    BY <1>3, <2>2, <2>3 DEF process_l2_layer
<1>4. CASE BadIpHeader \/ NoNode \/ DiscardAtLast
  <2>1. phase \in Busy /\ Discard
    BY <1>4 DEF BadIpHeader, NoNode, DiscardAtLast, InL3, Busy
  <2> QED
    BY <2>1, DiscardKeeps
<1>5. CASE WholeDatagram \/ LookupHangs \/ MergeIntoThis
  <2>1. phase \in Busy /\ \E p \in {"l4", "hung", "dead"} : Goto(p)
    BY <1>5 DEF WholeDatagram, LookupHangs, MergeIntoThis, InL3, Busy
  <2> QED
    BY <2>1, GoesOn DEF Busy, Goto
<1>6. CASE CacheFragment
  BY <1>6, CacheKeeps
<1>7. CASE MergeIntoCached
  BY <1>7, MergeKeeps
<1>8. CASE LayerFour
  <2>1. phase = "l4"
    BY <1>8 DEF LayerFour
  <2>2. CASE Discard
    BY <2>1, <2>2, DiscardKeeps DEF Busy
  <2>3. CASE Goto("l5")
    BY <2>1, <2>3, GoesOn DEF Busy, Goto
  <2> QED
    BY <1>8, <2>2, <2>3 DEF LayerFour
<1>9. CASE sp_get_l5_proto
  <2>1. /\ phase = "l5" /\ phase' = "dispatch"
        /\ UNCHANGED <<ringVars, entry, last, desc, merged, turns, fateVars>>
    BY <1>9 DEF sp_get_l5_proto
  <2> QED
    BY <2>1, GoesOn DEF Busy
<1>10. CASE KeepPacket
  BY <1>10, KeepKeeps
<1>11. CASE Stop
  <2>1. /\ phase = "top" /\ phase' = "stopped"
        /\ UNCHANGED <<packet, tail, head, entry, last, desc, merged, turns, pool, given, handed, kept>>
    BY <1>11 DEF Stop, Goto, ringVars, fateVars
  <2> USE DEF IInv
  <2>2. Types'
    BY <2>1 DEF Types
  <2>3. InBatch' /\ Merging' /\ HeadAt' /\ PoolHome' /\ Begun'
    BY <2>1 DEF InBatch, Merging, HeadAt, PoolHome, Begun, Busy
  <2>4. Balance'
    BY <2>1 DEF Balance, Held, InHand, Busy
  <2> QED
    BY <2>2, <2>3, <2>4
<1>12. ASSUME NEW p \in Packets, Arrive(p) PROVE IInv'
  BY <1>12, ArriveKeeps
<1>13. ASSUME NEW p \in Packets, OthersPut(p) PROVE IInv'
  BY <1>13, OthersPutKeeps
<1>14. ASSUME NEW c \in Chains, OthersTake(c) PROVE IInv'
  BY <1>14, OthersTakeKeeps
<1>15. CASE UNCHANGED vars
  BY <1>15 DEF vars, ringVars, loopVars, fateVars, IInv, Types, InBatch, Merging, HeadAt, PoolHome,
               Balance, Held, InHand, Begun
<1> QED
  BY <1>1, <1>2, <1>3, <1>4, <1>5, <1>6, <1>7, <1>8, <1>9, <1>10, <1>11, <1>12, <1>13, <1>14,
     <1>15 DEF Next, Step, Others

\* The strengthening of Disposed and InStep holds in every reachable state: the account of
\* each buffer also while its packet is in hand.
THEOREM Inductive == Spec => []IInv
<1>1. Init => IInv
  BY Start
<1>2. IInv /\ [Next]_vars => IInv'
  BY StepKeeps
<1> QED
  BY <1>1, <1>2, PTL DEF Spec

\* However many packets come, in whatever order, and whatever the other parsers do with the
\* chains: each time a packet was processed its buffer was given back, left to somebody else
\* or put into the pool, and only one of these (sp_process_packet_mpipe).
THEOREM DisposedAlways == Spec => []Disposed
<1>1. IInv => Disposed
  <2> SUFFICES ASSUME IInv, AtRest, NEW b \in Buffers
               PROVE  turns[b] = given[b] + handed[b] + Waiting(b)
    BY DEF Disposed
  <2>1. Waiting(b) = Held(b)
    BY WaitingIsHeld DEF IInv
  <2>2. InHand(b) = 0
    BY DEF AtRest, InHand, Busy
  <2>3. given[b] \in Nat /\ handed[b] \in Nat /\ Held(b) \in Nat
    BY DEF IInv, Types, Held
  <2>4. turns[b] = given[b] + handed[b] + Held(b) + InHand(b)
    BY DEF IInv, Balance
  <2> QED
    BY <2>1, <2>2, <2>3, <2>4
<1> QED
  BY <1>1, Inductive, PTL

\* As long as no packet was left alone, the head separates what was processed once from what
\* was not yet, for every size of the ring (the one consume of each packet).
THEOREM InStepAlways == Spec => []InStep
<1>1. IInv => InStep
  BY DEF IInv, Begun, InStep, AtRest, Busy
<1> QED
  BY <1>1, Inductive, PTL

\* The head never passes the tail, although every path moves it by a call of its own and
\* moves it by one whatever descriptor it names.
THEOREM HeadBehindTail == Spec => [](head <= tail + 1)
<1>1. IInv => head <= tail + 1
  BY DEF IInv, Types
<1> QED
  BY <1>1, Inductive, PTL

-----------------------------------------------------------------------------
(* The table of addresses (read_ips_config, in_read_ip, sp_get_l5_proto).      *)

\* There is a least number in every set of numbers.
LEMMA LeastNumber ==
    ASSUME NEW T \in SUBSET Nat, T # {}
    PROVE  \E m \in T : \A n \in T : m <= n
  <1>1. PICK m \in T : \A n \in T : ~ (<<n, m>> \in OpToRel(<, Nat))
    BY NatLessThanWellFounded, WFMin
  <1>2. \A n \in T : ~ (n < m)
    BY <1>1 DEF OpToRel
  <1> QED
    BY <1>2

Nodes == [ip : Nat, proto_id : Interfaces]
Tables == [0..(LinkNum - 1) -> Seq(Nodes)]
FileSets == [Interfaces -> Seq(Lines)]

\* A number that fails has a first one before it that does.
LEMMA Induct ==
    ASSUME NEW N \in Nat, NEW S, 0 \in S, \A k \in 1..N : k - 1 \in S => k \in S
    PROVE  0..N \subseteq S
<1> DEFINE T == {n \in 0..N : n \notin S}
<1>1. SUFFICES ASSUME T # {} PROVE FALSE
  OBVIOUS
<1>2. PICK m \in T : \A n \in T : m <= n
  <2>1. T \in SUBSET Nat
    OBVIOUS
  <2> HIDE DEF T
  <2> QED
    BY <1>1, <2>1, LeastNumber
<1>3. m \in 1..N /\ m - 1 \in 0..N /\ ~(m <= m - 1)
  BY <1>2
<1> QED
  BY <1>2, <1>3

\* Two functions that begin alike and go on alike are alike.
LEMMA Agree ==
    ASSUME NEW N \in Nat, NEW g, NEW h, g[0] = h[0],
           \A k \in 1..N : g[k - 1] = h[k - 1] => g[k] = h[k]
    PROVE  \A k \in 0..N : g[k] = h[k]
<1> DEFINE S == {k \in 0..N : g[k] = h[k]}
<1>1. 0 \in S /\ \A k \in 1..N : k - 1 \in S => k \in S
  OBVIOUS
<1> HIDE DEF S
<1>2. 0..N \subseteq S
  BY <1>1, Induct
<1> QED
  BY <1>2 DEF S

\* The function that F makes of "start" by n steps.
Repeated(g, n, F, start) ==
    /\ g = [k \in 0..n |-> g[k]]
    /\ g[0] = start /\ \A k \in 1..n : g[k] = F[<<k, g[k - 1]>>]

\* A step that is good where it is applied to something good can be repeated N times.
LEMMA Iterate ==
    ASSUME NEW N \in Nat, NEW F, NEW start, NEW Good, <<0, start>> \in Good,
           \A k \in 1..N : \A x : <<k - 1, x>> \in Good => <<k, F[<<k, x>>]>> \in Good
    PROVE  \E g : Repeated(g, N, F, start) /\ \A k \in 0..N : <<k, g[k]>> \in Good
<1> DEFINE Run(g, n) == Repeated(g, n, F, start) /\ \A k \in 0..n : <<k, g[k]>> \in Good
           S == {n \in 0..N : \E g : Run(g, n)}
<1>1. 0 \in S
  <2> DEFINE h == [k \in 0..0 |-> start]
  <2>1. Repeated(h, 0, F, start) /\ h[0] = start
    BY DEF Repeated
  <2> HIDE DEF h
  <2>2. Run(h, 0)
    BY <2>1
  <2> HIDE DEF Run
  <2> QED
    BY <2>2
<1>2. ASSUME NEW m \in 1..N, m - 1 \in S PROVE m \in S
  <2>1. PICK g : Run(g, m - 1)
    BY <1>2
  <2> DEFINE h == [k \in 0..m |-> IF k = m THEN F[<<m, g[m - 1]>>] ELSE g[k]]
  <2>2. /\ \A k \in 0..(m - 1) : h[k] = g[k]
        /\ h[m] = F[<<m, g[m - 1]>>]
        /\ h = [k \in 0..m |-> h[k]]
    OBVIOUS
  <2> HIDE DEF h
  <2>3. 0 \in 0..(m - 1) /\ m - 1 \in 0..(m - 1) /\ \A k \in 0..m : k # m => k \in 0..(m - 1)
    OBVIOUS
  <2>4. h[0] = start
    BY <2>1, <2>2, <2>3 DEF Repeated
  <2>5. \A k \in 1..m : h[k] = F[<<k, h[k - 1]>>]
    <3>1. h[m] = F[<<m, h[m - 1]>>]
      BY <2>2, <2>3
    <3>2. ASSUME NEW k \in 1..m, k # m PROVE h[k] = F[<<k, h[k - 1]>>]
      <4>1. k \in 1..(m - 1) /\ k \in 0..(m - 1) /\ k - 1 \in 0..(m - 1)
        BY <3>2
      <4> QED
        BY <2>1, <2>2, <4>1 DEF Repeated
    <3> QED
      BY <3>1, <3>2
  <2>6. \A k \in 0..m : <<k, h[k]>> \in Good
    <3>1. <<m - 1, g[m - 1]>> \in Good
      BY <2>1, <2>3
    <3>2. <<m, h[m]>> \in Good
      BY <2>2, <3>1
    <3> QED
      BY <2>1, <2>2, <2>3, <3>2
  <2>7. Run(h, m)
    BY <2>2, <2>4, <2>5, <2>6 DEF Repeated
  <2> HIDE DEF Run
  <2> QED
    BY <2>7
<1> HIDE DEF S
<1>3. N \in S
  BY <1>1, <1>2, Induct
<1> QED
  BY <1>3 DEF S

\* The tables after the first lines of a file.
After(g, N, first, file, protocol) ==
    g = [k \in 0..N |-> IF k = 0 THEN first ELSE Line(g[k - 1], file[k], protocol)]

\* There are such tables, and they are good if each line is good.
LEMMA Reading ==
    ASSUME NEW N \in Nat, NEW first, NEW file, NEW protocol,
           NEW Good \in SUBSET ((0..N) \X Tables), <<0, first>> \in Good,
           \A k \in 1..N : \A t \in Tables :
               <<k - 1, t>> \in Good => <<k, Line(t, file[k], protocol)>> \in Good
    PROVE  \E g : After(g, N, first, file, protocol) /\ <<N, g[N]>> \in Good
<1>1. PICK F : F = [at \in (1..N) \X Tables |-> Line(at[2], file[at[1]], protocol)]
  OBVIOUS
<1>2. \A k \in 1..N : \A t : <<k - 1, t>> \in Good => t \in Tables /\ F[<<k, t>>] = Line(t, file[k], protocol)
  BY <1>1
<1>3. \A k \in 1..N : \A t : <<k - 1, t>> \in Good => <<k, F[<<k, t>>]>> \in Good
  BY <1>2
<1>4. PICK g : Repeated(g, N, F, first) /\ \A k \in 0..N : <<k, g[k]>> \in Good
  BY <1>3, Iterate
<1>5. \A k \in 1..N : g[k] = Line(g[k - 1], file[k], protocol)
  <2> TAKE k \in 1..N
  <2>1. k - 1 \in 0..N
    OBVIOUS
  <2> QED
    BY <1>2, <1>4, <2>1 DEF Repeated
<1>6. After(g, N, first, file, protocol)
  <2>1. \A k \in 0..N : g[k] = IF k = 0 THEN first ELSE Line(g[k - 1], file[k], protocol)
    <3>1. \A k \in 0..N : k = 0 \/ k \in 1..N
      OBVIOUS
    <3> QED
      BY <1>4, <1>5, <3>1 DEF Repeated
  <2> QED
    BY <1>4, <2>1 DEF Repeated, After
<1> QED
  BY <1>4, <1>6

\* They are the only ones.
LEMMA OneReading ==
    ASSUME NEW N \in Nat, NEW first, NEW file, NEW protocol, NEW g, NEW h,
           After(g, N, first, file, protocol), After(h, N, first, file, protocol)
    PROVE  g[N] = h[N]
<1>1. /\ g[0] = first /\ \A k \in 1..N : g[k] = Line(g[k - 1], file[k], protocol)
      /\ h[0] = first /\ \A k \in 1..N : h[k] = Line(h[k - 1], file[k], protocol)
  BY DEF After
<1>2. g[0] = h[0] /\ \A k \in 1..N : g[k - 1] = h[k - 1] => g[k] = h[k]
  BY <1>1
<1>3. \A k \in 0..N : g[k] = h[k]
  BY <1>2, Agree
<1> QED
  BY <1>3

\* If each line is good, so is the table after all lines of the file.
LEMMA ReadFile ==
    ASSUME NEW first, NEW file, NEW protocol, Len(file) \in Nat,
           NEW Good \in SUBSET ((0..Len(file)) \X Tables), <<0, first>> \in Good,
           \A k \in 1..Len(file) : \A t \in Tables :
               <<k - 1, t>> \in Good => <<k, Line(t, file[k], protocol)>> \in Good
    PROVE  <<Len(file), in_read_ip(first, file, protocol)>> \in Good
<1>1. PICK N \in Nat : N = Len(file)
  OBVIOUS
<1>2. PICK g : After(g, N, first, file, protocol) /\ <<N, g[N]>> \in Good
  BY <1>1, Reading
<1> DEFINE h == CHOOSE x : After(x, N, first, file, protocol)
<1>3. in_read_ip(first, file, protocol) = h[N]
  BY <1>1 DEF in_read_ip, After
<1>4. After(h, N, first, file, protocol)
  BY <1>2
<1> HIDE DEF h
<1>5. h[N] = g[N]
  BY <1>2, <1>4, OneReading
<1> QED
  BY <1>1, <1>2, <1>3, <1>5

\* The same for the files, one after another.
AfterFiles(g, files) ==
    g = [i \in 0..Len(FileOrder) |->
            IF i = 0 THEN EmptyTable
            ELSE in_read_ip(g[i - 1], files[FileOrder[i]], FileOrder[i])]

LEMMA ReadFiles ==
    ASSUME NEW files, NEW Good \in SUBSET ((0..9) \X Tables), <<0, EmptyTable>> \in Good,
           \A i \in 1..9 : \A t \in Tables :
               <<i - 1, t>> \in Good => <<i, in_read_ip(t, files[FileOrder[i]], FileOrder[i])>> \in Good
    PROVE  <<9, read_ips_config(files)>> \in Good
<1>0. Len(FileOrder) = 9
  BY DEF FileOrder
<1>1. PICK F : F = [at \in (1..9) \X Tables |-> in_read_ip(at[2], files[FileOrder[at[1]]], FileOrder[at[1]])]
  OBVIOUS
<1>2. \A i \in 1..9 : \A t : <<i - 1, t>> \in Good
          => t \in Tables /\ F[<<i, t>>] = in_read_ip(t, files[FileOrder[i]], FileOrder[i])
  BY <1>1
<1>3. \A i \in 1..9 : \A t : <<i - 1, t>> \in Good => <<i, F[<<i, t>>]>> \in Good
  BY <1>2
<1>4. PICK g : Repeated(g, 9, F, EmptyTable) /\ \A i \in 0..9 : <<i, g[i]>> \in Good
  <2>1. PICK N \in Nat : N = 9
    OBVIOUS
  <2>2. \A k \in 1..N : \A x : <<k - 1, x>> \in Good => <<k, F[<<k, x>>]>> \in Good
    BY <1>3, <2>1
  <2>3. \E g : Repeated(g, N, F, EmptyTable) /\ \A k \in 0..N : <<k, g[k]>> \in Good
    BY <2>2, Iterate
  <2> QED
    BY <2>1, <2>3
<1>5. \A i \in 1..9 : g[i] = in_read_ip(g[i - 1], files[FileOrder[i]], FileOrder[i])
  <2> TAKE i \in 1..9
  <2>1. i - 1 \in 0..9
    OBVIOUS
  <2> QED
    BY <1>2, <1>4, <2>1 DEF Repeated
<1>6. AfterFiles(g, files)
  <2>1. \A i \in 0..9 : g[i] = IF i = 0 THEN EmptyTable
                               ELSE in_read_ip(g[i - 1], files[FileOrder[i]], FileOrder[i])
    <3>1. \A i \in 0..9 : i = 0 \/ i \in 1..9
      OBVIOUS
    <3> QED
      BY <1>4, <1>5, <3>1 DEF Repeated
  <2> QED
    BY <1>0, <1>4, <2>1 DEF Repeated, AfterFiles
<1> DEFINE h == CHOOSE x : AfterFiles(x, files)
<1>7. read_ips_config(files) = h[9]
  BY <1>0 DEF read_ips_config, AfterFiles
<1>8. AfterFiles(h, files)
  BY <1>6
<1> HIDE DEF h
<1>9. /\ g[0] = EmptyTable
      /\ h[0] = EmptyTable
      /\ \A i \in 1..9 : h[i] = in_read_ip(h[i - 1], files[FileOrder[i]], FileOrder[i])
  BY <1>0, <1>4, <1>8 DEF AfterFiles, Repeated
<1>10. g[9] = h[9]
  <2>1. PICK N \in Nat : N = 9
    OBVIOUS
  <2>2. PICK f : f = h
    OBVIOUS
  <2>3. g[0] = f[0] /\ \A k \in 1..N : g[k - 1] = f[k - 1] => g[k] = f[k]
    BY <1>5, <1>9, <2>1, <2>2
  <2>4. \A k \in 0..N : g[k] = f[k]
    BY <2>3, Agree
  <2> QED
    BY <2>1, <2>2, <2>4
<1> QED
  BY <1>4, <1>7, <1>10

-----------------------------------------------------------------------------

LEMMA Orders ==
    /\ Len(FileOrder) = 9
    /\ \A i \in 1..9 : FileOrder[i] \in Interfaces
    /\ \A i, j \in 1..9 : FileOrder[i] = FileOrder[j] => i = j
<1>1. Len(FileOrder) = 9
  BY DEF FileOrder
<1>2. \A i \in 1..9 : FileOrder[i] \in Interfaces
  BY DEF FileOrder, Interfaces
<1>3. \A i, j \in 1..9 : FileOrder[i] = FileOrder[j] => i = j
  BY DEF FileOrder
<1> QED
  BY <1>1, <1>2, <1>3

LEMMA OneFile ==
    ASSUME NEW i \in 1..9, NEW j \in 1..9, FileOrder[i] = FileOrder[j]
    PROVE  i = j
BY Orders

LEMMA LinesAre ==
    ASSUME NEW files \in FileSets
    PROVE  /\ \A i \in 1..9 : files[FileOrder[i]] \in Seq(Lines) /\ Len(files[FileOrder[i]]) \in Nat
           /\ \A i, n : <<i, n>> \in LinesOf(files) <=> i \in 1..9 /\ n \in 1..Len(files[FileOrder[i]])
           /\ \A at \in LinesOf(files) : at = <<at[1], at[2]>>
           /\ \A at \in LinesOf(files) : LineAt(files, at) \in Lines
<1>1. \A i \in 1..9 : files[FileOrder[i]] \in Seq(Lines) /\ Len(files[FileOrder[i]]) \in Nat
  <2>1. \A s \in Seq(Lines) : Len(s) \in Nat
    OBVIOUS
  <2>2. \A f \in Interfaces : files[f] \in Seq(Lines)
    BY DEF FileSets
  <2>3. \A i \in 1..9 : FileOrder[i] \in Interfaces
    BY Orders
  <2> QED
    BY <2>1, <2>2, <2>3, Zenon
<1>2. \A i, n : <<i, n>> \in LinesOf(files) <=> i \in 1..9 /\ n \in 1..Len(files[FileOrder[i]])
  <2>1. LinesOf(files) = UNION {{i} \X (1..Len(files[FileOrder[i]])) : i \in 1..9}
    BY Orders DEF LinesOf
  <2>2. ASSUME NEW i, NEW n, <<i, n>> \in LinesOf(files)
        PROVE  i \in 1..9 /\ n \in 1..Len(files[FileOrder[i]])
    <3>1. PICK j \in 1..9 : <<i, n>> \in {j} \X (1..Len(files[FileOrder[j]]))
      BY <2>1, <2>2
    <3> QED
      BY <3>1
  <2>3. ASSUME NEW i \in 1..9, NEW n \in 1..Len(files[FileOrder[i]])
        PROVE  <<i, n>> \in LinesOf(files)
    <3>1. <<i, n>> \in {i} \X (1..Len(files[FileOrder[i]]))
      OBVIOUS
    <3> QED
      BY <2>1, <3>1
  <2> QED
    BY <2>2, <2>3
<1>3. \A at \in LinesOf(files) : at = <<at[1], at[2]>>
  <2>1. ASSUME NEW at \in LinesOf(files) PROVE at = <<at[1], at[2]>>
    <3>1. PICK i \in 1..Len(FileOrder) : at \in {i} \X (1..Len(files[FileOrder[i]]))
      BY DEF LinesOf
    <3> QED
      BY <3>1
  <2> QED
    BY <2>1
<1>4. ASSUME NEW at \in LinesOf(files) PROVE LineAt(files, at) \in Lines
  <2>1. at[1] \in 1..9 /\ at[2] \in 1..Len(files[FileOrder[at[1]]])
    BY <1>2, <1>3
  <2>2. \A f \in Seq(Lines) : \A k \in 1..Len(f) : f[k] \in Lines
    OBVIOUS
  <2>3. files[FileOrder[at[1]]] \in Seq(Lines)
    BY <1>1, <2>1
  <2> QED
    BY <2>1, <2>2, <2>3 DEF LineAt
<1> QED
  BY <1>1, <1>2, <1>3, <1>4

\* The lines before and in the first n of the i-th file.
UpToLine(files, i, n) == {at \in LinesOf(files) : at[1] < i \/ (at[1] = i /\ at[2] <= n)}

LEMMA NextLine ==
    ASSUME NEW files \in FileSets, NEW i \in 1..9, NEW n \in 1..Len(files[FileOrder[i]])
    PROVE  /\ \A at : at \in UpToLine(files, i, n) <=> at \in UpToLine(files, i, n - 1) \/ at = <<i, n>>
           /\ <<i, n>> \notin UpToLine(files, i, n - 1)
<1>1. <<i, n>> \in LinesOf(files)
  BY LinesAre
<1>2. ~(n <= n - 1) /\ n <= n
  OBVIOUS
<1>3. ASSUME NEW at \in LinesOf(files)
      PROVE  at[1] \in 1..9 /\ at[2] \in Nat /\ (at = <<i, n>> <=> at[1] = i /\ at[2] = n)
  <2>1. at = <<at[1], at[2]>> /\ at[1] \in 1..9 /\ at[2] \in 1..Len(files[FileOrder[at[1]]])
    BY LinesAre
  <2>2. at[2] \in Nat
    BY <2>1, LinesAre
  <2> QED
    BY <2>1, <2>2
<1>4. ASSUME NEW at \in LinesOf(files)
      PROVE  at \in UpToLine(files, i, n) <=> at \in UpToLine(files, i, n - 1) \/ at = <<i, n>>
  <2>1. at[2] <= n <=> at[2] <= n - 1 \/ at[2] = n
    BY <1>3
  <2> QED
    BY <1>3, <2>1 DEF UpToLine
<1>5. UpToLine(files, i, n) \subseteq LinesOf(files) /\ UpToLine(files, i, n - 1) \subseteq LinesOf(files)
  BY DEF UpToLine
<1> QED
  BY <1>1, <1>2, <1>4, <1>5 DEF UpToLine

LEMMA NextFile ==
    ASSUME NEW files \in FileSets, NEW i \in 1..9
    PROVE  UpToLine(files, i, Len(files[FileOrder[i]])) = UpToLine(files, i + 1, 0)
<1>1. ASSUME NEW at \in LinesOf(files)
      PROVE  at \in UpToLine(files, i, Len(files[FileOrder[i]])) <=> at \in UpToLine(files, i + 1, 0)
  <2>1. at = <<at[1], at[2]>> /\ at[1] \in 1..9 /\ at[2] \in 1..Len(files[FileOrder[at[1]]])
    BY LinesAre
  <2>2. at[2] \in Nat /\ at[2] > 0
    BY <2>1, LinesAre
  <2>3. at[1] = i => at[2] <= Len(files[FileOrder[i]])
    BY <2>1
  <2>4. ~(at[2] <= 0) /\ (at[1] < i + 1 <=> at[1] < i \/ at[1] = i)
    BY <2>1, <2>2
  <2> QED
    BY <2>3, <2>4 DEF UpToLine
<1> QED
  BY <1>1 DEF UpToLine

LEMMA NoLine ==
    ASSUME NEW files \in FileSets
    PROVE  UpToLine(files, 1, 0) = {} /\ UpToLine(files, 10, 0) = LinesOf(files)
<1>1. ASSUME NEW at \in LinesOf(files)
      PROVE  at \notin UpToLine(files, 1, 0) /\ at \in UpToLine(files, 10, 0)
  <2>1. at = <<at[1], at[2]>> /\ at[1] \in 1..9 /\ at[2] \in 1..Len(files[FileOrder[at[1]]])
    BY LinesAre
  <2>2. at[2] \in Nat /\ at[2] > 0
    BY <2>1, LinesAre
  <2> QED
    BY <2>1, <2>2 DEF UpToLine
<1> QED
  BY <1>1 DEF UpToLine

LEMMA FiniteCount ==
    ASSUME NEW n \in Nat
    PROVE  IsFiniteSet(1..n)
BY FS_Interval

LEMMA FiniteLines ==
    ASSUME NEW files \in FileSets
    PROVE  IsFiniteSet(LinesOf(files))
<1> DEFINE Part(i) == {i} \X (1..Len(files[FileOrder[i]]))
           f == [i \in 1..9 |-> Part(i)]
           Parts == {Part(i) : i \in 1..9}
<1>1. ASSUME NEW i \in 1..9 PROVE IsFiniteSet(Part(i))
  <2>1. PICK n : n = Len(files[FileOrder[i]])
    OBVIOUS
  <2>2. n \in Nat
    BY <2>1, LinesAre
  <2>3. IsFiniteSet(1..n)
    BY <2>2, FiniteCount
  <2>4. IsFiniteSet({i})
    BY FS_Singleton
  <2>5. IsFiniteSet({i} \X (1..n))
    BY <2>3, <2>4, FS_Product
  <2> QED
    BY <2>1, <2>5
<1>2. IsFiniteSet(1..9)
  <2>1. PICK N \in Nat : N = 9
    OBVIOUS
  <2> QED
    BY <2>1, FiniteCount
<1>3. LinesOf(files) = UNION Parts
  BY Orders, Zenon DEF LinesOf
<1> HIDE DEF Part
<1>4. f \in Surjection(1..9, Parts)
  BY DEF Surjection
<1>5. \A P \in Parts : IsFiniteSet(P)
  BY <1>1
<1> HIDE DEF Parts, f
<1>6. IsFiniteSet(Parts)
  BY <1>2, <1>4, FS_Surjection
<1>7. IsFiniteSet(UNION Parts)
  BY <1>5, <1>6, FS_UNION
<1> QED
  BY <1>3, <1>7

\* A node stands for a line of its address in a file of its interface.
NodesFrom(files, S, t) == \A link \in 0..(LinkNum - 1) : \A k \in 1..Len(t[link]) :
    \E at \in S : /\ LineAt(files, at) = [ok |-> TRUE, ip |-> t[link][k].ip]
                  /\ t[link][k].proto_id = FileOrder[at[1]]

\* Nodes of files that are read earlier come first.
ChainInOrder(c) == \A k, l \in 1..Len(c) : \A i, j \in 1..9 :
    k <= l /\ c[k].proto_id = FileOrder[i] /\ c[l].proto_id = FileOrder[j] => i <= j

InOrder(t) == \A link \in 0..(LinkNum - 1) : ChainInOrder(t[link])

\* As many nodes as lines, and one for each.
NoneLost(files, S, t) ==
    /\ \A link \in 0..(LinkNum - 1) : Len(t[link]) = Cardinality(InLink(files, S, link))
    /\ \A at \in S : LineAt(files, at).ok =>
          LET chain == t[Link(LineAt(files, at).ip)]
          IN  \E k \in 1..Len(chain) :
                  chain[k] = [ip |-> LineAt(files, at).ip, proto_id |-> FileOrder[at[1]]]

Good(files, i, n, t) ==
    /\ t \in Tables
    /\ NodesFrom(files, UpToLine(files, i, n), t)
    /\ InOrder(t)
    /\ AllFit(files) => NoneLost(files, UpToLine(files, i, n), t)

LEMMA LinkIn ==
    ASSUME NEW ip \in Nat
    PROVE  Link(ip) \in 0..(LinkNum - 1)
<1>1. LinkNum \in Nat /\ LinkNum > 0
  BY TableAssumption
<1> QED
  BY <1>1 DEF Link

\* What a node more makes of a chain.
LEMMA Appended ==
    ASSUME NEW c \in Seq(Nodes), NEW x \in Nodes
    PROVE  /\ Append(c, x) \in Seq(Nodes) /\ Len(Append(c, x)) = Len(c) + 1 /\ Len(c) \in Nat
           /\ Append(c, x)[Len(c) + 1] = x
           /\ \A k \in 1..Len(c) : Append(c, x)[k] = c[k]
           /\ \A k \in 1..(Len(c) + 1) : k \in 1..Len(c) \/ k = Len(c) + 1
OBVIOUS

\* A line that cannot be read, or finds its chain full, leaves the nodes.
LEMMA LeavesNodes ==
    ASSUME NEW files \in FileSets, NEW i \in 1..9, NEW n \in 1..Len(files[FileOrder[i]]), NEW t \in Tables,
           NodesFrom(files, UpToLine(files, i, n - 1), t)
    PROVE  NodesFrom(files, UpToLine(files, i, n), t)
<1>1. \A at : at \in UpToLine(files, i, n - 1) => at \in UpToLine(files, i, n)
  BY NextLine
<1> QED
  BY <1>1 DEF NodesFrom

\* What AddIp does when the chain takes the node.
LEMMA TableWith ==
    ASSUME NEW t \in Tables, NEW ip \in Nat, NEW f \in Interfaces
    PROVE  /\ AddIp(t, ip, f) \in Tables
           /\ Len(t[Link(ip)]) >= NodeNum => AddIp(t, ip, f) = t
           /\ Len(t[Link(ip)]) < NodeNum =>
                 /\ AddIp(t, ip, f)[Link(ip)] = Append(t[Link(ip)], [ip |-> ip, proto_id |-> f])
                 /\ \A link \in 0..(LinkNum - 1) : link # Link(ip) => AddIp(t, ip, f)[link] = t[link]
<1>1. Link(ip) \in 0..(LinkNum - 1) /\ t[Link(ip)] \in Seq(Nodes) /\ Len(t[Link(ip)]) \in Nat
  <2>1. Link(ip) \in 0..(LinkNum - 1)
    BY LinkIn
  <2>2. t[Link(ip)] \in Seq(Nodes)
    BY <2>1 DEF Tables
  <2> QED
    BY <2>1, <2>2
<1>2. [ip |-> ip, proto_id |-> f] \in Nodes
  BY DEF Nodes
<1>3. Append(t[Link(ip)], [ip |-> ip, proto_id |-> f]) \in Seq(Nodes)
  BY <1>1, <1>2, Appended
<1> DEFINE x == Append(t[Link(ip)], [ip |-> ip, proto_id |-> f])
           u == [t EXCEPT ![Link(ip)] = x]
<1>4. u \in Tables /\ u[Link(ip)] = x /\ \A link \in 0..(LinkNum - 1) : link # Link(ip) => u[link] = t[link]
  <2> HIDE DEF x
  <2>1. x \in Seq(Nodes)
    BY <1>3 DEF x
  <2> QED
    BY <1>1, <2>1 DEF Tables
<1>5. AddIp(t, ip, f) = IF Len(t[Link(ip)]) >= NodeNum THEN t ELSE u
  BY DEF AddIp
<1> HIDE DEF u
<1> QED
  BY <1>1, <1>4, <1>5, TableAssumption

\* A node of a file that is read no earlier than those of the others goes behind them.
LEMMA AppendInOrder ==
    ASSUME NEW c \in Seq(Nodes), ChainInOrder(c), NEW x \in Nodes, NEW i \in 1..9,
           x.proto_id = FileOrder[i],
           \A k \in 1..Len(c) : \E a \in 1..9 : a <= i /\ c[k].proto_id = FileOrder[a]
    PROVE  ChainInOrder(Append(c, x))
<1> DEFINE d == Append(c, x)
<1>1. /\ Len(d) = Len(c) + 1 /\ Len(c) \in Nat /\ d[Len(c) + 1] = x
      /\ \A k \in 1..Len(c) : d[k] = c[k]
      /\ \A k \in 1..Len(d) : k \in 1..Len(c) \/ k = Len(c) + 1
  BY Appended
<1> HIDE DEF d
<1>2. ASSUME NEW k \in 1..Len(d), NEW l \in 1..Len(d), NEW a \in 1..9, NEW b \in 1..9, k <= l,
             d[k].proto_id = FileOrder[a], d[l].proto_id = FileOrder[b]
      PROVE  a <= b
  <2>1. CASE l \in 1..Len(c)
    <3>1. k \in 1..Len(c)
      BY <1>1, <1>2, <2>1
    <3>2. c[k].proto_id = FileOrder[a] /\ c[l].proto_id = FileOrder[b]
      BY <1>1, <1>2, <2>1, <3>1
    <3> QED
      BY <1>2, <2>1, <3>1, <3>2 DEF ChainInOrder
  <2>2. CASE l = Len(c) + 1
    <3>1. FileOrder[b] = FileOrder[i]
      BY <1>1, <1>2, <2>2
    <3>2. b = i
      BY <3>1, OneFile
    <3>3. CASE k = l
      <4>1. FileOrder[a] = FileOrder[b]
        BY <1>2, <3>3
      <4>2. a = b
        BY <4>1, OneFile
      <4> QED
        BY <4>2
    <3>4. CASE k \in 1..Len(c)
      <4>1. PICK e \in 1..9 : e <= i /\ c[k].proto_id = FileOrder[e]
        BY <3>4
      <4>2. FileOrder[a] = FileOrder[e]
        BY <1>1, <1>2, <3>4, <4>1
      <4>3. a = e
        BY <4>2, OneFile
      <4> QED
        BY <3>2, <4>1, <4>3
    <3> QED
      BY <1>1, <2>2, <3>3, <3>4
  <2> QED
    BY <1>1, <2>1, <2>2
<1>3. ChainInOrder(d)
  BY <1>2 DEF ChainInOrder
<1> QED
  BY <1>3 DEF d

\* A line that finds room gets its node, behind those of the files before.
LEMMA RoomKeeps ==
    ASSUME NEW files \in FileSets, NEW i \in 1..9, NEW n \in 1..Len(files[FileOrder[i]]), NEW t \in Tables,
           NodesFrom(files, UpToLine(files, i, n - 1), t), InOrder(t),
           NEW ip \in Nat, files[FileOrder[i]][n] = [ok |-> TRUE, ip |-> ip],
           NEW u, u = AddIp(t, ip, FileOrder[i]), Len(t[Link(ip)]) < NodeNum
    PROVE  NodesFrom(files, UpToLine(files, i, n), u) /\ InOrder(u)
<1> DEFINE L == Link(ip)
           x == [ip |-> ip, proto_id |-> FileOrder[i]]
           S == UpToLine(files, i, n - 1)
           T == UpToLine(files, i, n)
<1>1. /\ L \in 0..(LinkNum - 1) /\ u[L] = Append(t[L], x)
      /\ \A link \in 0..(LinkNum - 1) : link # L => u[link] = t[link]
  <2>1. PICK f \in Interfaces : f = FileOrder[i]
    BY Orders
  <2>2. /\ u[L] = Append(t[L], [ip |-> ip, proto_id |-> f])
        /\ \A link \in 0..(LinkNum - 1) : link # L => u[link] = t[link]
    BY <2>1, TableWith
  <2> QED
    BY <2>1, <2>2, LinkIn
<1>2. t[L] \in Seq(Nodes) /\ x \in Nodes
  BY <1>1, Orders DEF Tables, Nodes
<1>3. /\ Len(u[L]) = Len(t[L]) + 1 /\ Len(t[L]) \in Nat /\ u[L][Len(t[L]) + 1] = x
      /\ \A k \in 1..Len(t[L]) : u[L][k] = t[L][k]
      /\ \A k \in 1..Len(u[L]) : k \in 1..Len(t[L]) \/ k = Len(t[L]) + 1
  <2>1. PICK y \in Nodes : y = x
    BY <1>2
  <2>2. PICK c \in Seq(Nodes) : c = t[L]
    BY <1>2
  <2>3. u[L] = Append(c, y)
    BY <1>1, <2>1, <2>2
  <2>4. /\ Len(u[L]) = Len(c) + 1 /\ Len(c) \in Nat /\ u[L][Len(c) + 1] = y
        /\ \A k \in 1..Len(c) : u[L][k] = c[k]
    BY <2>3, Appended
  <2>5. \A k \in 1..Len(u[L]) : k \in 1..Len(c) \/ k = Len(c) + 1
    BY <2>4
  <2> HIDE DEF x, L
  <2> QED
    BY <2>1, <2>2, <2>4, <2>5
<1>4. \A at : at \in T <=> at \in S \/ at = <<i, n>>
  BY NextLine
<1>5. LineAt(files, <<i, n>>) = [ok |-> TRUE, ip |-> ip]
  BY DEF LineAt
<1>6. x.ip = ip /\ x.proto_id = FileOrder[i]
  OBVIOUS
<1>7. \A at \in S : at[1] \in 1..9 /\ at[1] <= i
  <2> TAKE at \in S
  <2>1. at \in LinesOf(files) /\ (at[1] < i \/ at[1] = i)
    BY DEF UpToLine
  <2>2. at[1] \in 1..9
    BY <2>1, LinesAre
  <2> QED
    BY <2>1, <2>2
<1> HIDE DEF L, x, S, T
<1>8. NodesFrom(files, S, t)
  BY DEF S
<1>9. NodesFrom(files, T, u)
  <2> SUFFICES ASSUME NEW link \in 0..(LinkNum - 1), NEW k \in 1..Len(u[link])
               PROVE  \E at \in T : /\ LineAt(files, at) = [ok |-> TRUE, ip |-> u[link][k].ip]
                                    /\ u[link][k].proto_id = FileOrder[at[1]]
    BY DEF NodesFrom
  <2>1. CASE link # L
    <3>1. u[link] = t[link] /\ k \in 1..Len(t[link])
      BY <1>1, <2>1
    <3>2. PICK at \in S : /\ LineAt(files, at) = [ok |-> TRUE, ip |-> t[link][k].ip]
                          /\ t[link][k].proto_id = FileOrder[at[1]]
      BY <1>8, <3>1 DEF NodesFrom
    <3> QED
      BY <1>4, <3>1, <3>2
  <2>2. CASE link = L /\ k \in 1..Len(t[L])
    <3>1. PICK at \in S : /\ LineAt(files, at) = [ok |-> TRUE, ip |-> t[L][k].ip]
                          /\ t[L][k].proto_id = FileOrder[at[1]]
      BY <1>1, <1>8, <2>2 DEF NodesFrom
    <3> QED
      BY <1>3, <1>4, <2>2, <3>1
  <2>3. CASE link = L /\ k = Len(t[L]) + 1
    <3>1. u[link][k] = x /\ <<i, n>>[1] = i
      BY <1>3, <2>3
    <3> QED
      BY <1>4, <1>5, <1>6, <3>1
  <2> QED
    BY <1>3, <2>1, <2>2, <2>3
<1>10. InOrder(u)
  <2>1. ASSUME NEW k \in 1..Len(t[L]) PROVE \E a \in 1..9 : a <= i /\ t[L][k].proto_id = FileOrder[a]
    <3>1. PICK at \in S : t[L][k].proto_id = FileOrder[at[1]]
      BY <1>1, <1>8 DEF NodesFrom
    <3> QED
      BY <1>7, <3>1
  <2>2. ChainInOrder(t[L])
    BY <1>1 DEF InOrder
  <2>3. ChainInOrder(Append(t[L], x))
    BY <1>2, <1>6, <2>1, <2>2, AppendInOrder
  <2> QED
    BY <1>1, <2>3 DEF InOrder
<1> QED
  BY <1>9, <1>10 DEF T

\* The lines of a chain, with the next one.
LEMMA InLinkNext ==
    ASSUME NEW files \in FileSets, NEW i \in 1..9, NEW n \in 1..Len(files[FileOrder[i]]),
           NEW link \in 0..(LinkNum - 1)
    PROVE  LET S == InLink(files, UpToLine(files, i, n - 1), link)
               T == InLink(files, UpToLine(files, i, n), link)
               line == files[FileOrder[i]][n]
           IN  /\ Cardinality(S) \in Nat
               /\ line.ok /\ Link(line.ip) = link
                     => /\ Cardinality(T) = Cardinality(S) + 1
                        /\ Cardinality(T) <= Cardinality(InLink(files, LinesOf(files), link))
                        /\ Cardinality(InLink(files, LinesOf(files), link)) \in Nat
               /\ ~(line.ok /\ Link(line.ip) = link) => T = S
<1> DEFINE S == InLink(files, UpToLine(files, i, n - 1), link)
           T == InLink(files, UpToLine(files, i, n), link)
           A == InLink(files, LinesOf(files), link)
           line == files[FileOrder[i]][n]
<1>1. A \subseteq LinesOf(files) /\ S \subseteq A /\ T \subseteq A
  BY DEF InLink, UpToLine
<1>2. IsFiniteSet(A)
  BY <1>1, FiniteLines, FS_Subset
<1>3. LineAt(files, <<i, n>>) = line
  BY DEF LineAt
<1>4. /\ \A at : at \in UpToLine(files, i, n) <=> at \in UpToLine(files, i, n - 1) \/ at = <<i, n>>
      /\ <<i, n>> \notin UpToLine(files, i, n - 1)
  BY NextLine
<1>5. T = IF line.ok /\ Link(line.ip) = link THEN S \cup {<<i, n>>} ELSE S
  BY <1>3, <1>4 DEF InLink
<1>6. <<i, n>> \notin S
  BY <1>4 DEF InLink
<1> HIDE DEF S, T, A, line
<1>7. /\ IsFiniteSet(S) /\ Cardinality(S) \in Nat /\ Cardinality(A) \in Nat
      /\ Cardinality(T) <= Cardinality(A)
  BY <1>1, <1>2, FS_Subset, FS_CardinalityType
<1>8. Cardinality(S \cup {<<i, n>>}) = Cardinality(S) + 1
  BY <1>6, <1>7, FS_AddElement
<1> QED
  BY <1>5, <1>7, <1>8 DEF S, T, A, line

\* When all lines fit, the line that is read next finds room, and every line has its node.
LEMMA NoneLostNext ==
    ASSUME NEW files \in FileSets, AllFit(files),
           NEW i \in 1..9, NEW n \in 1..Len(files[FileOrder[i]]), NEW t \in Tables,
           NoneLost(files, UpToLine(files, i, n - 1), t)
    PROVE  NoneLost(files, UpToLine(files, i, n), Line(t, files[FileOrder[i]][n], FileOrder[i]))
<1> DEFINE S == UpToLine(files, i, n - 1)
           T == UpToLine(files, i, n)
           line == files[FileOrder[i]][n]
           u == Line(t, line, FileOrder[i])
<1>1. \A at : at \in T <=> at \in S \/ at = <<i, n>>
  BY NextLine
<1>2. LineAt(files, <<i, n>>) = line /\ line \in Lines
  <2>1. <<i, n>> \in LinesOf(files)
    BY LinesAre
  <2>2. LineAt(files, <<i, n>>) \in Lines
    BY <2>1, LinesAre
  <2> QED
    BY <2>2 DEF LineAt
<1>3. \A link \in 0..(LinkNum - 1) : Len(t[link]) = Cardinality(InLink(files, S, link))
  BY DEF NoneLost
<1>4. \A at \in S : LineAt(files, at).ok =>
          \E k \in 1..Len(t[Link(LineAt(files, at).ip)]) :
              t[Link(LineAt(files, at).ip)][k] = [ip |-> LineAt(files, at).ip, proto_id |-> FileOrder[at[1]]]
  BY DEF NoneLost
<1>5. \A link \in 0..(LinkNum - 1) :
          ~(line.ok /\ Link(line.ip) = link) => InLink(files, T, link) = InLink(files, S, link)
  BY InLinkNext
<1>6. CASE ~line.ok
  <2>1. u = t
    BY <1>6 DEF Line
  <2>2. \A link \in 0..(LinkNum - 1) : Len(u[link]) = Cardinality(InLink(files, T, link))
    BY <1>3, <1>5, <1>6, <2>1
  <2>3. \A at \in T : LineAt(files, at).ok => at \in S
    BY <1>1, <1>2, <1>6
  <2> HIDE DEF S, T, u
  <2>4. NoneLost(files, T, u)
    BY <1>4, <2>1, <2>2, <2>3 DEF NoneLost
  <2> QED
    BY <2>4 DEF T, u
<1>7. CASE line.ok
  <2> DEFINE L == Link(line.ip)
             x == [ip |-> line.ip, proto_id |-> FileOrder[i]]
  <2>1. line.ip \in Nat /\ L \in 0..(LinkNum - 1) /\ FileOrder[i] \in Interfaces
    BY <1>2, LinkIn, Orders DEF Lines
  <2>2. t[L] \in Seq(Nodes) /\ x \in Nodes
    BY <2>1 DEF Tables, Nodes
  <2>3. /\ Cardinality(InLink(files, T, L)) = Len(t[L]) + 1
        /\ Len(t[L]) < NodeNum
    <3>1. Len(t[L]) = Cardinality(InLink(files, S, L)) /\ Len(t[L]) \in Nat
      BY <1>3, <2>1, <2>2
    <3>2. /\ Cardinality(InLink(files, T, L)) = Cardinality(InLink(files, S, L)) + 1
          /\ Cardinality(InLink(files, T, L)) <= Cardinality(InLink(files, LinesOf(files), L))
          /\ Cardinality(InLink(files, LinesOf(files), L)) \in Nat
      BY <1>7, <2>1, InLinkNext
    <3>3. Cardinality(InLink(files, LinesOf(files), L)) <= NodeNum
      BY <2>1 DEF AllFit
    <3> QED
      BY <3>1, <3>2, <3>3, TableAssumption
  <2>4. /\ u[L] = Append(t[L], x)
        /\ \A link \in 0..(LinkNum - 1) : link # L => u[link] = t[link]
    <3>1. PICK f \in Interfaces : f = FileOrder[i]
      BY <2>1
    <3>2. PICK ip \in Nat : ip = line.ip
      BY <2>1
    <3>3. /\ AddIp(t, ip, f)[Link(ip)] = Append(t[Link(ip)], [ip |-> ip, proto_id |-> f])
          /\ \A link \in 0..(LinkNum - 1) : link # Link(ip) => AddIp(t, ip, f)[link] = t[link]
      BY <2>3, <3>2, TableWith
    <3>4. u = AddIp(t, ip, f)
      BY <1>7, <3>1, <3>2 DEF Line
    <3> QED
      BY <3>1, <3>2, <3>3, <3>4
  <2>5. /\ Len(u[L]) = Len(t[L]) + 1 /\ Len(t[L]) \in Nat /\ u[L][Len(t[L]) + 1] = x
        /\ \A k \in 1..Len(t[L]) : u[L][k] = t[L][k]
    <3>1. PICK y \in Nodes : y = x
      BY <2>2
    <3>2. PICK c \in Seq(Nodes) : c = t[L]
      BY <2>2
    <3>3. u[L] = Append(c, y)
      BY <2>4, <3>1, <3>2
    <3>4. /\ Len(u[L]) = Len(c) + 1 /\ Len(c) \in Nat /\ u[L][Len(c) + 1] = y
          /\ \A k \in 1..Len(c) : u[L][k] = c[k]
      BY <3>3, Appended
    <3> HIDE DEF x, L, u
    <3> QED
      BY <3>1, <3>2, <3>4
  <2> HIDE DEF S, T, u, L, x
  <2>6. \A link \in 0..(LinkNum - 1) : Len(u[link]) = Cardinality(InLink(files, T, link))
    <3> TAKE link \in 0..(LinkNum - 1)
    <3>1. CASE link = L
      BY <2>3, <2>5, <3>1
    <3>2. CASE link # L
      BY <1>3, <1>5, <2>4, <3>2 DEF L
    <3> QED
      BY <3>1, <3>2
  <2>7. ASSUME NEW at \in T, LineAt(files, at).ok
        PROVE  \E k \in 1..Len(u[Link(LineAt(files, at).ip)]) :
                   u[Link(LineAt(files, at).ip)][k] = [ip |-> LineAt(files, at).ip, proto_id |-> FileOrder[at[1]]]
    <3>1. CASE at = <<i, n>>
      <4>1. LineAt(files, at) = line /\ Link(LineAt(files, at).ip) = L /\ at[1] = i
        BY <1>2, <3>1 DEF L
      <4>2. Len(t[L]) + 1 \in 1..Len(u[L])
        BY <2>5
      <4> QED
        BY <2>5, <4>1, <4>2 DEF x
    <3>2. CASE at \in S
      <4>1. PICK link : link = Link(LineAt(files, at).ip)
        OBVIOUS
      <4>2. link \in 0..(LinkNum - 1)
        <5>1. at \in LinesOf(files)
          BY <3>2 DEF S, UpToLine
        <5>2. LineAt(files, at).ip \in Nat
          BY <5>1, LinesAre DEF Lines
        <5> QED
          BY <4>1, <5>2, LinkIn
      <4>3. PICK k \in 1..Len(t[link]) :
                t[link][k] = [ip |-> LineAt(files, at).ip, proto_id |-> FileOrder[at[1]]]
        BY <1>4, <2>7, <3>2, <4>1
      <4>4. k \in 1..Len(u[link]) /\ u[link][k] = t[link][k]
        <5>1. CASE link = L
          BY <2>5, <4>3, <5>1
        <5>2. CASE link # L
          BY <2>4, <4>2, <4>3, <5>2, Zenon
        <5> QED
          BY <5>1, <5>2
      <4> QED
        BY <4>1, <4>3, <4>4
    <3> QED
      BY <1>1, <3>1, <3>2
  <2>8. NoneLost(files, T, u)
    BY <2>6, <2>7 DEF NoneLost
  <2> QED
    BY <2>8 DEF T, u
<1> QED
  BY <1>6, <1>7

\* A line keeps the table good.
LEMMA LineKeeps ==
    ASSUME NEW files \in FileSets, NEW i \in 1..9, NEW n \in 1..Len(files[FileOrder[i]]), NEW t,
           Good(files, i, n - 1, t)
    PROVE  Good(files, i, n, Line(t, files[FileOrder[i]][n], FileOrder[i]))
<1> DEFINE line == files[FileOrder[i]][n]
           u == Line(t, line, FileOrder[i])
<1>1. /\ t \in Tables /\ NodesFrom(files, UpToLine(files, i, n - 1), t) /\ InOrder(t)
      /\ AllFit(files) => NoneLost(files, UpToLine(files, i, n - 1), t)
  BY DEF Good
<1>2. AllFit(files) => NoneLost(files, UpToLine(files, i, n), u)
  BY <1>1, NoneLostNext
<1>3. line \in Lines /\ FileOrder[i] \in Interfaces
  <2>1. <<i, n>> \in LinesOf(files)
    BY LinesAre
  <2>2. LineAt(files, <<i, n>>) \in Lines
    BY <2>1, LinesAre
  <2> QED
    BY <2>2, Orders DEF LineAt
<1>4. CASE line.ok /\ Len(t[Link(line.ip)]) < NodeNum
  <2>1. PICK ip \in Nat : line = [ok |-> TRUE, ip |-> ip]
    BY <1>3, <1>4 DEF Lines
  <2>2. u = AddIp(t, ip, FileOrder[i]) /\ Len(t[Link(ip)]) < NodeNum
    BY <1>4, <2>1 DEF Line
  <2>3. u \in Tables
    BY <1>1, <1>3, <2>2, TableWith
  <2>4. NodesFrom(files, UpToLine(files, i, n), u) /\ InOrder(u)
    BY <1>1, <2>1, <2>2, RoomKeeps
  <2> HIDE DEF u
  <2>5. Good(files, i, n, u)
    BY <1>2, <2>3, <2>4 DEF Good
  <2> QED
    BY <2>5 DEF u
<1>5. CASE ~(line.ok /\ Len(t[Link(line.ip)]) < NodeNum)
  <2>1. u = t
    <3>1. CASE ~line.ok
      BY <3>1 DEF Line
    <3>2. CASE line.ok
      <4>1. PICK ip \in Nat : ip = line.ip
        BY <1>3 DEF Lines
      <4>2. Link(ip) \in 0..(LinkNum - 1)
        BY LinkIn
      <4>3. t[Link(ip)] \in Seq(Nodes)
        BY <1>1, <4>2 DEF Tables
      <4>4. Len(t[Link(ip)]) >= NodeNum
        BY <1>5, <3>2, <4>1, <4>3, TableAssumption
      <4>5. AddIp(t, ip, FileOrder[i]) = t
        BY <1>1, <1>3, <4>4, TableWith
      <4> QED
        BY <3>2, <4>1, <4>5 DEF Line
    <3> QED
      BY <3>1, <3>2
  <2>2. NodesFrom(files, UpToLine(files, i, n), t)
    BY <1>1, LeavesNodes
  <2> HIDE DEF u
  <2>3. Good(files, i, n, u)
    BY <1>1, <1>2, <2>1, <2>2 DEF Good
  <2> QED
    BY <2>3 DEF u
<1> QED
  BY <1>4, <1>5

\* A file keeps it good.
LEMMA FileKeeps ==
    ASSUME NEW files \in FileSets, NEW i \in 1..9, NEW t, Good(files, i, 0, t)
    PROVE  Good(files, i + 1, 0, in_read_ip(t, files[FileOrder[i]], FileOrder[i]))
<1> DEFINE file == files[FileOrder[i]]
           N == Len(file)
           G == {p \in (0..N) \X Tables : Good(files, i, p[1], p[2])}
           u == in_read_ip(t, file, FileOrder[i])
<1>1. N \in Nat
  BY LinesAre
<1>2. G \in SUBSET ((0..N) \X Tables) /\ <<0, t>> \in G
  BY <1>1 DEF Good
<1>3. ASSUME NEW k \in 1..N, NEW x \in Tables, <<k - 1, x>> \in G
      PROVE  <<k, Line(x, file[k], FileOrder[i])>> \in G
  <2>1. Good(files, i, k - 1, x)
    BY <1>3
  <2>2. Good(files, i, k, Line(x, file[k], FileOrder[i]))
    BY <2>1, LineKeeps
  <2>3. Line(x, file[k], FileOrder[i]) \in Tables /\ k \in 0..N
    BY <2>2 DEF Good
  <2> QED
    BY <2>2, <2>3
<1> HIDE DEF G
<1>4. <<N, u>> \in G
  BY <1>1, <1>2, <1>3, ReadFile
<1> HIDE DEF u
<1>5. Good(files, i, N, u)
  BY <1>4 DEF G
<1>6. Good(files, i + 1, 0, u)
  <2>1. UpToLine(files, i, N) = UpToLine(files, i + 1, 0)
    BY NextFile
  <2> QED
    BY <1>5, <2>1 DEF Good
<1> QED
  BY <1>6 DEF u

\* The table that has been read is good of all files.
LEMMA TableGood ==
    ASSUME NEW files \in FileSets
    PROVE  Good(files, 10, 0, read_ips_config(files))
<1> DEFINE G == {p \in (0..9) \X Tables : Good(files, p[1] + 1, 0, p[2])}
<1>1. G \in SUBSET ((0..9) \X Tables)
  OBVIOUS
<1>2. <<0, EmptyTable>> \in G
  <2>1. EmptyTable \in Tables /\ \A link \in 0..(LinkNum - 1) : EmptyTable[link] = << >>
    BY DEF EmptyTable, Tables
  <2>2. NodesFrom(files, {}, EmptyTable) /\ InOrder(EmptyTable)
    BY <2>1 DEF NodesFrom, InOrder, ChainInOrder
  <2>3. NoneLost(files, {}, EmptyTable)
    <3>1. ASSUME NEW link \in 0..(LinkNum - 1)
          PROVE  Len(EmptyTable[link]) = Cardinality(InLink(files, {}, link))
      <4>1. InLink(files, {}, link) = {}
        BY DEF InLink
      <4>2. Cardinality(InLink(files, {}, link)) = Cardinality({})
        BY <4>1, Zenon
      <4> QED
        BY <2>1, <4>2, FS_EmptySet
    <3> QED
      BY <3>1 DEF NoneLost
  <2>4. Good(files, 1, 0, EmptyTable)
    BY <2>1, <2>2, <2>3, NoLine DEF Good
  <2> QED
    BY <2>1, <2>4
<1>3. ASSUME NEW i \in 1..9, NEW t \in Tables, <<i - 1, t>> \in G
      PROVE  <<i, in_read_ip(t, files[FileOrder[i]], FileOrder[i])>> \in G
  <2>1. (i - 1) + 1 = i
    OBVIOUS
  <2>2. Good(files, i, 0, t)
    BY <1>3, <2>1
  <2>3. Good(files, i + 1, 0, in_read_ip(t, files[FileOrder[i]], FileOrder[i]))
    BY <2>2, FileKeeps
  <2> QED
    BY <2>3 DEF Good
<1> HIDE DEF G
<1>4. <<9, read_ips_config(files)>> \in G
  BY <1>1, <1>2, <1>3, ReadFiles
<1>5. 9 + 1 = 10
  OBVIOUS
<1> QED
  BY <1>4, <1>5 DEF G

\* The search finds the first node with the address, if there is one.
LEMMA Found ==
    ASSUME NEW t \in Tables, NEW ip \in Nat
    PROVE  /\ Find(t, ip) = 0 => \A k \in 1..Len(t[Link(ip)]) : t[Link(ip)][k].ip # ip
           /\ Find(t, ip) # 0 =>
                /\ Find(t, ip) \in 1..Len(t[Link(ip)])
                /\ t[Link(ip)][Find(t, ip)].ip = ip
                /\ \A k \in 1..Len(t[Link(ip)]) : t[Link(ip)][k].ip = ip => Find(t, ip) <= k
<1> DEFINE c == t[Link(ip)]
           I == {k \in 1..Len(c) : c[k].ip = ip}
           L == Len(c)
<1>0. c \in Seq(Nodes) /\ L \in Nat
  <2>1. Link(ip) \in 0..(LinkNum - 1)
    BY LinkIn
  <2>2. c \in Seq(Nodes)
    BY <2>1 DEF Tables
  <2> QED
    BY <2>2
<1>1. Find(t, ip) = IF I # {} THEN Min(I) ELSE 0
  BY DEF Find, SelectInSeq
<1>2. CASE I = {}
  BY <1>0, <1>1, <1>2
<1>3. CASE I # {}
  <2>1. I \in SUBSET Nat /\ \A k \in I : k # 0
    BY <1>0
  <2>2. \A k : k \in I <=> k \in 1..Len(c) /\ c[k].ip = ip
    OBVIOUS
  <2> HIDE DEF I
  <2>3. PICK m \in I : \A k \in I : m <= k
    BY <1>3, <2>1, LeastNumber
  <2>4. Min(I) \in I /\ \A k \in I : Min(I) <= k
    BY <2>3, Zenon DEF Min
  <2>5. Find(t, ip) = Min(I)
    BY <1>1, <1>3
  <2> QED
    BY <2>1, <2>2, <2>4, <2>5
<1> QED
  BY <1>2, <1>3

\* Where a search succeeds, what it finds names an interface.
LEMMA NamesOne ==
    ASSUME NEW t \in Tables, NEW dst \in Nat, NEW src \in Nat, NEW default \in Interfaces
    PROVE  ByAddress(t, dst, src, default) \in Interfaces
<1>1. ASSUME NEW ip \in Nat, Find(t, ip) > 0
      PROVE  t[Link(ip)][Find(t, ip)].proto_id \in Interfaces
  <2>1. Find(t, ip) \in 1..Len(t[Link(ip)])
    BY <1>1, Found
  <2>2. t[Link(ip)] \in Seq(Nodes)
    BY LinkIn DEF Tables
  <2>3. t[Link(ip)][Find(t, ip)] \in Nodes
    BY <2>1, <2>2
  <2> QED
    BY <2>3 DEF Nodes
<1> QED
  BY <1>1 DEF ByAddress

\* A file lists an address if one of the lines is the address.
LEMMA Listing ==
    ASSUME NEW files \in FileSets, NEW ip \in Nat
    PROVE  \A i : i \in ListedIn(files, ip)
              <=> \E at \in LinesOf(files) : at[1] = i /\ LineAt(files, at) = [ok |-> TRUE, ip |-> ip]
<1> DEFINE line == [ok |-> TRUE, ip |-> ip]
<1>1. \A i : i \in ListedIn(files, ip)
          <=> i \in 1..9 /\ \E n \in 1..Len(files[FileOrder[i]]) : files[FileOrder[i]][n] = line
  BY Orders DEF ListedIn
<1>2. \A i, n : LineAt(files, <<i, n>>) = files[FileOrder[i]][n]
  BY DEF LineAt
<1>3. ASSUME NEW i \in ListedIn(files, ip)
      PROVE  \E at \in LinesOf(files) : at[1] = i /\ LineAt(files, at) = line
  <2>1. PICK n \in 1..Len(files[FileOrder[i]]) : i \in 1..9 /\ files[FileOrder[i]][n] = line
    BY <1>1
  <2>2. <<i, n>> \in LinesOf(files)
    BY <2>1, LinesAre
  <2>3. <<i, n>>[1] = i
    OBVIOUS
  <2> HIDE DEF line
  <2> QED
    BY <1>2, <2>1, <2>2, <2>3
<1>4. ASSUME NEW at \in LinesOf(files), LineAt(files, at) = line
      PROVE  at[1] \in ListedIn(files, ip)
  <2>1. at[1] \in 1..9 /\ at[2] \in 1..Len(files[FileOrder[at[1]]])
    BY LinesAre
  <2>2. files[FileOrder[at[1]]][at[2]] = line
    BY <1>4 DEF LineAt
  <2> HIDE DEF line
  <2> QED
    BY <1>1, <2>1, <2>2
<1> QED
  BY <1>3, <1>4

\* If all lines fit, the search in the table tells the first file that lists the address.
LEMMA FindTells ==
    ASSUME NEW files \in FileSets, AllFit(files), NEW ip \in Nat,
           NEW t, t = read_ips_config(files)
    PROVE  /\ Find(t, ip) > 0 <=> ListedIn(files, ip) # {}
           /\ Find(t, ip) > 0 => t[Link(ip)][Find(t, ip)].proto_id
                  = FileOrder[CHOOSE i \in ListedIn(files, ip) : \A j \in ListedIn(files, ip) : i <= j]
<1> DEFINE L == Link(ip)
           c == t[L]
           f == Find(t, ip)
           T == ListedIn(files, ip)
           line == [ok |-> TRUE, ip |-> ip]
<1>1. /\ t \in Tables /\ NodesFrom(files, LinesOf(files), t) /\ InOrder(t)
      /\ NoneLost(files, LinesOf(files), t)
  BY TableGood, NoLine DEF Good
<1>2. L \in 0..(LinkNum - 1) /\ c \in Seq(Nodes)
  <2>1. L \in 0..(LinkNum - 1)
    BY LinkIn
  <2> QED
    BY <1>1, <2>1 DEF Tables
<1>3. /\ f = 0 => \A k \in 1..Len(c) : c[k].ip # ip
      /\ f # 0 => /\ f \in 1..Len(c) /\ c[f].ip = ip
                  /\ \A k \in 1..Len(c) : c[k].ip = ip => f <= k
  BY <1>1, Found
<1>4. f \in Nat
  BY <1>2, <1>3
<1>5. ASSUME NEW i \in T
      PROVE  i \in 1..9 /\ \E k \in 1..Len(c) : c[k].ip = ip /\ c[k].proto_id = FileOrder[i]
  <2>1. PICK at \in LinesOf(files) : at[1] = i /\ LineAt(files, at) = line
    BY Listing
  <2>2. at[1] \in 1..9
    BY LinesAre
  <2>3. LineAt(files, at).ok /\ LineAt(files, at).ip = ip
    BY <2>1
  <2>4. \E k \in 1..Len(c) : c[k] = [ip |-> ip, proto_id |-> FileOrder[at[1]]]
    BY <1>1, <2>3 DEF NoneLost
  <2> QED
    BY <2>1, <2>2, <2>4
<1>6. CASE f = 0
  <2>1. T = {}
    BY <1>3, <1>5, <1>6
  <2> QED
    BY <1>6, <2>1
<1>7. CASE f # 0
  <2>1. f \in 1..Len(c) /\ c[f].ip = ip /\ \A k \in 1..Len(c) : c[k].ip = ip => f <= k
    BY <1>3, <1>7
  <2>2. PICK at \in LinesOf(files) :
            LineAt(files, at) = [ok |-> TRUE, ip |-> c[f].ip] /\ c[f].proto_id = FileOrder[at[1]]
    BY <1>1, <1>2, <2>1 DEF NodesFrom
  <2>3. PICK i : i = at[1]
    OBVIOUS
  <2>4. i \in T
    BY <2>1, <2>2, <2>3, Listing
  <2>5. i \in 1..9
    BY <1>5, <2>4
  <2>6. ASSUME NEW j \in T PROVE i <= j
    <3>1. PICK k \in 1..Len(c) : c[k].ip = ip /\ c[k].proto_id = FileOrder[j]
      BY <1>5
    <3>2. f <= k /\ j \in 1..9
      BY <1>5, <2>1, <3>1
    <3>3. ChainInOrder(c)
      BY <1>1, <1>2 DEF InOrder
    <3>4. c[f].proto_id = FileOrder[i]
      BY <2>2, <2>3
    <3> QED
      BY <2>1, <2>5, <3>1, <3>2, <3>3, <3>4 DEF ChainInOrder
  <2>7. \A j \in T : j \in Nat
    BY <1>5
  <2> HIDE DEF T, f, c
  <2>8. (CHOOSE x \in T : \A j \in T : x <= j) = i
    BY <2>4, <2>6, <2>7
  <2>9. f > 0
    BY <1>4, <1>7
  <2>10. T # {} /\ c[f].proto_id = FileOrder[CHOOSE x \in T : \A j \in T : x <= j]
    <3>1. c[f].proto_id = FileOrder[i]
      BY <2>2, <2>3
    <3> QED
      BY <2>4, <2>8, <3>1
  <2> QED
    BY <2>9, <2>10, Zenon DEF T, f, c
<1> QED
  BY <1>6, <1>7

\* If all lines fit, the interface by address is that by the files.
LEMMA AddressTells ==
    ASSUME NEW files \in FileSets, AllFit(files), NEW dst \in Nat, NEW src \in Nat, NEW default
    PROVE  ByAddress(read_ips_config(files), dst, src, default) = ByFiles(files, dst, src, default)
<1>1. PICK t : t = read_ips_config(files)
  OBVIOUS
<1>2. /\ Find(t, dst) > 0 <=> ListedIn(files, dst) # {}
      /\ Find(t, dst) > 0 => t[Link(dst)][Find(t, dst)].proto_id
              = FileOrder[CHOOSE i \in ListedIn(files, dst) : \A j \in ListedIn(files, dst) : i <= j]
  BY <1>1, FindTells
<1>3. /\ Find(t, src) > 0 <=> ListedIn(files, src) # {}
      /\ Find(t, src) > 0 => t[Link(src)][Find(t, src)].proto_id
              = FileOrder[CHOOSE i \in ListedIn(files, src) : \A j \in ListedIn(files, src) : i <= j]
  BY <1>1, FindTells
<1> QED
  BY <1>1, <1>2, <1>3, Zenon DEF ByAddress, ByFiles

-----------------------------------------------------------------------------
(* The interface.                                                              *)

\* The table is that of the files, the packet in hand is one that has arrived or the other
\* parser's, and behind sp_get_l5_proto the interface is the one it found.
LookInv ==
    /\ conf \in Configs /\ table = read_ips_config(conf.files)
    /\ phase \in Busy => desc \in 0..tail /\ packet[desc] \in Packets
    /\ interface \in Interfaces \cup {"none"}
    /\ phase = "dispatch" => interface = InterfaceOf(packet[desc])

LEMMA FilesAre ==
    ASSUME conf \in Configs
    PROVE  conf.files \in FileSets
BY PacketAssumption DEF FileSets

\* No port is ever told, so that the interface is the label or that of the addresses.
LEMMA TellsByAddress ==
    ASSUME NEW p
    PROVE  ~conf.lb /\ p.port # "gb"
              => InterfaceOf(p) = ByAddress(table, p.dst, p.src, IF p.port = "gtpu" THEN "iups" ELSE "gn")
<1>1. SelectInSeq(PortOrder[p.port], LAMBDA name : PortTells(p, name)) = 0
  BY DEF SelectInSeq, PortTells
<1> QED
  BY <1>1 DEF InterfaceOf

\* sp_get_l5_proto names an interface, or a label that is none.
LEMMA InterfaceIn ==
    ASSUME conf \in Configs, table = read_ips_config(conf.files), NEW p \in Packets
    PROVE  InterfaceOf(p) \in Interfaces \cup {"none"}
<1>1. p.tag \in Interfaces \cup {"none"} /\ p.dst \in Nat /\ p.src \in Nat
  BY PacketAssumption DEF Packet
<1>2. CASE conf.lb
  BY <1>1, <1>2 DEF InterfaceOf
<1>3. CASE ~conf.lb /\ p.port = "gb"
  BY <1>3 DEF InterfaceOf, Interfaces
<1>4. CASE ~conf.lb /\ p.port # "gb"
  <2>1. PICK d \in Interfaces : d = IF p.port = "gtpu" THEN "iups" ELSE "gn"
    BY DEF Interfaces
  <2>2. table \in Tables
    BY FilesAre, TableGood DEF Good
  <2>3. ByAddress(table, p.dst, p.src, d) \in Interfaces
    BY <1>1, <2>2, NamesOne
  <2> QED
    BY <1>4, <2>1, <2>3, TellsByAddress
<1> QED
  BY <1>2, <1>3, <1>4

\* A step after which no packet is in hand.
LEMMA DoneLooks ==
    ASSUME LookInv, UNCHANGED <<conf, table>>, phase' \notin Busy,
           interface' \in {interface, "none"}
    PROVE  LookInv'
<1>1. phase' # "dispatch"
  BY DEF Busy
<1> QED
  BY <1>1 DEF LookInv

\* A step that keeps what is in hand, and the interface.
LEMMA StaysLooks ==
    ASSUME LookInv, UNCHANGED <<conf, table, desc, interface>>, tail \in Nat, tail' \in {tail, tail + 1},
           phase' \in Busy => phase \in Busy /\ packet'[desc] = packet[desc],
           phase' = "dispatch" => phase = "dispatch"
    PROVE  LookInv'
<1>1. phase' = "dispatch" => InterfaceOf(packet[desc])' = InterfaceOf(packet[desc])
  BY DEF InterfaceOf, PortTells, Busy
<1>2. desc \in 0..tail => desc \in 0..tail'
  OBVIOUS
<1> QED
  BY <1>1, <1>2 DEF LookInv

LEMMA GotoLooks ==
    ASSUME LookInv, Types, NEW p \in Busy \ {"dispatch"}, phase \in Busy, Goto(p)
    PROVE  LookInv'
<1>1. tail \in Nat
  BY PacketAssumption DEF Types
<1>2. /\ UNCHANGED <<conf, table, desc, interface, tail, packet>>
      /\ phase' = p
  BY DEF Goto, ringVars
<1> QED
  BY <1>1, <1>2, StaysLooks

LEMMA DiscardLooks ==
    ASSUME LookInv, Discard
    PROVE  LookInv'
<1>1. UNCHANGED <<conf, table>> /\ phase' \in {"top", "next"} /\ interface' = "none"
  BY DEF Discard, NextEntry
<1> QED
  BY <1>1, DoneLooks DEF Busy

\* The packet that the loop begins with, and the one that waited for its other half.
LEMMA TakesLooks ==
    ASSUME LookInv, UNCHANGED <<conf, table, packet, tail, interface>>, phase' \in Busy \ {"dispatch"},
           desc' \in 0..tail, packet[desc'] \in Packets
    PROVE  LookInv'
BY DEF LookInv

LEMMA StepLooks ==
    ASSUME IInv, LookInv, [Next]_vars
    PROVE  LookInv'
<1>0. Types /\ InBatch /\ PoolHome /\ tail \in Nat /\ MaxPackets \in Nat
  BY PacketAssumption DEF IInv, Types
<1>1. CASE Peek \/ Stop \/ CacheFragment \/ KeepPacket
  <2>1. UNCHANGED <<conf, table>> /\ phase' \in {"top", "next", "stopped"} /\ interface' \in {interface, "none"}
    <3>1. CASE Peek
      BY <3>1 DEF Peek
    <3>2. CASE Stop
      BY <3>2 DEF Stop, Goto
    <3>3. CASE CacheFragment
      BY <3>3 DEF CacheFragment, NextEntry
    <3>4. CASE KeepPacket
      BY <3>4 DEF KeepPacket, NextEntry
    <3> QED
      BY <1>1, <3>1, <3>2, <3>3, <3>4
  <2> QED
    BY <2>1, DoneLooks DEF Busy
<1>2. CASE Begin
  <2>1. phase = "next" /\ UNCHANGED <<conf, table, packet, tail>> /\ desc' = entry
    BY <1>2 DEF Begin
  <2>2. CASE NextEntry
    <3>1. phase' \in {"top", "next"} /\ interface' = "none"
      BY <2>2 DEF NextEntry
    <3> QED
      BY <2>1, <3>1, DoneLooks DEF Busy
  <2>3. CASE phase' = "l2" /\ UNCHANGED interface
    <3>1. entry \in 1..tail
      BY <1>0, <2>1 DEF Types, InBatch
    <3>2. desc' \in 0..tail /\ packet[desc'] \in Packets
      BY <1>0, <2>1, <3>1 DEF InBatch
    <3> QED
      BY <2>1, <2>3, <3>2, TakesLooks DEF Busy
  <2> QED
    BY <1>2, <2>2, <2>3 DEF Begin
<1>3. CASE process_l2_layer
  <2>1. phase = "l2" /\ (Discard \/ Goto("l3"))
    BY <1>3 DEF process_l2_layer
  <2> QED
    BY <1>0, <2>1, DiscardLooks, GotoLooks DEF Busy
<1>4. CASE BadIpHeader \/ NoNode \/ DiscardAtLast
  <2>1. Discard
    BY <1>4 DEF BadIpHeader, NoNode, DiscardAtLast
  <2> QED
    BY <2>1, DiscardLooks
<1>5. CASE WholeDatagram \/ LookupHangs \/ MergeIntoThis
  <2>1. phase \in Busy /\ \E p \in {"l4", "hung", "dead"} : Goto(p)
    BY <1>5 DEF WholeDatagram, LookupHangs, MergeIntoThis, InL3, Busy
  <2> QED
    BY <1>0, <2>1, GotoLooks DEF Busy
<1>6. CASE MergeIntoCached
  <2>1. /\ phase = "l3" /\ pool[packet[entry].chain] # Nothing
        /\ desc' = pool[packet[entry].chain] /\ phase' = "l4"
        /\ UNCHANGED <<conf, table, packet, tail, interface>>
    BY <1>6 DEF MergeIntoCached, InL3, InUse, Here
  <2>2. packet[entry].chain \in Chains
    <3>1. entry \in 1..tail
      BY <1>0, <2>1 DEF Types, InBatch, Busy
    <3>2. packet[entry] \in Packets
      BY <1>0, <3>1 DEF InBatch
    <3> QED
      BY <3>2, PacketAssumption DEF Packet
  <2>3. desc' \in 0..tail /\ packet[desc'] \in Packets
    BY <1>0, <2>1, <2>2 DEF PoolHome
  <2> QED
    BY <2>1, <2>3, TakesLooks DEF Busy
<1>7. CASE LayerFour
  <2>1. phase = "l4" /\ (Discard \/ Goto("l5"))
    BY <1>7 DEF LayerFour
  <2> QED
    BY <1>0, <2>1, DiscardLooks, GotoLooks DEF Busy
<1>8. CASE sp_get_l5_proto
  <2>1. /\ phase = "l5" /\ phase' = "dispatch" /\ interface' = InterfaceOf(packet[desc])
        /\ UNCHANGED <<conf, table, packet, tail, desc>>
    BY <1>8 DEF sp_get_l5_proto, Current, ringVars
  <2>2. desc \in 0..tail /\ packet[desc] \in Packets
    BY <2>1 DEF LookInv, Busy
  <2>3. InterfaceOf(packet[desc]) \in Interfaces \cup {"none"}
    BY <2>2, InterfaceIn DEF LookInv
  <2>4. InterfaceOf(packet[desc])' = InterfaceOf(packet[desc])
    BY <2>1 DEF InterfaceOf, PortTells
  <2> QED
    BY <2>1, <2>2, <2>3, <2>4 DEF LookInv
<1>9. ASSUME NEW p \in Packets, Arrive(p) PROVE LookInv'
  <2>1. /\ UNCHANGED <<conf, table, desc, interface, phase>> /\ tail' = tail + 1
        /\ packet' = [packet EXCEPT ![tail + 1] = p]
    BY <1>9 DEF Arrive, loopVars
  <2>2. phase \in Busy => packet'[desc] = packet[desc]
    <3>1. SUFFICES ASSUME phase \in Busy PROVE packet'[desc] = packet[desc]
      OBVIOUS
    <3>2. desc \in 0..tail /\ desc \in Buffers
      BY <1>0, <3>1 DEF LookInv, Types
    <3>3. desc # tail + 1
      BY <1>0, <3>2
    <3> QED
      BY <1>0, <2>1, <3>2, <3>3 DEF Types
  <2> QED
    BY <1>0, <2>1, <2>2, StaysLooks
<1>10. ASSUME NEW p \in Packets, OthersPut(p) PROVE LookInv'
  <2>1. /\ UNCHANGED <<conf, table, desc, interface, phase, tail>> /\ packet[0] = Nothing
        /\ packet' = [packet EXCEPT ![0] = p]
    BY <1>10 DEF OthersPut, loopVars
  <2>2. phase \in Busy => packet'[desc] = packet[desc]
    <3>1. SUFFICES ASSUME phase \in Busy PROVE packet'[desc] = packet[desc]
      OBVIOUS
    <3>2. packet[desc] \in Packets /\ desc \in Buffers
      BY <1>0, <3>1 DEF LookInv, Types
    <3>3. desc # 0
      BY <2>1, <3>2, PacketAssumption
    <3> QED
      BY <1>0, <2>1, <3>2, <3>3 DEF Types
  <2> QED
    BY <1>0, <2>1, <2>2, StaysLooks
<1>11. ASSUME NEW c \in Chains, OthersTake(c) PROVE LookInv'
  <2>1. UNCHANGED <<conf, table, packet, tail, desc, interface, phase>>
    BY <1>11 DEF OthersTake, loopVars, ringVars
  <2> QED
    BY <1>0, <2>1, StaysLooks
<1>12. CASE UNCHANGED vars
  <2>1. UNCHANGED <<conf, table, packet, tail, desc, interface, phase>>
    BY <1>12 DEF vars, loopVars, ringVars
  <2> QED
    BY <1>0, <2>1, StaysLooks
<1> QED
  BY <1>1, <1>2, <1>3, <1>4, <1>5, <1>6, <1>7, <1>8, <1>9, <1>10, <1>11, <1>12 DEF Next, Step, Others

\* What TableTells rests on, in every reachable state.
THEOREM Lookup == Spec => [](IInv /\ LookInv)
<1>1. Init => IInv /\ LookInv
  <2>1. Init => IInv
    BY Start
  <2>2. Init => LookInv
    BY DEF Init, LookInv, Busy
  <2> QED
    BY <2>1, <2>2
<1>2. IInv /\ LookInv /\ [Next]_vars => (IInv /\ LookInv)'
  BY StepKeeps, StepLooks
<1> QED
  BY <1>1, <1>2, PTL DEF Spec

\* For all files, as long as their lines fit into the chains: the interface of GTP traffic is
\* that of the first file that lists the destination, else the source, whatever the length of
\* the chains and however the lines are spread over them (in_read_ip, sp_get_l5_proto).
THEOREM TableTellsAlways == Spec => []TableTells
<1>1. IInv /\ LookInv => TableTells
  <2> SUFFICES ASSUME IInv, LookInv, phase = "dispatch", ~conf.lb, Current.port # "gb", AllFit(conf.files)
               PROVE  interface = ByFiles(conf.files, Current.dst, Current.src,
                                          IF Current.port = "gtpu" THEN "iups" ELSE "gn")
    BY DEF TableTells
  <2>1. Current \in Packets /\ interface = InterfaceOf(Current)
    BY DEF LookInv, Current, Busy
  <2>2. Current.dst \in Nat /\ Current.src \in Nat
    BY <2>1, PacketAssumption DEF Packet
  <2>3. interface = ByAddress(read_ips_config(conf.files), Current.dst, Current.src,
                              IF Current.port = "gtpu" THEN "iups" ELSE "gn")
    BY <2>1, TellsByAddress DEF LookInv
  <2>4. conf.files \in FileSets
    BY FilesAre DEF LookInv
  <2> QED
    BY <2>2, <2>3, <2>4, AddressTells
<1> QED
  BY <1>1, Lookup, PTL

\* Every variable keeps its type; the interface is one of the nine, or no label.
THEOREM TypeCorrect == Spec => []TypeOK
<1>1. IInv /\ LookInv => TypeOK
  BY DEF IInv, Types, LookInv, TypeOK, Busy
<1> QED
  BY <1>1, Lookup, PTL
=============================================================================
