--------------------------- MODULE FragPoolProofs ---------------------------
(***************************************************************************)
(* Proofs about FragPool, for every number of nodes, parsers, keys and     *)
(* buffers: the two lists of a chain keep their shape whatever the         *)
(* parsers do to them, and the timeout walk never leaves the used list.    *)
(***************************************************************************)
EXTENDS FragPool, FiniteSetTheorems, WellFoundedInduction, TLAPS

\* What a parser holds at each place of its program.
Held ==
    /\ \A p \in Parsers :
          pc[p] \in {"fillKey", "fillDesc", "merge", "put", "drop"}
             => frag[p] \in Nodes
    /\ \A p \in Parsers :
          pc[p] \in {"get", "fillKey", "fillDesc", "merge", "put", "drop"}
             => pkt[p] \in Packet
    /\ \A p \in Parsers : pc[p] = "walk" => p = Expirer

IInv == TypeOK /\ ListInv /\ Held /\ WalkInUsedList

USE NodeNumAssumption, ExpirerAssumption, NoneAssumption, MaxPacketsAssumption

\* NULL is not a node, and a link is a node or NULL.
LEMMA Links == Null \notin Nodes /\ Link = Nodes \cup {Null}
  BY DEF Null, Nodes, Link

-----------------------------------------------------------------------------
(* The order of the links.                                                 *)

\* After n is linked it is newer than every other node; the others keep
\* their order.
LEMMA Newest ==
    ASSUME NEW n \in Nodes, NewestIs(n), newer \in SUBSET (Nodes \X Nodes)
    PROVE  \A a, b \in Nodes :
              <<a, b>> \in newer' <=> /\ b # n
                                      /\ a = n \/ <<a, b>> \in newer
  BY DEF NewestIs

\* An order stays an order when a node becomes the newest, provided that no
\* other node has a link to it, and the new links obey the old order.
LEMMA OrderKept ==
    ASSUME NEW n \in Nodes, NewestIs(n), TypeOK, Ordered,
           next' \in [Nodes -> Link], next'[n] # n,
           \A m \in Nodes \ {n} :
               next'[m] # Null => next'[m] # n /\ <<m, next'[m]>> \in newer
    PROVE  Ordered'
  <1> DEFINE Later(a, b) == b # n /\ (a = n \/ <<a, b>> \in newer)
  <1>1. \A a, b \in Nodes : <<a, b>> \in newer' <=> Later(a, b)
    BY Newest DEF TypeOK
  <1>2. \A a, b \in Nodes : a # b => (Later(a, b) <=> ~Later(b, a))
    BY DEF Ordered
  <1>3. \A a \in Nodes : ~Later(a, a)
    BY DEF Ordered
  <1>4. \A a, b, c \in Nodes : Later(a, b) /\ Later(b, c) => Later(a, c)
    BY DEF Ordered
  <1>5. \A m \in Nodes : next'[m] # Null => next'[m] \in Nodes /\ Later(m, next'[m])
    BY DEF Link, Nodes, Null
  <1>6. \A m \in Nodes : next'[m] # Null => <<m, next'[m]>> \in newer'
    BY <1>1, <1>5
  <1> HIDE DEF Later
  <1> QED
    BY <1>1, <1>2, <1>3, <1>4, <1>6 DEF Ordered

\* Every set of nodes has a newest one.
LEMMA NewestExists ==
    ASSUME newer \in SUBSET (Nodes \X Nodes), Ordered, NEW S \in SUBSET Nodes, S # {}
    PROVE  \E x \in S : \A y \in S : <<y, x>> \notin newer
  <1> DEFINE Above(x) == {y \in S : <<y, x>> \in newer}
             T == {Above(x) : x \in S}
  <1>1. IsFiniteSet(Nodes)
    BY FS_Interval DEF Nodes
  <1>2. \A U \in SUBSET Nodes : IsFiniteSet(U)
    BY <1>1, FS_Subset
  <1>3. T \subseteq FiniteSubsetsOf(Nodes) /\ T # {}
    <2>1. \A x \in S : Above(x) \in SUBSET Nodes
      OBVIOUS
    <2> HIDE DEF Above
    <2>2. \A x \in S : Above(x) \in FiniteSubsetsOf(Nodes)
      BY <1>2, <2>1, Zenon DEF FiniteSubsetsOf
    <2>3. T \subseteq FiniteSubsetsOf(Nodes)
      BY <2>2
    <2>4. PICK x : x \in S
      OBVIOUS
    <2>5. Above(x) \in T
      BY <2>4
    <2> QED
      BY <2>3, <2>5
  <1>4. PICK U \in T : \A V \in T : ~ (<<V, U>> \in StrictSubsetOrdering(Nodes))
    BY <1>3, FS_StrictSubsetOrderingWellFounded, WFMin
  <1>5. PICK x \in S : U = Above(x)
    BY <1>4
  <1>6. ASSUME NEW y \in S, <<y, x>> \in newer
        PROVE  FALSE
    <2>1. Above(y) \subseteq Above(x) /\ y \in Above(x) /\ y \notin Above(y)
      BY <1>6 DEF Ordered
    <2>2. <<Above(y), U>> \in StrictSubsetOrdering(Nodes)
      BY <1>3, <1>5, <2>1 DEF StrictSubsetOrdering, FiniteSubsetsOf
    <2> QED
      BY <1>4, <2>2
  <1> QED
    BY <1>6

-----------------------------------------------------------------------------
(* The list operations.                                                    *)

\* get_node_from_frag_pool keeps the two lists and the order: the head of the
\* free list becomes the head of the used list.
LEMMA TakeKeeps ==
    ASSUME TypeOK, ListInv, CanTake, Take
    PROVE  ListInv'
  <1> DEFINE n == free_head
             m == next[n]
             free == Nodes \ used
  <1>0. used \subseteq Nodes /\ Null \notin Nodes /\ Link = Nodes \cup {Null}
    BY Links DEF TypeOK
  <1>1. n \in free /\ m \in free /\ m # n /\ n # Null /\ m # Null
    BY DEF ListInv, Chain, CanTake, Ordered, TypeOK, Null, Nodes, Link
  <1>2. /\ next' = [next EXCEPT ![n] = used_head]
        /\ pre' = [k \in Nodes |-> IF k = m THEN Null
                                   ELSE IF k = used_head THEN n ELSE pre[k]]
        /\ used' = used \cup {n} /\ Nodes \ used' = free \ {n}
        /\ used_head' = n /\ free_head' = m /\ free_tail' = free_tail
        /\ used_tail' = IF used_tail = Null THEN n ELSE used_tail
    BY DEF Take
  <1>3. pre[n] = Null /\ pre[m] = n /\ \A k \in free : next[k] = m => k = n
    BY <1>1 DEF ListInv, Chain
  <1>4. used_head \in used \cup {Null} /\ used_head # n /\ used_head # m
    BY <1>1 DEF ListInv, Chain
  <1>a. \A k \in used : /\ k # n /\ next'[k] = next[k]
                        /\ pre'[k] = IF k = used_head THEN n ELSE pre[k]
    BY <1>1, <1>2, <1>4 DEF TypeOK
  <1>b. next'[n] = used_head /\ pre'[n] = Null
    BY <1>1, <1>2, <1>3, <1>4 DEF TypeOK
  <1>5. Chain(used, used_head, used_tail)'
    <2>1. /\ used_head = Null <=> used = {}
          /\ used_tail = Null <=> used = {}
          /\ used_tail \in used \cup {Null}
          /\ \A k \in used :
                /\ next[k] \in used \cup {Null} /\ pre[k] \in used \cup {Null}
                /\ next[k] = Null <=> k = used_tail
                /\ pre[k] = Null <=> k = used_head
                /\ next[k] # Null => pre[next[k]] = k
                /\ pre[k] # Null => next[pre[k]] = k
      BY DEF ListInv, Chain
    <2>2. ASSUME NEW k \in used
          PROVE  /\ next'[k] \in used' \cup {Null} /\ pre'[k] \in used' \cup {Null}
                 /\ next'[k] = Null <=> k = used_tail'
                 /\ pre'[k] = Null <=> k = used_head'
                 /\ next'[k] # Null => pre'[next'[k]] = k
                 /\ pre'[k] # Null => next'[pre'[k]] = k
      <3>1. next'[k] # Null => pre'[next'[k]] = k
        BY <1>0, <1>1, <1>4, <1>a, <2>1
      <3>2. pre'[k] # Null => next'[pre'[k]] = k
        BY <1>0, <1>1, <1>4, <1>a, <1>b, <2>1
      <3> QED
        BY <1>0, <1>1, <1>2, <1>4, <1>a, <2>1, <3>1, <3>2
    <2>3. /\ next'[n] \in used' \cup {Null} /\ pre'[n] \in used' \cup {Null}
          /\ next'[n] = Null <=> n = used_tail'
          /\ pre'[n] = Null <=> n = used_head'
          /\ next'[n] # Null => pre'[next'[n]] = n
          /\ pre'[n] # Null => next'[pre'[n]] = n
      BY <1>1, <1>2, <1>4, <1>a, <1>b, <2>1
    <2> QED
      BY <1>1, <1>2, <2>1, <2>2, <2>3 DEF Chain
  <1>6. Chain(Nodes \ used, free_head, free_tail)'
    <2>1. /\ free_tail \in free
          /\ \A k \in free :
                /\ next[k] \in free \cup {Null} /\ pre[k] \in free \cup {Null}
                /\ next[k] = Null <=> k = free_tail
                /\ pre[k] = Null <=> k = n
                /\ next[k] # Null => pre[next[k]] = k
                /\ pre[k] # Null => next[pre[k]] = k
      BY <1>1 DEF ListInv, Chain
    <2>2. \A k \in free \ {n} : next'[k] = next[k] /\ pre'[k] = IF k = m THEN Null ELSE pre[k]
      <3>1. \A k \in free : k # used_head
        BY <1>0, <1>4
      <3>2. \A k \in Nodes \ {n} : next'[k] = next[k]
        BY <1>2 DEF TypeOK
      <3>3. \A k \in Nodes \ {used_head} : pre'[k] = IF k = m THEN Null ELSE pre[k]
        BY <1>2
      <3> QED
        BY <3>1, <3>2, <3>3
    <2>3. free_tail # n
      BY <2>1, <1>1
    <2>4. ASSUME NEW k \in free \ {n}
          PROVE  /\ next'[k] \in (free \ {n}) \cup {Null} /\ pre'[k] \in (free \ {n}) \cup {Null}
                 /\ next'[k] = Null <=> k = free_tail
                 /\ pre'[k] = Null <=> k = m
                 /\ next'[k] # Null => pre'[next'[k]] = k
                 /\ pre'[k] # Null => next'[pre'[k]] = k
      <3>1. next'[k] \in (free \ {n}) \cup {Null} /\ (next'[k] = Null <=> k = free_tail)
        <4>1. k \in free /\ next'[k] = next[k]
          BY <2>2, Zenon
        <4>2. next[k] \in free \cup {Null} /\ (next[k] = Null <=> k = free_tail)
          BY <2>1, <4>1, Zenon
        <4>3. next[k] # Null => pre[next[k]] = k
          BY <2>1, <4>1, Zenon
        <4>4. next[k] # n
          BY <1>0, <1>1, <1>3, <4>1, <4>3
        <4> QED
          BY <4>1, <4>2, <4>4
      <3>2. pre'[k] \in (free \ {n}) \cup {Null} /\ (pre'[k] = Null <=> k = m)
        BY <1>1, <1>3, <2>1, <2>2
      <3>3. next'[k] # Null => pre'[next'[k]] = k
        BY <1>1, <1>3, <2>1, <2>2, <3>1
      <3>4. pre'[k] # Null => next'[pre'[k]] = k
        BY <1>1, <1>3, <2>1, <2>2, <3>2
      <3> QED
        BY <3>1, <3>2, <3>3, <3>4
    <2>5. m \in free \ {n} /\ free_tail \in free \ {n}
      BY <1>1, <2>1, <2>3
    <2> QED
      BY <1>1, <1>2, <2>4, <2>5 DEF Chain
  <1>7. used' # Nodes
    BY <1>1, <1>2
  <1>8. Ordered'
    <2>1. next' \in [Nodes -> Link] /\ next'[n] # n /\ n \in Nodes
      BY <1>1, <1>2, <1>4 DEF TypeOK
    <2>2. ASSUME NEW k \in Nodes \ {n}, next'[k] # Null
          PROVE  next'[k] # n /\ <<k, next'[k]>> \in newer
      BY <1>1, <1>2, <1>3, <2>2 DEF ListInv, Chain, Ordered, TypeOK, Null, Nodes
    <2>3. NewestIs(n)
      BY DEF Take
    <2> QED
      BY <2>1, <2>2, <2>3, OrderKept DEF ListInv
  <1> QED
    BY <1>5, <1>6, <1>7, <1>8 DEF ListInv

\* Putting a node back keeps the lists, also when the node is not in the
\* used list any more, as long as the stores do not go through NULL.
LEMMA GiveBackKeeps ==
    ASSUME TypeOK, ListInv, NEW n \in Nodes, CanUnlink(n), GiveBack(n)
    PROVE  ListInv'
  <1> DEFINE free == Nodes \ used
             l == pre[n]
             r == next[n]
  <1>0. used \subseteq Nodes /\ Null \notin Nodes /\ Link = Nodes \cup {Null}
    BY Links DEF TypeOK
  <1>1. /\ l # n /\ r # n /\ n # Null
        /\ free_head \in free /\ free_tail \in free
        /\ free_head # Null
    <2>1. free_head \in free /\ free_tail \in free /\ n # Null /\ free_head # Null
      BY <1>0 DEF ListInv, Chain
    <2>2. \A m \in Nodes : next[m] # m
      BY <1>0 DEF ListInv, Ordered
    <2>3. l # n
      <3>1. l # Null => next[l] = n /\ l \in Nodes
        BY <1>0 DEF ListInv, Chain, TypeOK
      <3> QED
        BY <2>1, <2>2, <3>1
    <2> QED
      BY <2>1, <2>2, <2>3
  <1>2. /\ used' = used \ {n} /\ Nodes \ used' = free \cup {n}
        /\ free_head' = n /\ free_tail' = free_tail
        /\ used_head' = IF used_head = n THEN r ELSE used_head
        /\ used_tail' = IF used_tail = n THEN l ELSE used_tail
        /\ next' = [NextWithout(n) EXCEPT ![n] = free_head]
        /\ pre' = [m \in Nodes |-> IF m = free_head THEN n
                                   ELSE IF m = n THEN Null ELSE PreWithout(n)[m]]
    BY DEF GiveBack
  <1>3. /\ NextWithout(n) = [m \in Nodes |->
                IF used_head # n /\ m = l THEN r ELSE next[m]]
        /\ PreWithout(n) = [m \in Nodes |->
                IF used_tail # n /\ m = r THEN l ELSE pre[m]]
    BY DEF NextWithout, PreWithout
  <1>4. /\ next' = [m \in Nodes |-> IF m = n THEN free_head
                        ELSE IF used_head # n /\ m = l THEN r ELSE next[m]]
        /\ pre' = [m \in Nodes |-> IF m = free_head THEN n ELSE IF m = n THEN Null
                        ELSE IF used_tail # n /\ m = r THEN l ELSE pre[m]]
    BY <1>2, <1>3
  <1>5. next' \in [Nodes -> Link] /\ pre' \in [Nodes -> Link]
    <2>1. free_head \in Link /\ Null \in Link /\ n \in Link
      BY Links DEF TypeOK
    <2>2. \A m \in Nodes : next[m] \in Link /\ pre[m] \in Link
      BY DEF TypeOK
    <2>3. l \in Link /\ r \in Link
      BY <2>2
    <2> QED
      BY <1>4, <2>1, <2>2, <2>3
  <1>6. ASSUME n \in used
        PROVE  (Chain(used, used_head, used_tail) /\ Chain(Nodes \ used, free_head, free_tail))'
    <2>1. /\ n # free_head
          /\ l \in used \cup {Null} /\ r \in used \cup {Null}
          /\ l = Null <=> n = used_head
          /\ r = Null <=> n = used_tail
          /\ l # Null => next[l] = n
          /\ r # Null => pre[r] = n
      BY <1>1, <1>6 DEF ListInv, Chain
    <2>2. l # Null => r # l
      BY <1>0, <1>1, <1>6, <2>1 DEF ListInv, Ordered, TypeOK
    <2>3. \A m \in used \ {n} :
             /\ next'[m] = IF m = l THEN r ELSE next[m]
             /\ pre'[m] = IF m = r THEN l ELSE pre[m]
      BY <1>1, <1>4, <1>6, <2>1, <1>0
    <2>4. \A m \in free : /\ next'[m] = next[m]
                          /\ pre'[m] = IF m = free_head THEN n ELSE pre[m]
      BY <1>1, <1>4, <1>6, <2>1, <1>0
    <2>5. next'[n] = free_head /\ pre'[n] = Null
      BY <1>4, <2>1
    <2>6. Chain(used, used_head, used_tail)'
      <3>0. /\ used' = used \ {n} /\ n \in used
            /\ used_head' = IF used_head = n THEN r ELSE used_head
            /\ used_tail' = IF used_tail = n THEN l ELSE used_tail
            /\ n # Null /\ l # n /\ r # n /\ Null \notin used
        BY <1>0, <1>1, <1>2, <1>6
      <3>1. /\ used_head = Null <=> used = {}
            /\ used_head \in used \cup {Null} /\ used_tail \in used \cup {Null}
            /\ \A m \in used :
                  /\ next[m] \in used \cup {Null} /\ pre[m] \in used \cup {Null}
                  /\ next[m] = Null <=> m = used_tail
                  /\ pre[m] = Null <=> m = used_head
                  /\ next[m] # Null => pre[next[m]] = m
                  /\ pre[m] # Null => next[pre[m]] = m
        BY DEF ListInv, Chain
      <3>2. /\ used_head' \in used' \cup {Null} /\ used_tail' \in used' \cup {Null}
            /\ used_head' = Null <=> used' = {}
            /\ used_tail' = Null <=> used' = {}
        <4>1. ASSUME n = used_head, n = used_tail, used \ {n} # {}
              PROVE  FALSE
          <5>1. PICK x \in used \ {n} : \A y \in used \ {n} : <<y, x>> \notin newer
            BY <1>0, <4>1, NewestExists DEF ListInv, TypeOK
          <5>2. pre[x] \in used \ {n} /\ next[pre[x]] = x
            BY <2>1, <3>0, <3>1, <4>1, <5>1
          <5>3. <<pre[x], x>> \in newer
            BY <1>0, <5>2, <3>0 DEF ListInv, Ordered
          <5> QED
            BY <5>1, <5>2, <5>3
        <4>2. used_tail = Null <=> used = {}
          BY DEF ListInv, Chain
        <4>3. used_head' \in used' \cup {Null} /\ used_tail' \in used' \cup {Null}
          BY <2>1, <3>0, <3>1
        <4>4. used_head' = Null <=> used' = {}
          <5>1. CASE used_head = n
            BY <2>1, <3>0, <3>1, <4>1, <5>1
          <5>2. CASE used_head # n
            BY <3>0, <3>1, <5>2
          <5> QED
            BY <5>1, <5>2
        <4>5. used_tail' = Null <=> used' = {}
          <5>1. CASE used_tail = n
            BY <2>1, <3>0, <3>1, <4>1, <5>1
          <5>2. CASE used_tail # n
            BY <3>0, <3>1, <4>2, <5>2
          <5> QED
            BY <5>1, <5>2
        <4> QED
          BY <4>3, <4>4, <4>5
      <3>3. ASSUME NEW m \in used \ {n}
            PROVE  /\ next'[m] \in used' \cup {Null} /\ pre'[m] \in used' \cup {Null}
                   /\ next'[m] = Null <=> m = used_tail'
                   /\ pre'[m] = Null <=> m = used_head'
                   /\ next'[m] # Null => pre'[next'[m]] = m
                   /\ pre'[m] # Null => next'[pre'[m]] = m
        <4>1. next'[m] \in used' \cup {Null} /\ pre'[m] \in used' \cup {Null}
          BY <3>0, <2>1, <2>3, <3>1
        <4>2. next'[m] = Null <=> m = used_tail'
          BY <3>0, <2>1, <2>2, <2>3, <3>1
        <4>3. pre'[m] = Null <=> m = used_head'
          BY <3>0, <2>1, <2>2, <2>3, <3>1
        <4>4. next'[m] # Null => pre'[next'[m]] = m
          BY <3>0, <2>1, <2>2, <2>3, <3>1
        <4>5. pre'[m] # Null => next'[pre'[m]] = m
          BY <3>0, <2>1, <2>2, <2>3, <3>1
        <4> QED
          BY <4>1, <4>2, <4>3, <4>4, <4>5
      <3> QED
        BY <1>2, <3>2, <3>3 DEF Chain
    <2>a. /\ free_tail \in free
          /\ \A m \in free :
                /\ next[m] \in free \cup {Null} /\ pre[m] \in free \cup {Null}
                /\ next[m] = Null <=> m = free_tail
                /\ pre[m] = Null <=> m = free_head
                /\ next[m] # Null => pre[next[m]] = m
                /\ pre[m] # Null => next[pre[m]] = m
      BY <1>1 DEF ListInv, Chain
    <2>b. /\ next'[n] # Null /\ next'[n] \in free /\ n # free_tail
          /\ pre'[next'[n]] = n
      BY <1>0, <1>1, <1>6, <2>1, <2>4, <2>5
    <2>c. ASSUME NEW m \in free
          PROVE  /\ next'[m] \in free \cup {n, Null} /\ pre'[m] \in free \cup {n, Null}
                 /\ next'[m] = Null <=> m = free_tail
                 /\ pre'[m] # Null
                 /\ next'[m] # Null => pre'[next'[m]] = m
                 /\ next'[pre'[m]] = m
      <3>1. /\ next'[m] \in free \cup {n, Null} /\ pre'[m] \in free \cup {n, Null}
            /\ next'[m] = Null <=> m = free_tail
            /\ pre'[m] # Null
        BY <1>0, <1>1, <1>6, <2>1, <2>4, <2>a
      <3>2. next'[m] # Null => pre'[next'[m]] = m
        BY <1>0, <1>1, <1>6, <2>1, <2>4, <2>a, <2>5
      <3>3. next'[pre'[m]] = m
        BY <1>0, <1>1, <1>6, <2>1, <2>4, <2>a, <2>5
      <3> QED
        BY <3>1, <3>2, <3>3
    <2>7. Chain(Nodes \ used, free_head, free_tail)'
      BY <1>0, <1>1, <1>2, <1>6, <2>a, <2>b, <2>c, <2>5 DEF Chain
    <2> QED
      BY <2>6, <2>7
  <1>7. ASSUME n \notin used
        PROVE  (Chain(used, used_head, used_tail) /\ Chain(Nodes \ used, free_head, free_tail))'
    <2>1. /\ used_head # n /\ used_tail # n
          /\ l # Null /\ r # Null
          /\ l \in free /\ r \in free
          /\ next[l] = n /\ pre[r] = n
          /\ n # free_head /\ n # free_tail
      BY <1>1, <1>7 DEF ListInv, Chain, CanUnlink
    <2>2. r # l
      BY <1>0, <1>1, <1>7, <2>1 DEF ListInv, Ordered, TypeOK
    <2>3. \A m \in free \ {n} :
             /\ next'[m] = IF m = l THEN r ELSE next[m]
             /\ pre'[m] = IF m = free_head THEN n ELSE IF m = r THEN l ELSE pre[m]
      BY <1>1, <1>4, <1>7, <2>1
    <2>4. \A m \in used : next'[m] = next[m] /\ pre'[m] = pre[m]
      BY <1>1, <1>4, <1>7, <2>1 DEF TypeOK
    <2>5. next'[n] = free_head /\ pre'[n] = Null
      BY <1>4, <2>1
    <2>6. Chain(used, used_head, used_tail)'
      <3>1. used' = used /\ used_head' = used_head /\ used_tail' = used_tail
        BY <1>2, <1>7, <2>1
      <3> QED
        BY <1>0, <2>4, <3>1 DEF ListInv, Chain
    <2>a. /\ free_tail \in free
          /\ \A m \in free :
                /\ next[m] \in free \cup {Null} /\ pre[m] \in free \cup {Null}
                /\ next[m] = Null <=> m = free_tail
                /\ pre[m] = Null <=> m = free_head
                /\ next[m] # Null => pre[next[m]] = m
                /\ pre[m] # Null => next[pre[m]] = m
      BY <1>1 DEF ListInv, Chain
    <2>b. /\ next'[n] # Null /\ next'[n] \in free /\ n # free_tail
          /\ pre'[next'[n]] = n
      BY <1>0, <1>1, <1>7, <2>1, <2>3, <2>5
    <2>c. ASSUME NEW m \in free \ {n}
          PROVE  /\ next'[m] \in free \cup {n, Null} /\ pre'[m] \in free \cup {n, Null}
                 /\ next'[m] = Null <=> m = free_tail
                 /\ pre'[m] # Null
                 /\ next'[m] # Null => pre'[next'[m]] = m
                 /\ next'[pre'[m]] = m
      <3>1. /\ next'[m] \in free \cup {n, Null} /\ pre'[m] \in free \cup {n, Null}
            /\ next'[m] = Null <=> m = free_tail
            /\ pre'[m] # Null
        BY <1>0, <1>1, <1>7, <2>1, <2>3, <2>a
      <3>2. next'[m] # Null => pre'[next'[m]] = m
        BY <1>0, <1>1, <1>7, <2>1, <2>2, <2>3, <2>a, <2>5
      <3>3. next'[pre'[m]] = m
        BY <1>0, <1>1, <1>7, <2>1, <2>2, <2>3, <2>a, <2>5
      <3> QED
        BY <3>1, <3>2, <3>3
    <2>7. Chain(Nodes \ used, free_head, free_tail)'
      BY <1>0, <1>1, <1>2, <1>7, <2>a, <2>b, <2>c, <2>5 DEF Chain
    <2> QED
      BY <2>6, <2>7
  <1>8. used' # Nodes
    BY <1>2
  <1>9. Ordered'
    <2>1. next'[n] # n
      <3>1. next'[n] = free_head
        BY <1>4
      <3>2. CASE n \in used
        BY <3>1, <3>2, <1>1
      <3>3. CASE n \notin used
        <4>1. used_head # n
          BY <1>1, <3>3 DEF ListInv, Chain
        <4>2. pre[n] # Null
          BY <4>1 DEF CanUnlink
        <4>3. pre[n] = Null <=> n = free_head
          BY <3>3 DEF ListInv, Chain
        <4> QED
          BY <3>1, <4>2, <4>3
      <3> QED
        BY <3>2, <3>3
    <2>2. ASSUME NEW m \in Nodes \ {n}, next'[m] # Null
          PROVE  next'[m] # n /\ <<m, next'[m]>> \in newer
      <3>1. CASE used_head # n /\ m = l
        <4>1. next'[m] = r /\ next[m] = n /\ r # Null /\ r \in Nodes
          BY <1>0, <1>4, <2>2, <3>1 DEF ListInv, Chain, TypeOK
        <4> QED
          BY <1>1, <3>1, <4>1 DEF ListInv, Ordered
      <3>2. CASE ~(used_head # n /\ m = l)
        <4>1. next'[m] = next[m]
          BY <1>4, <3>2
        <4>2. next[m] # n
          BY <1>0, <3>2, <1>1 DEF ListInv, Chain, CanUnlink
        <4> QED
          BY <4>1, <4>2, <2>2 DEF ListInv, Ordered
      <3> QED
        BY <3>1, <3>2
    <2>3. NewestIs(n)
      BY DEF GiveBack
    <2> QED
      BY <1>5, <2>1, <2>2, <2>3, OrderKept DEF ListInv
  <1> QED
    BY <1>6, <1>7, <1>8, <1>9 DEF ListInv

-----------------------------------------------------------------------------
(* The types and the walk.                                                 *)

listTypes ==
    /\ free_head \in Link /\ free_tail \in Link /\ free_nr \in Int
    /\ used_head \in Link /\ used_tail \in Link /\ used_nr \in Nat
    /\ next \in [Nodes -> Link] /\ pre \in [Nodes -> Link]
    /\ used \in SUBSET Nodes /\ newer \in SUBSET (Nodes \X Nodes)

\* The stores of get_node_from_frag_pool are nodes, links and a count.
LEMMA TakeTypes ==
    ASSUME TypeOK, free_head \in Nodes, Take
    PROVE  listTypes'
  BY Links DEF TypeOK, Take, NewestIs, listTypes

\* So are the stores of put_to_frag_pool.
LEMMA GiveBackTypes ==
    ASSUME TypeOK, NEW n \in Nodes, GiveBack(n)
    PROVE  /\ listTypes'
           /\ key' \in [Nodes -> Keys \cup {None}]
           /\ buf' \in [Nodes -> Buffers \cup {None}]
  <1>1. /\ next' = [m \in Nodes |-> IF m = n THEN free_head
                        ELSE IF used_head # n /\ m = pre[n] THEN next[n] ELSE next[m]]
        /\ pre' = [m \in Nodes |-> IF m = free_head THEN n ELSE IF m = n THEN Null
                        ELSE IF used_tail # n /\ m = next[n] THEN pre[n] ELSE pre[m]]
    BY DEF GiveBack, NextWithout, PreWithout
  <1>2. next' \in [Nodes -> Link] /\ pre' \in [Nodes -> Link]
    BY <1>1, Links DEF TypeOK
  <1>3. used_nr' \in Nat
    BY DEF TypeOK, GiveBack, OneLess
  <1>4. newer' \in SUBSET (Nodes \X Nodes)
    BY DEF TypeOK, GiveBack, NewestIs
  <1>5. /\ free_head' \in Link /\ free_tail' \in Link /\ free_nr' \in Int
        /\ used_head' \in Link /\ used_tail' \in Link /\ used' \in SUBSET Nodes
    BY Links DEF TypeOK, GiveBack
  <1>6. /\ key' \in [Nodes -> Keys \cup {None}]
        /\ buf' \in [Nodes -> Buffers \cup {None}]
    BY DEF TypeOK, GiveBack
  <1> QED
    BY <1>2, <1>3, <1>4, <1>5, <1>6 DEF listTypes

\* The invariant holds of the chain that init_frag_pool builds.
LEMMA InitInv == Init => IInv
  <1> SUFFICES ASSUME Init PROVE IInv
    OBVIOUS
  <1>1. TypeOK
    <2>1. next \in [Nodes -> Link] /\ pre \in [Nodes -> Link]
      BY DEF Init, Nodes, Link, Null
    <2>2. free_head \in Link /\ free_tail \in Link /\ free_nr \in Int
      BY DEF Init, Link
    <2>3. /\ used_head \in Link /\ used_tail \in Link /\ cur \in Link
          /\ frag \in [Parsers -> Link]
      BY Links DEF Init
    <2> QED
      BY <2>1, <2>2, <2>3 DEF Init, TypeOK
  <1>2. Chain(used, used_head, used_tail)
    BY DEF Init, Chain
  <1>3. Chain(Nodes \ used, free_head, free_tail)
    <2>1. /\ used = {} /\ Nodes \ used = Nodes /\ free_head = 1 /\ free_tail = NodeNum
          /\ \A n \in Nodes : /\ next[n] = IF n = NodeNum THEN Null ELSE n + 1
                              /\ pre[n] = n - 1
      BY DEF Init
    <2>2. 1 \in Nodes /\ NodeNum \in Nodes /\ Nodes # {}
      BY DEF Nodes
    <2>3. ASSUME NEW n \in Nodes
          PROVE  /\ next[n] \in Nodes \cup {Null} /\ pre[n] \in Nodes \cup {Null}
                 /\ next[n] = Null <=> n = NodeNum
                 /\ pre[n] = Null <=> n = 1
                 /\ next[n] # Null => pre[next[n]] = n
                 /\ pre[n] # Null => next[pre[n]] = n
      BY <2>1 DEF Nodes, Null
    <2> QED
      BY <2>1, <2>2, <2>3, Links DEF Chain
  <1>4. Ordered
    BY DEF Init, Ordered, Nodes, Null
  <1>5. used # Nodes
    BY DEF Init, Nodes
  <1> QED
    BY <1>1, <1>2, <1>3, <1>4, <1>5 DEF IInv, ListInv, Held, WalkInUsedList, Init

\* A step that takes or gives back no node leaves the lists alone.
LEMMA ListsUnchanged ==
    ASSUME ListInv, UNCHANGED listVars
    PROVE  ListInv'
  BY DEF ListInv, Chain, Ordered, listVars

-----------------------------------------------------------------------------
(* The invariant, action by action.                                        *)

\* A step of find_node_from_frag_pool keeps the invariant.
LEMMA FindInv ==
    ASSUME IInv, NEW p \in Parsers, Find(p)
    PROVE  IInv'
  <1>1. PICK k \in Keys, part \in {"first", "last"}, b \in Buffers :
            /\ Arrive(p, k, part, b)
            /\ FindMiss(p, k, part, b) \/ FindHit(p, k, part, b) \/ FindSpin(p, k, part, b)
    BY DEF Find, FindMiss, FindHit, FindSpin
  <1>2. ListInv'
    BY <1>1, ListsUnchanged DEF IInv, Arrive
  <1>3. TypeOK'
    <2>1. /\ pkt' \in [Parsers -> Packet \cup {None}]
          /\ busy' \in SUBSET Buffers /\ arrived' \in 0 .. MaxPackets
      BY <1>1 DEF IInv, TypeOK, Arrive, Packet
    <2>2. /\ frag' \in [Parsers -> Link] /\ lock' \in Parsers \cup {None}
          /\ pc' \in [Parsers -> {"idle", "spin", "get", "fillKey", "fillDesc",
                                  "merge", "put", "drop", "walk", "dead"}]
      BY <1>1 DEF IInv, TypeOK, FindMiss, FindHit, FindSpin, Go
    <2> QED
      BY <1>1, <2>1, <2>2 DEF IInv, TypeOK, Arrive, listVars, contentVars
  <1>4. Held'
    <2>1. pkt'[p] \in Packet
      BY <1>1 DEF IInv, TypeOK, Arrive, Packet
    <2>2. pc'[p] = "merge" => frag'[p] \in Nodes
      BY <1>1, Links DEF IInv, TypeOK, FindMiss, FindHit, FindSpin, Go
    <2>3. pc'[p] \in {"get", "merge", "spin"}
      BY <1>1 DEF IInv, TypeOK, FindMiss, FindHit, FindSpin, Go
    <2>4. \A q \in Parsers \ {p} :
             pc'[q] = pc[q] /\ frag'[q] = frag[q] /\ pkt'[q] = pkt[q]
      BY <1>1 DEF IInv, TypeOK, FindMiss, FindHit, FindSpin, Go, Arrive
    <2> QED
      BY <2>1, <2>2, <2>3, <2>4 DEF IInv, Held
  <1>5. WalkInUsedList'
    BY <1>1 DEF IInv, TypeOK, WalkInUsedList, Arrive, FindMiss, FindHit, FindSpin, Go,
                listVars
  <1> QED
    BY <1>2, <1>3, <1>4, <1>5 DEF IInv

\* A step of process_ip_layer with a node, the taking and the putting back
\* of one included, keeps the invariant.
LEMMA HandleInv ==
    ASSUME IInv, NEW p \in Parsers, Handle(p)
    PROVE  IInv'
  <1> USE DEF IInv
  <1> DEFINE Places == {"idle", "spin", "get", "fillKey", "fillDesc", "merge",
                        "put", "drop", "walk", "dead"}
  <1>0. pc[p] # "walk"
    BY DEF Handle, Get, GetNone, FillKey, FillDesc, Merge, Put, PutCrash, Drop, DropCrash
  <1>1. CASE Get(p)
    <2>1. free_head \in Nodes
      BY <1>1 DEF Get, CanTake, ListInv, Chain, TypeOK
    <2>2. ListInv' /\ listTypes'
      BY <1>1, <2>1, TakeKeeps, TakeTypes DEF Get
    <2>3. frag' \in [Parsers -> Link] /\ pc' \in [Parsers -> Places]
      BY <1>1, <2>1, Links DEF Get, TypeOK, Go
    <2>4. TypeOK'
      BY <1>1, <2>2, <2>3 DEF Get, TypeOK, listTypes, contentVars
    <2>5. Held'
      BY <1>1, <2>1 DEF Get, Held, TypeOK, Go
    <2>6. WalkInUsedList'
      BY <1>1 DEF Get, WalkInUsedList, TypeOK, Go
    <2> QED
      BY <2>2, <2>4, <2>5, <2>6
  <1>2. CASE Put(p)
    <2>1. frag[p] \in Nodes
      BY <1>2 DEF Put, Held
    <2>2. ListInv' /\ listTypes' /\ key' \in [Nodes -> Keys \cup {None}]
          /\ buf' \in [Nodes -> Buffers \cup {None}]
      BY <1>2, <2>1, GiveBackKeeps, GiveBackTypes DEF Put
    <2>3. /\ frag' \in [Parsers -> Link] /\ pc' \in [Parsers -> Places]
          /\ pkt' \in [Parsers -> Packet \cup {None}]
          /\ hold' \in [Parsers -> Buffers \cup {None}]
          /\ busy' \in SUBSET Buffers
      BY <1>2, Links DEF Put, TypeOK, Go, Leave
    <2>4. TypeOK'
      BY <1>2, <2>2, <2>3 DEF Put, TypeOK, listTypes
    <2>5. Held'
      BY <1>2 DEF Put, Held, TypeOK, Go, Leave
    <2>6. WalkInUsedList'
      BY <1>2 DEF Put, WalkInUsedList, TypeOK, Go, Leave
    <2> QED
      BY <2>2, <2>4, <2>5, <2>6
  <1>3. CASE FillKey(p) \/ FillDesc(p)
    <2>1. ListInv'
      BY <1>3, ListsUnchanged DEF FillKey, FillDesc
    <2>2. frag[p] \in Nodes /\ pkt[p] \in Packet
      BY <1>3 DEF FillKey, FillDesc, Held
    <2>3. /\ key' \in [Nodes -> Keys \cup {None}]
          /\ buf' \in [Nodes -> Buffers \cup {None}]
      BY <1>3, <2>2 DEF FillKey, FillDesc, TypeOK, Packet
    <2>4. /\ frag' \in [Parsers -> Link] /\ pc' \in [Parsers -> Places]
          /\ pkt' \in [Parsers -> Packet \cup {None}]
          /\ hold' \in [Parsers -> Buffers \cup {None}]
          /\ busy' \in SUBSET Buffers
      BY <1>3, Links DEF FillKey, FillDesc, TypeOK, Go, Leave
    <2>5. TypeOK'
      BY <1>3, <2>3, <2>4 DEF FillKey, FillDesc, TypeOK, listVars
    <2>6. Held'
      BY <1>3, <2>2 DEF FillKey, FillDesc, Held, TypeOK, Go, Leave
    <2>7. WalkInUsedList'
      BY <1>3, <1>0 DEF FillKey, FillDesc, WalkInUsedList, TypeOK, Go, Leave, listVars
    <2> QED
      BY <2>1, <2>5, <2>6, <2>7
  <1>4. CASE GetNone(p) \/ Merge(p) \/ PutCrash(p) \/ Drop(p) \/ DropCrash(p)
    <2>1. ListInv'
      BY <1>4, ListsUnchanged DEF GetNone, Merge, PutCrash, Drop, DropCrash
    <2>2. pc[p] # "get" => frag[p] \in Nodes
      BY <1>4 DEF GetNone, Merge, PutCrash, Drop, DropCrash, Held
    <2>3. /\ frag' \in [Parsers -> Link] /\ pc' \in [Parsers -> Places]
          /\ pkt' \in [Parsers -> Packet \cup {None}]
          /\ busy' \in SUBSET Buffers /\ lock' \in Parsers \cup {None}
      BY <1>4, Links DEF GetNone, Merge, PutCrash, Drop, DropCrash, TypeOK, Go, Leave
    <2>4. hold' \in [Parsers -> Buffers \cup {None}]
      BY <1>4, <2>2 DEF GetNone, Merge, PutCrash, Drop, DropCrash, TypeOK, Leave
    <2>5. TypeOK'
      BY <1>4, <2>3, <2>4 DEF GetNone, Merge, PutCrash, Drop, DropCrash, TypeOK,
                              listVars, contentVars
    <2>6. Held'
      BY <1>4, <2>2 DEF GetNone, Merge, PutCrash, Drop, DropCrash, Held, TypeOK, Go, Leave
    <2>7. WalkInUsedList'
      BY <1>4, <1>0 DEF GetNone, Merge, PutCrash, Drop, DropCrash, WalkInUsedList,
                        TypeOK, Go, Leave, listVars
    <2> QED
      BY <2>1, <2>5, <2>6, <2>7
  <1> QED
    BY <1>1, <1>2, <1>3, <1>4 DEF Handle

\* A step of the walk of timeout_node_from_frag_pool keeps the invariant.
LEMMA ExpireInv ==
    ASSUME IInv, Expire
    PROVE  IInv'
  <1> USE DEF IInv
  <1> DEFINE Places == {"idle", "spin", "get", "fillKey", "fillDesc", "merge",
                        "put", "drop", "walk", "dead"}
  <1>1. CASE ExpireFree
    <2>1. cur \in used /\ cur \in Nodes
      BY <1>1 DEF ExpireFree, WalkInUsedList, TypeOK
    <2>2. ListInv' /\ listTypes' /\ key' \in [Nodes -> Keys \cup {None}]
          /\ buf' \in [Nodes -> Buffers \cup {None}]
      BY <1>1, <2>1, GiveBackKeeps, GiveBackTypes DEF ExpireFree
    <2>3. cur' \in (used \ {cur}) \cup {Null}
      BY <1>1, <2>1, Links DEF ExpireFree, AfterFree, ListInv, Chain, Ordered
    <2>4. TypeOK'
      BY <1>1, <2>2, <2>3, Links DEF ExpireFree, TypeOK, listTypes, parserVars
    <2>5. Held'
      BY <1>1 DEF ExpireFree, Held, parserVars
    <2>6. WalkInUsedList'
      BY <1>1, <2>3 DEF ExpireFree, GiveBack, WalkInUsedList, parserVars
    <2> QED
      BY <2>2, <2>4, <2>5, <2>6
  <1>2. CASE ExpireStart \/ ExpireKeep \/ ExpireCrash \/ ExpireEnd
    <2>1. ListInv'
      BY <1>2, ListsUnchanged DEF ExpireStart, ExpireKeep, ExpireCrash, ExpireEnd
    <2>2. /\ cur' \in Link /\ lock' \in Parsers \cup {None}
          /\ pc' \in [Parsers -> Places]
      BY <1>2, Links DEF ExpireStart, ExpireKeep, ExpireCrash, ExpireEnd, TypeOK, Go,
                         parserVars
    <2>3. TypeOK'
      BY <1>2, <2>2 DEF ExpireStart, ExpireKeep, ExpireCrash, ExpireEnd, TypeOK,
                        listVars, contentVars, parserVars
    <2>4. Held'
      BY <1>2 DEF ExpireStart, ExpireKeep, ExpireCrash, ExpireEnd, Held, TypeOK, Go,
                  parserVars
    <2>5. WalkInUsedList'
      BY <1>2, Links DEF ExpireStart, ExpireKeep, ExpireCrash, ExpireEnd, TypeOK, Go,
                  WalkInUsedList, ListInv, Chain, listVars, parserVars
    <2> QED
      BY <2>1, <2>3, <2>4, <2>5
  <1> QED
    BY <1>1, <1>2 DEF Expire

\* The invariant of the fragment pool, lists and order and the place of every
\* process together, holds for any number of nodes, parsers and packets.
THEOREM Inductive == Spec => []IInv
  <1>1. IInv /\ [Next]_vars => IInv'
    <2> SUFFICES ASSUME IInv, [Next]_vars PROVE IInv'
      OBVIOUS
    <2>1. CASE \E p \in Parsers : Find(p) \/ Handle(p)
      BY <2>1, FindInv, HandleInv
    <2>2. CASE Expire
      BY <2>2, ExpireInv
    <2>3. CASE UNCHANGED vars
      <3>1. ListInv'
        BY <2>3, ListsUnchanged DEF IInv, vars
      <3> QED
        BY <2>3, <3>1 DEF IInv, TypeOK, Held, WalkInUsedList, vars, listVars,
                          contentVars, parserVars
    <2> QED
      BY <2>1, <2>2, <2>3 DEF Next
  <1> QED
    BY InitInv, <1>1, PTL DEF Spec

-----------------------------------------------------------------------------
(* The results.                                                            *)

\* The types hold; in particular used_nr, which put_to_frag_pool may decrease
\* once too often, never becomes negative.
THEOREM TypeCorrect == Spec => []TypeOK
  BY Inductive, PTL DEF IInv

\* The chain stays two doubly linked lists, whatever the parsers do.
THEOREM ListInvAlways == Spec => []ListInv
  BY Inductive, PTL DEF IInv

\* The timeout walk stays in the used list and keeps the mutex.
THEOREM WalkInUsedListAlways == Spec => []WalkInUsedList
  BY Inductive, PTL DEF IInv

\* No node is ever lost from the two lists: the newest of the nodes that a
\* walk misses would have a predecessor that is newer still.
THEOREM EveryNodeInOneListAlways == Spec => []EveryNodeInOneList
  <1>1. ASSUME IInv, NEW S \in SUBSET Nodes, NEW head, NEW tail, Chain(S, head, tail)
        PROVE  VisitedFrom(head, S)
    <2>1. ASSUME NEW T \in SUBSET Nodes, head \in T \cup {Null},
                 \A n \in T : next[n] \in T \cup {Null}, ~(S \subseteq T)
          PROVE  FALSE
      <3>1. PICK x \in S \ T : \A y \in S \ T : <<y, x>> \notin newer
        BY <1>1, <2>1, NewestExists DEF IInv, ListInv, TypeOK
      <3>2. x # head
        BY <1>1, <2>1, <3>1, Links DEF Chain
      <3>3. pre[x] \in S /\ next[pre[x]] = x
        BY <1>1, <3>1, <3>2 DEF Chain
      <3>4. pre[x] \notin T
        BY <2>1, <3>1, <3>3, Links
      <3>5. <<pre[x], x>> \in newer
        BY <1>1, <3>1, <3>3, Links DEF IInv, ListInv, Ordered
      <3> QED
        BY <3>1, <3>3, <3>4, <3>5
    <2> QED
      BY <1>1, <2>1 DEF Chain, VisitedFrom
  <1>2. ASSUME IInv PROVE EveryNodeInOneList
    <2>1. used \in SUBSET Nodes /\ Nodes \ used \in SUBSET Nodes
      BY <1>2 DEF IInv, TypeOK
    <2>2. VisitedFrom(used_head, used)
      BY <1>1, <1>2, <2>1 DEF IInv, ListInv
    <2>3. VisitedFrom(free_head, Nodes \ used)
      BY <1>1, <1>2, <2>1 DEF IInv, ListInv
    <2> QED
      BY <2>2, <2>3 DEF EveryNodeInOneList
  <1> QED
    BY Inductive, <1>2, PTL
=============================================================================
