----------------------------- MODULE LibraryProofs -----------------------------
(***************************************************************************)
(* Proofs about LinkedList, for any number of lists and entries: what the  *)
(* functions do to a ring and to the sequence it stands for, that the      *)
(* rings survive every sequence of calls, and that the queries read what   *)
(* the calls made of each list; and about SpinLock, for any set of         *)
(* threads, either build, and counters of any width.                       *)
(***************************************************************************)
EXTENDS LinkedList, SpinLock, FoldProofs, TLAPS

Pointers == [Nodes -> Nodes \cup {Unlinked}]
Links    == [forward : Pointers, back : Pointers]

(* The nodes of S form rings with the links l.                             *)
Rings(l, S) ==
  /\ l \in Links /\ S \subseteq Nodes
  /\ \A n \in S : /\ l.forward[n] \in S /\ l.back[n] \in S
                  /\ l.back[l.forward[n]] = n
                  /\ l.forward[l.back[n]] = n

-----------------------------------------------------------------------------
(* The functions: a new head is a ring of its own, an entry becomes part   *)
(* of the ring it is linked into, and the ring closes behind one removed.  *)

LEMMA HeadRings ==
  ASSUME NEW l, NEW S, Rings(l, S), NEW h \in Nodes, h \notin S
  PROVE  Rings(LinkHead(l, h), S \cup {h})
<1> DEFINE m == LinkHead(l, h)
<1>1. m.forward = [l.forward EXCEPT ![h] = h] /\ m.back = [l.back EXCEPT ![h] = h]
  BY DEF LinkHead
<1>2. m \in Links
  BY DEF Rings, Links, Pointers, LinkHead
<1>3. \A n \in S : m.forward[n] = l.forward[n] /\ m.back[n] = l.back[n]
  BY <1>1 DEF Rings, Links, Pointers
<1>4. m.forward[h] = h /\ m.back[h] = h
  BY <1>1 DEF Rings, Links, Pointers
<1> HIDE DEF m
<1>5. Rings(m, S \cup {h})
  BY <1>2, <1>3, <1>4 DEF Rings
<1> QED
  BY <1>5 DEF m

LEMMA LinkRings ==
  ASSUME NEW l, NEW S, Rings(l, S), NEW e \in Nodes, e \notin S,
         NEW before \in S, NEW after \in S,
         l.forward[before] = after, l.back[after] = before
  PROVE  Rings(LinkBetween(l, before, after, e), S \cup {e})
<1> DEFINE m == LinkBetween(l, before, after, e)
<1>1. /\ m.forward = [l.forward EXCEPT ![e] = after, ![before] = e]
      /\ m.back = [l.back EXCEPT ![e] = before, ![after] = e]
  BY DEF LinkBetween
<1>2. m \in Links
  BY DEF Rings, Links, Pointers, LinkBetween
<1>3. \A n \in S : /\ m.forward[n] = IF n = before THEN e ELSE l.forward[n]
                   /\ m.back[n] = IF n = after THEN e ELSE l.back[n]
  BY <1>1 DEF Rings, Links, Pointers
<1>4. m.forward[e] = after /\ m.back[e] = before
  BY <1>1 DEF Rings, Links, Pointers
<1> HIDE DEF m
<1>5. Rings(m, S \cup {e})
  BY <1>2, <1>3, <1>4 DEF Rings
<1> QED
  BY <1>5 DEF m

LEMMA InsertRings ==
  ASSUME NEW l, NEW S, Rings(l, S), NEW e \in Nodes, e \notin S, NEW h \in S
  PROVE  /\ Rings(InsertHeadList(l, h, e), S \cup {e})
         /\ Rings(InsertTailList(l, h, e), S \cup {e})
<1>1. /\ l.forward[h] \in S /\ l.back[l.forward[h]] = h
      /\ l.back[h] \in S /\ l.forward[l.back[h]] = h
  BY DEF Rings
<1> QED
  BY <1>1, LinkRings DEF InsertHeadList, InsertTailList

LEMMA RemoveRings ==
  ASSUME NEW l, NEW S, Rings(l, S), NEW e \in S
  PROVE  Rings(RemoveEntryList(l, e), S \ {e})
<1> DEFINE m == RemoveEntryList(l, e)
           b == l.back[e]
           f == l.forward[e]
<1>1. m.forward = [l.forward EXCEPT ![b] = f] /\ m.back = [l.back EXCEPT ![f] = b]
  BY DEF RemoveEntryList
<1>2. b \in S /\ f \in S /\ l.forward[b] = e /\ l.back[f] = e
  BY DEF Rings
<1>3. m \in Links
  BY <1>2 DEF Rings, Links, Pointers, RemoveEntryList
<1>4. \A n \in S : /\ m.forward[n] = IF n = b THEN f ELSE l.forward[n]
                   /\ m.back[n] = IF n = f THEN b ELSE l.back[n]
  BY <1>1 DEF Rings, Links, Pointers
<1> HIDE DEF m
<1>5. ASSUME NEW n \in S \ {e}
      PROVE  /\ m.forward[n] \in S \ {e} /\ m.back[n] \in S \ {e}
             /\ m.back[m.forward[n]] = n
             /\ m.forward[m.back[n]] = n
  <2>1. CASE n = b
    BY <1>2, <1>4, <2>1 DEF Rings
  <2>2. CASE n = f
    BY <1>2, <1>4, <2>2 DEF Rings
  <2>3. CASE n # b /\ n # f
    BY <1>2, <1>4, <2>3 DEF Rings
  <2> QED
    BY <2>1, <2>2, <2>3
<1>6. Rings(m, S \ {e})
  BY <1>3, <1>5 DEF Rings
<1> QED
  BY <1>6 DEF m

(* Each of the three ways of exchanging two entries takes one or both out  *)
(* and links them in again next to nodes that are still there.             *)
LEMMA SwapRings ==
  ASSUME NEW l, NEW S, Rings(l, S), NEW first \in S, NEW second \in S
  PROVE  Rings(SwapListEntries(l, first, second), S)
<1> DEFINE ptr     == l.forward[first]
           without == RemoveEntryList(l, first)
           behind  == InsertHeadList(without, second, first)
           apart   == RemoveEntryList(behind, second)
<1>1. CASE first = second
  BY <1>1 DEF SwapListEntries
<1>2. CASE first # second
  <2>1. first \in Nodes /\ second \in Nodes /\ ptr \in S
    BY DEF Rings
  <2>2. Rings(without, S \ {first})
    BY RemoveRings
  <2>3. (S \ {first}) \cup {first} = S /\ (S \ {second}) \cup {second} = S
    OBVIOUS
  <2>4. Rings(behind, S) /\ Rings(InsertTailList(without, second, first), S)
    <3>1. second \in S \ {first} /\ first \notin S \ {first}
      BY <1>2
    <3> HIDE DEF without
    <3>2. /\ Rings(InsertHeadList(without, second, first), (S \ {first}) \cup {first})
          /\ Rings(InsertTailList(without, second, first), (S \ {first}) \cup {first})
      BY <2>1, <2>2, <3>1, InsertRings
    <3> QED
      BY <2>3, <3>2
  <2>5. ASSUME ptr # second PROVE Rings(InsertTailList(apart, ptr, second), S)
    <3>1. ptr \in S \ {second} /\ second \notin S \ {second}
      BY <2>1, <2>5
    <3> HIDE DEF ptr, behind
    <3>2. Rings(apart, S \ {second})
      BY <2>4, RemoveRings
    <3> HIDE DEF apart
    <3>3. Rings(InsertTailList(apart, ptr, second), (S \ {second}) \cup {second})
      BY <2>1, <3>1, <3>2, InsertRings
    <3> QED
      BY <2>3, <3>3
  <2>6. SwapListEntries(l, first, second) =
          IF without.back[ptr] = second THEN InsertTailList(without, second, first)
          ELSE IF ptr = second THEN behind
          ELSE InsertTailList(apart, ptr, second)
    BY <1>2, Zenon DEF SwapListEntries
  <2> HIDE DEF ptr, without, behind, apart
  <2> QED
    BY <2>4, <2>5, <2>6
<1> QED
  BY <1>1, <1>2

-----------------------------------------------------------------------------
(* A ring with its head read as a sequence: the head is at 0 and, again,   *)
(* behind the last entry.                                                  *)
NodeAt(h, list, i) == IF i \in 1 .. Len(list) THEN list[i] ELSE h

Chain(f, h, list) ==
  \A i \in 0 .. Len(list) : f[NodeAt(h, list, i)] = NodeAt(h, list, i + 1)

(* list has no entry twice, and h is none of its entries.                  *)
Proper(h, list) ==
  h \in Heads /\ list \in Seq(Entries) /\ IsInjective(list)

LEMMA NodesApart ==
  ASSUME NEW h, NEW list, Proper(h, list)
  PROVE  /\ Len(list) \in Nat /\ DOMAIN list = 1 .. Len(list)
         /\ h \notin ToSet(list)
         /\ \A i \in Nat : NodeAt(h, list, i) \in ToSet(list) \cup {h}
         /\ \A i \in 1 .. Len(list) : NodeAt(h, list, i) \in ToSet(list)
         /\ \A i, j \in 0 .. Len(list) : NodeAt(h, list, i) = NodeAt(h, list, j) => i = j
         /\ NodeAt(h, list, 0) = h /\ NodeAt(h, list, Len(list) + 1) = h
<1>1. Len(list) \in Nat /\ DOMAIN list = 1 .. Len(list)
  BY DEF Proper
<1>2. \A i \in 1 .. Len(list) : list[i] \in Entries
  BY DEF Proper
<1>3. h \notin ToSet(list)
  BY <1>1, <1>2, NodesAssumption DEF ToSet, Proper
<1>4. \A i \in 1 .. Len(list) : NodeAt(h, list, i) \in ToSet(list)
  BY <1>1 DEF NodeAt, ToSet
<1>5. \A i, j \in 1 .. Len(list) : list[i] = list[j] => i = j
  BY <1>1 DEF Proper, IsInjective
<1>6. \A i, j \in 0 .. Len(list) : NodeAt(h, list, i) = NodeAt(h, list, j) => i = j
  <2>1. SUFFICES ASSUME NEW i \in 0 .. Len(list), NEW j \in 0 .. Len(list),
                        NodeAt(h, list, i) = NodeAt(h, list, j)
                 PROVE  i = j
    OBVIOUS
  <2>2. CASE i = 0 /\ j = 0
    BY <2>2
  <2>3. CASE i = 0 /\ j # 0
    <3>1. j \in 1 .. Len(list) /\ i \notin 1 .. Len(list)
      BY <1>1, <2>3
    <3>2. QED
      BY <3>1, <2>1, <1>3, <1>4 DEF NodeAt
  <2>4. CASE i # 0 /\ j = 0
    <3>1. i \in 1 .. Len(list) /\ j \notin 1 .. Len(list)
      BY <1>1, <2>4
    <3>2. QED
      BY <3>1, <2>1, <1>3, <1>4 DEF NodeAt
  <2>5. CASE i # 0 /\ j # 0
    <3>1. i \in 1 .. Len(list) /\ j \in 1 .. Len(list)
      BY <1>1, <2>5
    <3>2. QED
      BY <3>1, <2>1, <1>5 DEF NodeAt
  <2> QED
    BY <2>2, <2>3, <2>4, <2>5
<1>7. NodeAt(h, list, 0) = h /\ NodeAt(h, list, Len(list) + 1) = h
  BY <1>1 DEF NodeAt
<1>8. \A i \in Nat : NodeAt(h, list, i) \in ToSet(list) \cup {h}
  BY <1>4 DEF NodeAt
<1> QED
  BY <1>1, <1>3, <1>4, <1>6, <1>7, <1>8

(* The links of other nodes do not matter to a list.                       *)
LEMMA ChainKept ==
  ASSUME NEW h, NEW list, Proper(h, list), NEW f, NEW g, Chain(f, h, list),
         \A n \in ToSet(list) \cup {h} : g[n] = f[n]
  PROVE  Chain(g, h, list)
BY NodesApart DEF Chain

(* list2 is list with e behind the node at k.                              *)
Inserted(h, list, k, e, list2) ==
  /\ Len(list2) = Len(list) + 1
  /\ \A i \in 0 .. k : NodeAt(h, list2, i) = NodeAt(h, list, i)
  /\ NodeAt(h, list2, k + 1) = e
  /\ \A i \in k + 1 .. Len(list) + 1 : NodeAt(h, list2, i + 1) = NodeAt(h, list, i)

(* Linking e in behind the node at k puts it into the sequence there.      *)
LEMMA InsertChain ==
  ASSUME NEW h, NEW list, Proper(h, list), NEW f, NEW g, Chain(f, h, list),
         NEW k \in 0 .. Len(list), NEW e, NEW list2,
         Inserted(h, list, k, e, list2),
         e \notin ToSet(list) \cup {h},
         g[NodeAt(h, list, k)] = e, g[e] = NodeAt(h, list, k + 1),
         \A n \in ToSet(list) \cup {h} : n # NodeAt(h, list, k) => g[n] = f[n]
  PROVE  Chain(g, h, list2)
<1> DEFINE At(i)  == NodeAt(h, list, i)
           New(i) == NodeAt(h, list2, i)
<1>1. Len(list) \in Nat /\ \A i \in 0 .. Len(list) : f[At(i)] = At(i + 1)
  BY NodesApart DEF Chain
<1>2. \A i \in 0 .. Len(list) : i # k => g[At(i)] = At(i + 1)
  BY <1>1, NodesApart
<1>3. /\ g[At(k)] = e /\ g[e] = At(k + 1) /\ Len(list2) = Len(list) + 1
      /\ \A i \in 0 .. k : New(i) = At(i)
      /\ New(k + 1) = e
      /\ \A i \in k + 1 .. Len(list) + 1 : New(i + 1) = At(i)
  BY DEF Inserted
<1> HIDE DEF At, New
<1>4. ASSUME NEW i \in 0 .. Len(list2) PROVE g[New(i)] = New(i + 1)
  <2>1. CASE i < k
    BY <2>1, <1>1, <1>2, <1>3
  <2>2. CASE i = k
    BY <2>2, <1>1, <1>3
  <2>3. CASE i = k + 1
    <3>1. k + 1 \in k + 1 .. Len(list) + 1
      BY <1>1
    <3> QED
      BY <3>1, <2>3, <1>3
  <2>4. CASE i > k + 1
    <3>1. PICK j : j = i - 1
      OBVIOUS
    <3>2. j \in 0 .. Len(list) /\ j # k /\ j + 1 = i /\ j \in k + 1 .. Len(list) + 1 /\ i \in k + 1 .. Len(list) + 1
      BY <3>1, <2>4, <1>1, <1>3
    <3>3. New(i) = At(j) /\ New(i + 1) = At(i)
      BY <3>2, <1>3
    <3> QED
      BY <3>2, <3>3, <1>2
  <2> QED
    BY <2>1, <2>2, <2>3, <2>4
<1> QED
  BY <1>4 DEF Chain, New

(* Closing the ring behind the node at k takes it out of the sequence.     *)
LEMMA RemoveChain ==
  ASSUME NEW h, NEW list, Proper(h, list), NEW f, NEW g, Chain(f, h, list),
         NEW k \in 1 .. Len(list),
         g[NodeAt(h, list, k - 1)] = NodeAt(h, list, k + 1),
         \A n \in ToSet(list) \cup {h} : n # NodeAt(h, list, k - 1) => g[n] = f[n]
  PROVE  Chain(g, h, RemoveAt(list, k))
<1> DEFINE list2  == RemoveAt(list, k)
           At(i)  == NodeAt(h, list, i)
           New(i) == NodeAt(h, list2, i)
<1>1. Len(list) \in Nat /\ \A i \in 0 .. Len(list) : f[At(i)] = At(i + 1)
  BY NodesApart DEF Chain
<1>2. \A i \in 0 .. Len(list) : i # k - 1 => g[At(i)] = At(i + 1)
  BY <1>1, NodesApart
<1>3. /\ Len(list2) = Len(list) - 1
      /\ \A i \in 1 .. Len(list) - 1 : list2[i] = IF i < k THEN list[i] ELSE list[i + 1]
  BY RemoveElementAt DEF Proper
<1>4. ASSUME NEW i \in 0 .. Len(list)
      PROVE  New(i) = IF i < k THEN At(i) ELSE At(i + 1)
  <2> HIDE DEF list2
  <2>1. CASE i \in 1 .. Len(list) - 1
    <3>1. i \in 1 .. Len(list) /\ i + 1 \in 1 .. Len(list) /\ i \in 1 .. Len(list2)
      BY <2>1, <1>1, <1>3
    <3> QED
      BY <3>1, <2>1, <1>3 DEF NodeAt
  <2>2. CASE i = 0
    <3>1. i \notin 1 .. Len(list) /\ i \notin 1 .. Len(list2) /\ i < k
      BY <2>2, <1>1, <1>3
    <3> QED
      BY <3>1 DEF NodeAt
  <2>3. CASE i = Len(list)
    <3>1. i + 1 \notin 1 .. Len(list) /\ i \notin 1 .. Len(list2) /\ ~(i < k)
      BY <2>3, <1>1, <1>3
    <3> QED
      BY <3>1 DEF NodeAt
  <2> QED
    BY <2>1, <2>2, <2>3, <1>1
<1>5. g[At(k - 1)] = At(k + 1)
  OBVIOUS
<1> HIDE DEF At, New, list2
<1>6. ASSUME NEW i \in 0 .. Len(list2) PROVE g[New(i)] = New(i + 1)
  <2>1. i \in 0 .. Len(list) /\ i + 1 \in 0 .. Len(list)
    BY <1>1, <1>3
  <2>2. CASE i < k - 1
    BY <2>1, <2>2, <1>2, <1>4
  <2>3. CASE i = k - 1
    <3>1. New(i) = At(k - 1) /\ New(i + 1) = At(i + 2)
      <4>1. i < k /\ ~(i + 1 < k) /\ i + 1 + 1 = i + 2
        BY <2>3
      <4> QED
        BY <4>1, <2>1, <2>3, <1>4
    <3>2. i + 2 = k + 1
      BY <2>3
    <3> QED
      BY <3>1, <3>2, <1>5
  <2>4. CASE i >= k
    <3>1. ~(i < k) /\ ~(i + 1 < k) /\ i + 1 # k - 1
      BY <2>4
    <3>2. New(i) = At(i + 1) /\ New(i + 1) = At(i + 1 + 1)
      BY <3>1, <2>1, <1>4
    <3>3. g[At(i + 1)] = At(i + 1 + 1)
      BY <3>1, <2>1, <1>2
    <3> QED
      BY <3>2, <3>3
  <2> QED
    BY <2>2, <2>3, <2>4
<1>7. QED
  BY <1>6 DEF Chain, New, list2

(* What linking in and taking out change: k is what l becomes.             *)
LinkStep(l, k, before, after, e) ==
  /\ l \in Links /\ k \in Links
  /\ \A n \in Nodes :
       /\ n = before => k.forward[n] = e
       /\ n = e /\ n # before => k.forward[n] = after
       /\ n \notin {e, before} => k.forward[n] = l.forward[n]
       /\ n = after => k.back[n] = e
       /\ n = e /\ n # after => k.back[n] = before
       /\ n \notin {e, after} => k.back[n] = l.back[n]

LEMMA LinkEffect ==
  ASSUME NEW l \in Links, NEW before \in Nodes, NEW after \in Nodes, NEW e \in Nodes
  PROVE  LinkStep(l, LinkBetween(l, before, after, e), before, after, e)
<1> DEFINE k == LinkBetween(l, before, after, e)
<1>1. /\ k.forward = [l.forward EXCEPT ![e] = after, ![before] = e]
      /\ k.back = [l.back EXCEPT ![e] = before, ![after] = e]
  BY DEF LinkBetween
<1>2. k \in Links
  BY DEF LinkBetween, Links, Pointers
<1>3. l.forward \in [Nodes -> Nodes \cup {Unlinked}] /\ l.back \in [Nodes -> Nodes \cup {Unlinked}]
  BY DEF Links, Pointers
<1> HIDE DEF k
<1>4. LinkStep(l, k, before, after, e)
  BY <1>1, <1>2, <1>3 DEF LinkStep
<1> QED
  BY <1>4 DEF k

LEMMA RemoveEffect ==
  ASSUME NEW l \in Links, NEW e \in Nodes, l.forward[e] \in Nodes, l.back[e] \in Nodes
  PROVE  LET m == RemoveEntryList(l, e)
         IN  /\ m \in Links
             /\ \A n \in Nodes :
                  /\ m.forward[n] = IF n = l.back[e] THEN l.forward[e] ELSE l.forward[n]
                  /\ m.back[n] = IF n = l.forward[e] THEN l.back[e] ELSE l.back[n]
BY DEF RemoveEntryList, Links, Pointers

Exchanged(n, first, second) ==
  IF n = first THEN second ELSE IF n = second THEN first ELSE n

(* Exchanging two entries renames them in the ring: which of the three     *)
(* ways is taken is a matter of how they lie, the outcome is not.          *)
LEMMA SwapRenames ==
  ASSUME NEW l, NEW S, Rings(l, S), NEW first \in S, NEW second \in S,
         l.forward[first] # first, l.forward[second] # second
  PROVE  \A n \in S : SwapListEntries(l, first, second).forward[Exchanged(n, first, second)]
                        = Exchanged(l.forward[n], first, second)
<1> DEFINE f == l.forward
           b == l.back
           ptr     == f[first]
           without == RemoveEntryList(l, first)
           behind  == InsertHeadList(without, second, first)
           apart   == RemoveEntryList(behind, second)
           m       == SwapListEntries(l, first, second)
           Renamed(k) == \A n \in S : k.forward[Exchanged(n, first, second)]
                                        = Exchanged(f[n], first, second)
<1>1. CASE first = second
  BY <1>1 DEF SwapListEntries, Exchanged
<1>2. CASE first # second
  <2>1. /\ l \in Links /\ S \subseteq Nodes
        /\ \A n \in S : f[n] \in S /\ b[n] \in S /\ b[f[n]] = n /\ f[b[n]] = n
    BY DEF Rings
  <2>2. first \in S /\ second \in S /\ f[first] # first /\ f[second] # second
    OBVIOUS
  <2>3. m = IF without.back[ptr] = second THEN InsertTailList(without, second, first)
            ELSE IF ptr = second THEN behind
            ELSE InsertTailList(apart, ptr, second)
    BY <1>2, Zenon DEF SwapListEntries
  <2>4. /\ without \in Links
        /\ \A n \in Nodes : /\ without.forward[n] = IF n = b[first] THEN ptr ELSE f[n]
                            /\ without.back[n] = IF n = ptr THEN b[first] ELSE b[n]
    BY <2>1, <2>2, RemoveEffect
  <2>8. ptr = f[first]
    OBVIOUS
  <2> HIDE DEF without, f, b, ptr
  <2>5. without.forward[second] \in Nodes /\ without.back[second] \in Nodes
    BY <2>1, <2>2, <2>4, <2>8
  <2>6. behind = LinkBetween(without, second, without.forward[second], first)
    BY DEF InsertHeadList
  <2>7. LinkStep(without, behind, second, without.forward[second], first)
    BY <2>1, <2>2, <2>4, <2>5, <2>6, LinkEffect
  <2> HIDE DEF behind
  <2>9. CASE without.back[ptr] = second
    <3>1. m = LinkBetween(without, without.back[second], second, first)
      BY <2>3, <2>9 DEF InsertTailList
    <3>2. LinkStep(without, m, without.back[second], second, first)
      BY <2>1, <2>2, <2>4, <2>5, <3>1, LinkEffect
    <3>3. b[first] = second
      BY <2>1, <2>2, <2>4, <2>8, <2>9
    <3>4. without.back[second] = IF second = ptr THEN second ELSE b[second]
      BY <2>1, <2>2, <2>4, <3>3
    <3>5. Renamed(m)
      <4> HIDE DEF m
      <4> QED
        BY <1>2, <2>1, <2>2, <2>4, <2>8, <3>2, <3>3, <3>4 DEF Exchanged, LinkStep
    <3> QED
      BY <3>5 DEF f
  <2>10. CASE without.back[ptr] # second /\ ptr = second
    <3>1. m = behind
      BY <2>3, <2>10
    <3>2. without.forward[second] = f[second] /\ b[second] = first
      <4>1. without.back[second] = b[first] /\ b[first] # second
        BY <2>1, <2>2, <2>4, <2>10
      <4>2. without.forward[second] = f[second]
        BY <2>1, <2>2, <2>4, <4>1
      <4> QED
        BY <2>1, <2>2, <2>8, <2>10, <4>2
    <3>3. Renamed(m)
      <4> HIDE DEF m
      <4> QED
        BY <1>2, <2>1, <2>2, <2>4, <2>7, <2>8, <2>10, <3>1, <3>2 DEF Exchanged, LinkStep
    <3> QED
      BY <3>3 DEF f
  <2>11. CASE without.back[ptr] # second /\ ptr # second
    <3>1. b[first] # second /\ ptr # second /\ ptr # first /\ b[first] # first /\ ptr \in S
      BY <2>1, <2>2, <2>4, <2>8, <2>11
    <3>2. /\ f[second] \in S /\ b[second] \in S
          /\ f[second] # first /\ f[second] # second /\ b[second] # second /\ b[second] # first
          /\ ptr # f[second] /\ b[first] # b[second]
      BY <1>2, <2>1, <2>2, <2>8, <3>1
    <3>3. without.forward[second] = f[second] /\ without.back[second] = b[second]
      BY <2>1, <2>2, <2>4, <3>1
    <3>4. behind.forward[second] = first /\ behind.back[second] = b[second]
      BY <2>1, <2>2, <2>7, <3>2, <3>3, <1>2 DEF LinkStep
    <3>5. /\ apart \in Links
          /\ \A n \in Nodes : /\ apart.forward[n] = IF n = b[second] THEN first ELSE behind.forward[n]
                              /\ apart.back[n] = IF n = first THEN b[second] ELSE behind.back[n]
      <4>1. behind \in Links /\ second \in Nodes
        BY <2>1, <2>2, <2>7 DEF LinkStep
      <4>2. behind.forward[second] \in Nodes /\ behind.back[second] \in Nodes
        BY <2>1, <2>2, <3>2, <3>4
      <4> QED
        BY <3>4, <4>1, <4>2, RemoveEffect
    <3> HIDE DEF apart
    <3>6. apart.back[ptr] = b[first]
      BY <2>1, <2>2, <2>4, <2>7, <3>1, <3>2, <3>3, <3>5 DEF LinkStep
    <3>7. m = LinkBetween(apart, b[first], ptr, second)
      BY <2>3, <2>11, <3>6 DEF InsertTailList
    <3>8. LinkStep(apart, m, b[first], ptr, second)
      BY <2>1, <2>2, <3>1, <3>5, <3>7, LinkEffect
    <3> HIDE DEF m
    <3>9. \A n \in S : m.forward[n] = IF n = b[first] THEN second ELSE IF n = second THEN ptr
                                      ELSE IF n = b[second] THEN first
                                      ELSE IF n = first THEN f[second] ELSE f[n]
      BY <2>1, <2>2, <2>4, <2>7, <3>1, <3>2, <3>3, <3>5, <3>8 DEF LinkStep
    <3>10. Renamed(m)
      BY <1>2, <2>1, <2>2, <2>8, <3>1, <3>2, <3>9 DEF Exchanged
    <3> QED
      BY <3>10 DEF f, m
  <2> QED
    BY <2>9, <2>10, <2>11
<1> QED
  BY <1>1, <1>2

LEMMA SwapChain ==
  ASSUME NEW l, NEW S, Rings(l, S), NEW h \in S, NEW list, Proper(h, list),
         ToSet(list) \subseteq S, Chain(l.forward, h, list),
         NEW first \in ToSet(list), NEW second \in ToSet(list), NEW list2 \in Seq(Entries),
         Len(list2) = Len(list),
         \A i \in 1 .. Len(list) : list2[i] = Exchanged(list[i], first, second)
  PROVE  /\ \A n \in S : SwapListEntries(l, first, second).forward[Exchanged(n, first, second)]
                           = Exchanged(l.forward[n], first, second)
         /\ Chain(SwapListEntries(l, first, second).forward, h, list2)
<1> DEFINE g     == SwapListEntries(l, first, second).forward
           X(n)  == Exchanged(n, first, second)
           At(i) == NodeAt(h, list, i)
<1>1. Len(list) \in Nat /\ \A i \in 0 .. Len(list) : l.forward[At(i)] = At(i + 1)
  BY NodesApart DEF Chain
<1>2. ASSUME NEW e \in ToSet(list) PROVE l.forward[e] # e
  <2>1. PICK i \in 1 .. Len(list) : e = list[i]
    BY NodesApart DEF ToSet
  <2>2. e = At(i)
    BY <2>1 DEF NodeAt
  <2>3. CASE i + 1 \in 1 .. Len(list)
    <3>1. i \in 0 .. Len(list) /\ i + 1 \in 0 .. Len(list) /\ i # i + 1
      BY <2>3
    <3> QED
      BY <3>1, <2>2, <1>1, NodesApart
  <2>4. CASE i + 1 \notin 1 .. Len(list)
    <3>1. At(i + 1) = h
      BY <2>4 DEF NodeAt
    <3> QED
      BY <3>1, <2>2, <1>1, NodesApart
  <2> QED
    BY <2>3, <2>4
<1>3. first \in S /\ second \in S /\ l.forward[first] # first /\ l.forward[second] # second
  BY <1>2
<1>4. \A n \in S : g[X(n)] = X(l.forward[n])
  BY <1>3, SwapRenames
<1>5. X(h) = h
  BY NodesApart DEF Exchanged
<1>6. \A i \in Nat : NodeAt(h, list2, i) = X(At(i))
  BY <1>5 DEF NodeAt
<1>7. \A i \in 0 .. Len(list) : At(i) \in S
  BY NodesApart
<1> HIDE DEF g, X, At
<1>8. ASSUME NEW i \in 0 .. Len(list2) PROVE g[NodeAt(h, list2, i)] = NodeAt(h, list2, i + 1)
  <2>1. i \in Nat /\ i + 1 \in Nat /\ i \in 0 .. Len(list)
    BY <1>1
  <2> QED
    BY <2>1, <1>1, <1>4, <1>6, <1>7
<1>9. Chain(g, h, list2)
  BY <1>8 DEF Chain
<1> QED
  BY <1>4, <1>9 DEF g, X

-----------------------------------------------------------------------------
(* Every list is a ring of its head and of the entries it should hold, in  *)
(* their order; no entry is on two lists.                                  *)
OnRing(h) ==
  /\ Proper(h, contents[h])
  /\ ToSet(contents[h]) \subseteq linked
  /\ h \notin linked => contents[h] = << >>
  /\ h \in linked => Chain(links.forward, h, contents[h])

ListInv ==
  /\ Rings(links, linked)
  /\ contents \in [Heads -> Seq(Entries)]
  /\ \A h \in Heads : OnRing(h)
  /\ \A g, h \in Heads : g # h => ToSet(contents[g]) \cap ToSet(contents[h]) = {}

(* A call on one list leaves the others alone when it leaves the forward   *)
(* links of their nodes alone.                                             *)
LEMMA OthersKept ==
  ASSUME ListInv, NEW h \in Heads, NEW list2, Rings(links', linked'),
         contents' = [contents EXCEPT ![h] = list2],
         Proper(h, list2), ToSet(list2) \subseteq linked',
         h \notin linked' => list2 = << >>,
         h \in linked' => Chain(links'.forward, h, list2),
         \A g \in Heads \ {h} :
           /\ g \in linked' <=> g \in linked
           /\ ToSet(contents[g]) \subseteq linked'
           /\ ToSet(contents[g]) \cap ToSet(list2) = {}
           /\ g \in linked => \A n \in ToSet(contents[g]) \cup {g} :
                                links'.forward[n] = links.forward[n]
  PROVE  ListInv'
<1>1. contents \in [Heads -> Seq(Entries)] /\ list2 \in Seq(Entries)
  BY DEF ListInv, Proper
<1>2. contents' \in [Heads -> Seq(Entries)] /\ contents'[h] = list2
  BY <1>1
<1>3. \A g \in Heads \ {h} : contents'[g] = contents[g]
  BY <1>1
<1>4. ASSUME NEW g \in Heads \ {h} PROVE OnRing(g)'
  <2>1. OnRing(g)
    BY DEF ListInv
  <2>2. ASSUME g \in linked' PROVE Chain(links'.forward, g, contents[g])
    BY <2>1, <2>2, ChainKept DEF OnRing
  <2>3. contents'[g] = contents[g]
    BY <1>3
  <2> QED
    BY <2>1, <2>2, <2>3 DEF OnRing
<1>5. OnRing(h)'
  BY <1>2 DEF OnRing
<1>6. ASSUME NEW g \in Heads, NEW k \in Heads, g # k
      PROVE  ToSet(contents'[g]) \cap ToSet(contents'[k]) = {}
  <2>1. CASE g = h
    <3>1. k \in Heads \ {h} /\ contents'[g] = list2 /\ contents'[k] = contents[k]
      BY <1>2, <1>3, <1>6, <2>1
    <3> QED
      BY <3>1
  <2>2. CASE k = h
    <3>1. g \in Heads \ {h} /\ contents'[k] = list2 /\ contents'[g] = contents[g]
      BY <1>2, <1>3, <1>6, <2>2
    <3> QED
      BY <3>1
  <2>3. CASE g # h /\ k # h
    <3>1. contents'[g] = contents[g] /\ contents'[k] = contents[k]
      BY <1>3, <2>3
    <3> QED
      BY <3>1, <1>6 DEF ListInv
  <2> QED
    BY <2>1, <2>2, <2>3
<1> QED
  BY <1>2, <1>4, <1>5, <1>6 DEF ListInv

(* The nodes of different lists are different.                             *)
LEMMA ListsApart ==
  ASSUME ListInv, NEW h \in Heads, NEW g \in Heads \ {h}
  PROVE  (ToSet(contents[g]) \cup {g}) \cap (ToSet(contents[h]) \cup {h}) = {}
<1>1. /\ Proper(g, contents[g]) /\ Proper(h, contents[h])
      /\ ToSet(contents[g]) \cap ToSet(contents[h]) = {}
  BY DEF ListInv, OnRing
<1>2. ToSet(contents[g]) \subseteq Entries /\ ToSet(contents[h]) \subseteq Entries
  <2>1. \A k \in {g, h} : contents[k] \in Seq(Entries)
    BY <1>1 DEF Proper
  <2> QED
    BY <2>1 DEF ToSet
<1> QED
  BY <1>1, <1>2, NodesAssumption

LEMMA InitializeKeeps ==
  ASSUME ListInv, NEW h \in Heads, InitializeListHead(h)
  PROVE  ListInv'
<1>1. h \notin linked /\ links' = LinkHead(links, h) /\ linked' = linked \cup {h}
  BY DEF InitializeListHead
<1>2. contents' = [contents EXCEPT ![h] = << >>]
  BY DEF InitializeListHead
<1>3. Rings(links, linked) /\ h \in Nodes
  BY DEF ListInv, Nodes
<1>4. Rings(links', linked')
  BY <1>1, <1>3, HeadRings
<1>5. links'.forward = [links.forward EXCEPT ![h] = h] /\ links.forward \in Pointers
  BY <1>1, <1>3 DEF LinkHead, Rings, Links
<1>6. links'.forward[h] = h /\ \A n \in linked : links'.forward[n] = links.forward[n]
  BY <1>1, <1>3, <1>5 DEF Rings, Pointers
<1>7. Proper(h, << >>) /\ ToSet(<< >>) = {}
  BY DEF Proper, IsInjective, ToSet
<1>8. Chain(links'.forward, h, << >>)
  <2>1. Len(<< >>) = 0 /\ \A i \in 0 .. 0 : i = 0
    OBVIOUS
  <2>2. \A i : NodeAt(h, << >>, i) = h
    BY DEF NodeAt
  <2> QED
    BY <1>6, <2>1, <2>2 DEF Chain
<1>9. ASSUME NEW g \in Heads \ {h}
      PROVE  /\ g \in linked' <=> g \in linked
             /\ ToSet(contents[g]) \subseteq linked'
             /\ ToSet(contents[g]) \cap {} = {}
             /\ g \in linked => \A n \in ToSet(contents[g]) \cup {g} :
                                  links'.forward[n] = links.forward[n]
  <2>1. OnRing(g)
    BY DEF ListInv
  <2>2. ToSet(contents[g]) \subseteq linked
    BY <2>1 DEF OnRing
  <2> QED
    BY <2>2, <1>1, <1>6
<1> QED
  BY <1>1, <1>2, <1>4, <1>7, <1>8, <1>9, OthersKept

(* The call makes list2 of the list of h.                                  *)
Becomes(h, list2) == contents' = [contents EXCEPT ![h] = list2]

(* Linking in at k of the list of h.                                       *)
LEMMA InsertKeeps ==
  ASSUME ListInv, NEW h \in Heads, h \in linked, NEW e \in Entries, e \notin linked,
         NEW list, list = contents[h], NEW k \in 0 .. Len(list), NEW list2 \in Seq(Entries),
         IsInjective(list2), ToSet(list2) = ToSet(list) \cup {e},
         Inserted(h, list, k, e, list2),
         NEW before, NEW after,
         before = NodeAt(h, list, k), after = NodeAt(h, list, k + 1),
         links' = LinkBetween(links, before, after, e), linked' = linked \cup {e},
         Becomes(h, list2)
  PROVE  ListInv'
<1>1. /\ Rings(links, linked) /\ e \in Nodes /\ h \in Heads
      /\ Proper(h, list) /\ ToSet(list) \subseteq linked
      /\ Chain(links.forward, h, list)
  BY DEF ListInv, OnRing, Nodes
<1>2. before \in ToSet(list) \cup {h} /\ after \in ToSet(list) \cup {h}
  <2>1. k \in Nat /\ k + 1 \in Nat
    BY <1>1, NodesApart
  <2> QED
    BY <1>1, <2>1, NodesApart
<1>3. before \in linked /\ after \in linked
  BY <1>1, <1>2
<1>4. links.forward[before] = after
  BY <1>1 DEF Chain
<1>5. links.back[after] = before
  BY <1>1, <1>3, <1>4 DEF Rings
<1>6. Rings(links', linked')
  BY <1>1, <1>3, <1>4, <1>5, LinkRings
<1>7. LinkStep(links, links', before, after, e)
  <2>1. links \in Links /\ before \in Nodes /\ after \in Nodes
    BY <1>1, <1>3 DEF Rings
  <2> QED
    BY <1>1, <2>1, LinkEffect
<1>8. linked \subseteq Nodes
  BY <1>1 DEF Rings
<1>9. Proper(h, list2)
  BY DEF Proper
<1>10. Chain(links'.forward, h, list2)
  <2>1. links'.forward[before] = e /\ links'.forward[e] = after
    BY <1>1, <1>3, <1>7, <1>8 DEF LinkStep
  <2>2. \A n \in ToSet(list) \cup {h} : n # before => links'.forward[n] = links.forward[n]
    BY <1>1, <1>7, <1>8 DEF LinkStep
  <2>3. e \notin ToSet(list) \cup {h}
    BY <1>1
  <2>4. PICK f, g : f = links.forward /\ g = links'.forward
    OBVIOUS
  <2>5. /\ g[NodeAt(h, list, k)] = e /\ g[e] = NodeAt(h, list, k + 1)
        /\ \A n \in ToSet(list) \cup {h} : n # NodeAt(h, list, k) => g[n] = f[n]
    BY <2>1, <2>2, <2>4
  <2>6. Chain(g, h, list2)
    <3>1. Proper(h, list) /\ Chain(f, h, list) /\ Inserted(h, list, k, e, list2)
      BY <1>1, <2>4
    <3> QED
      BY ONLY <3>1, <2>3, <2>5, k \in 0 .. Len(list), InsertChain
  <2> QED
    BY <2>4, <2>6
<1>11. ASSUME NEW g \in Heads \ {h}
       PROVE  /\ g \in linked' <=> g \in linked
              /\ ToSet(contents[g]) \subseteq linked'
              /\ ToSet(contents[g]) \cap ToSet(list2) = {}
              /\ g \in linked => \A n \in ToSet(contents[g]) \cup {g} :
                                   links'.forward[n] = links.forward[n]
  <2>1. ToSet(contents[g]) \subseteq linked
    BY DEF ListInv, OnRing
  <2>2. (ToSet(contents[g]) \cup {g}) \cap (ToSet(list) \cup {h}) = {}
    BY ListsApart
  <2>3. g # e
    BY NodesAssumption
  <2> QED
    BY <2>1, <2>2, <2>3, <1>2, <1>7, <1>8 DEF LinkStep
<1>12. ToSet(list2) \subseteq linked' /\ h \in linked'
  BY <1>1
<1>13. contents' = [contents EXCEPT ![h] = list2]
  BY DEF Becomes
<1> QED
  BY <1>6, <1>9, <1>10, <1>11, <1>12, <1>13, OthersKept

LEMMA InsertHeadKeeps ==
  ASSUME ListInv, NEW h \in Heads, NEW e \in Entries, InsertHead(h, e)
  PROVE  ListInv'
<1>1. /\ h \in linked /\ e \notin linked /\ linked' = linked \cup {e}
      /\ links' = InsertHeadList(links, h, e)
      /\ contents' = [contents EXCEPT ![h] = <<e>> \o @]
  BY DEF InsertHead
<1>2. PICK list : list = contents[h]
  OBVIOUS
<1>3. /\ Proper(h, list) /\ ToSet(list) \subseteq linked /\ Chain(links.forward, h, list)
      /\ contents \in [Heads -> Seq(Entries)]
  BY <1>1, <1>2 DEF ListInv, OnRing
<1>4. Len(list) \in Nat /\ DOMAIN list = 1 .. Len(list) /\ list \in Seq(Entries)
  BY <1>3, NodesApart DEF Proper
<1> DEFINE list2 == <<e>> \o list
<1>5. /\ list2 \in Seq(Entries) /\ Len(list2) = Len(list) + 1
      /\ list2[1] = e /\ \A i \in 1 .. Len(list) : list2[i + 1] = list[i]
  BY <1>4
<1>6. contents' = [contents EXCEPT ![h] = list2]
  BY <1>1, <1>2
<1> HIDE DEF list2
<1>7. \A i \in 2 .. Len(list2) : list2[i] = list[i - 1] /\ i - 1 \in 1 .. Len(list)
  <2>1. SUFFICES ASSUME NEW i \in 2 .. Len(list2)
                 PROVE  list2[i] = list[i - 1] /\ i - 1 \in 1 .. Len(list)
    OBVIOUS
  <2>2. i - 1 \in 1 .. Len(list) /\ (i - 1) + 1 = i
    BY <1>4, <1>5
  <2> QED
    BY <1>5, <2>2
<1>8. DOMAIN list2 = 1 .. Len(list2)
  BY <1>5
<1>9. ToSet(list2) = ToSet(list) \cup {e}
  <2>1. ASSUME NEW i \in 1 .. Len(list2) PROVE list2[i] \in ToSet(list) \cup {e}
    <3>1. CASE i = 1
      BY <3>1, <1>5
    <3>2. CASE i # 1
      <4>1. i \in 2 .. Len(list2)
        BY <3>2, <1>4, <1>5
      <4> QED
        BY <4>1, <1>4, <1>7 DEF ToSet
    <3> QED
      BY <3>1, <3>2
  <2>2. ASSUME NEW i \in 1 .. Len(list) PROVE list[i] \in ToSet(list2)
    <3>1. i + 1 \in 1 .. Len(list2)
      BY <1>4, <1>5
    <3> QED
      BY <3>1, <1>5, <1>8 DEF ToSet
  <2>3. e \in ToSet(list2)
    <3>1. 1 \in 1 .. Len(list2)
      BY <1>4, <1>5
    <3> QED
      BY <3>1, <1>5, <1>8 DEF ToSet
  <2> QED
    BY <2>1, <2>2, <2>3, <1>4, <1>8 DEF ToSet
<1>10. IsInjective(list2)
  <2>1. \A i \in 1 .. Len(list) : list[i] # e
    BY <1>1, <1>3, <1>4 DEF ToSet
  <2>2. \A i, j \in 1 .. Len(list) : list[i] = list[j] => i = j
    BY <1>3, <1>4 DEF Proper, IsInjective
  <2>3. ASSUME NEW i \in 1 .. Len(list2), NEW j \in 1 .. Len(list2), list2[i] = list2[j]
        PROVE  i = j
    <3>1. CASE i = 1 /\ j = 1
      BY <3>1
    <3>2. CASE i = 1 /\ j # 1
      <4>1. j \in 2 .. Len(list2)
        BY <3>2, <1>4, <1>5
      <4> QED
        BY <4>1, <3>2, <2>1, <2>3, <1>5, <1>7
    <3>3. CASE i # 1 /\ j = 1
      <4>1. i \in 2 .. Len(list2)
        BY <3>3, <1>4, <1>5
      <4> QED
        BY <4>1, <3>3, <2>1, <2>3, <1>5, <1>7
    <3>4. CASE i # 1 /\ j # 1
      <4>1. i \in 2 .. Len(list2) /\ j \in 2 .. Len(list2)
        BY <3>4, <1>4, <1>5
      <4>2. i - 1 = j - 1
        BY <4>1, <2>2, <2>3, <1>7
      <4> QED
        BY <4>1, <4>2
    <3> QED
      BY <3>1, <3>2, <3>3, <3>4
  <2> QED
    BY <2>3, <1>8 DEF IsInjective
<1>11. Inserted(h, list, 0, e, list2)
  <2>1. NodeAt(h, list2, 0) = NodeAt(h, list, 0)
    BY DEF NodeAt
  <2>2. NodeAt(h, list2, 0 + 1) = e
    BY <1>4, <1>5 DEF NodeAt
  <2>3. ASSUME NEW i \in 0 + 1 .. Len(list) + 1
        PROVE  NodeAt(h, list2, i + 1) = NodeAt(h, list, i)
    <3>1. CASE i \in 1 .. Len(list)
      <4>1. i + 1 \in 1 .. Len(list2)
        BY <3>1, <1>4, <1>5
      <4> QED
        BY <4>1, <3>1, <1>5 DEF NodeAt
    <3>2. CASE i = Len(list) + 1
      <4>1. i \notin 1 .. Len(list) /\ i + 1 \notin 1 .. Len(list2)
        BY <3>2, <1>4, <1>5
      <4> QED
        BY <4>1 DEF NodeAt
    <3> QED
      BY <3>1, <3>2, <1>4
  <2>4. \A i \in 0 .. 0 : i = 0
    OBVIOUS
  <2> QED
    BY <2>1, <2>2, <2>3, <2>4, <1>5 DEF Inserted
<1>12. h = NodeAt(h, list, 0) /\ 0 \in 0 .. Len(list) /\ links.forward[h] = NodeAt(h, list, 0 + 1)
  <2>1. 0 \in 0 .. Len(list)
    BY <1>4
  <2>2. h = NodeAt(h, list, 0)
    BY <1>3, NodesApart
  <2> QED
    BY <2>1, <2>2, <1>3 DEF Chain
<1>13. links' = LinkBetween(links, h, links.forward[h], e)
  BY <1>1 DEF InsertHeadList
<1>14. PICK before, after : before = h /\ after = links.forward[h]
  OBVIOUS
<1>15. PICK k : k = 0
  OBVIOUS
<1>16. /\ list = contents[h] /\ k \in 0 .. Len(list)
       /\ list2 \in Seq(Entries) /\ IsInjective(list2) /\ ToSet(list2) = ToSet(list) \cup {e}
       /\ before = NodeAt(h, list, k) /\ after = NodeAt(h, list, k + 1)
       /\ Inserted(h, list, k, e, list2)
  BY <1>2, <1>5, <1>9, <1>10, <1>11, <1>12, <1>14, <1>15
<1>17. links' = LinkBetween(links, before, after, e) /\ Becomes(h, list2)
  BY <1>6, <1>13, <1>14 DEF Becomes
<1> QED
  BY ONLY ListInv, h \in Heads, e \in Entries, <1>1, <1>16, <1>17, InsertKeeps

LEMMA InsertTailKeeps ==
  ASSUME ListInv, NEW h \in Heads, NEW e \in Entries, InsertTail(h, e)
  PROVE  ListInv'
<1>1. /\ h \in linked /\ e \notin linked /\ linked' = linked \cup {e}
      /\ links' = InsertTailList(links, h, e)
      /\ contents' = [contents EXCEPT ![h] = Append(@, e)]
  BY DEF InsertTail
<1>2. PICK list : list = contents[h]
  OBVIOUS
<1>3. /\ Proper(h, list) /\ ToSet(list) \subseteq linked /\ Chain(links.forward, h, list)
      /\ contents \in [Heads -> Seq(Entries)] /\ Rings(links, linked)
  BY <1>1, <1>2 DEF ListInv, OnRing
<1>4. Len(list) \in Nat /\ DOMAIN list = 1 .. Len(list) /\ list \in Seq(Entries)
  BY <1>3, NodesApart DEF Proper
<1> DEFINE list2 == Append(list, e)
<1>5. /\ Len(list2) = Len(list) + 1
      /\ list2[Len(list) + 1] = e /\ \A i \in 1 .. Len(list) : list2[i] = list[i]
  BY <1>4
<1>6. contents' = [contents EXCEPT ![h] = list2]
  BY <1>1, <1>2
<1>7. e \notin ToSet(list)
  BY <1>1, <1>3
<1>8. list2 \in Seq(Entries) /\ IsInjective(list2) /\ ToSet(list2) = ToSet(list) \cup {e}
  BY <1>3, <1>4, <1>7, AppendElement DEF Proper
<1> HIDE DEF list2
<1>9. Inserted(h, list, Len(list), e, list2)
  <2>1. ASSUME NEW i \in 0 .. Len(list)
        PROVE  NodeAt(h, list2, i) = NodeAt(h, list, i)
    <3>1. CASE i \in 1 .. Len(list)
      <4>1. i \in 1 .. Len(list2)
        BY <3>1, <1>4, <1>5
      <4> QED
        BY <4>1, <3>1, <1>5 DEF NodeAt
    <3>2. CASE i = 0
      BY <3>2 DEF NodeAt
    <3> QED
      BY <3>1, <3>2, <1>4
  <2>2. NodeAt(h, list2, Len(list) + 1) = e
    <3>1. Len(list) + 1 \in 1 .. Len(list2)
      BY <1>4, <1>5
    <3> QED
      BY <3>1, <1>5 DEF NodeAt
  <2>3. ASSUME NEW i \in Len(list) + 1 .. Len(list) + 1
        PROVE  NodeAt(h, list2, i + 1) = NodeAt(h, list, i)
    <3>1. i \notin 1 .. Len(list) /\ i + 1 \notin 1 .. Len(list2)
      BY <1>4, <1>5
    <3> QED
      BY <3>1 DEF NodeAt
  <2> QED
    BY <2>1, <2>2, <2>3, <1>5 DEF Inserted
<1>10. Len(list) \in 0 .. Len(list)
  BY <1>4
<1>11. h = NodeAt(h, list, Len(list) + 1)
  BY <1>3, NodesApart
<1>12. links.back[h] = NodeAt(h, list, Len(list))
  <2>1. links.forward[NodeAt(h, list, Len(list))] = h
    BY <1>3, <1>10, <1>11 DEF Chain
  <2>2. NodeAt(h, list, Len(list)) \in linked
    BY <1>1, <1>3, <1>4, NodesApart
  <2> QED
    BY <1>3, <2>1, <2>2 DEF Rings
<1>13. links' = LinkBetween(links, links.back[h], h, e)
  BY <1>1 DEF InsertTailList
<1>14. PICK before, after : before = links.back[h] /\ after = h
  OBVIOUS
<1>15. PICK k : k = Len(list)
  OBVIOUS
<1>16. /\ list = contents[h] /\ k \in 0 .. Len(list)
       /\ list2 \in Seq(Entries) /\ IsInjective(list2) /\ ToSet(list2) = ToSet(list) \cup {e}
       /\ before = NodeAt(h, list, k) /\ after = NodeAt(h, list, k + 1)
       /\ Inserted(h, list, k, e, list2)
  BY <1>2, <1>5, <1>8, <1>9, <1>10, <1>11, <1>12, <1>14, <1>15
<1>17. links' = LinkBetween(links, before, after, e) /\ Becomes(h, list2)
  BY <1>6, <1>13, <1>14 DEF Becomes
<1> QED
  BY ONLY ListInv, h \in Heads, e \in Entries, <1>1, <1>16, <1>17, InsertKeeps

LEMMA RemoveKeeps ==
  ASSUME ListInv, NEW h \in Heads, NEW e \in Entries, RemoveEntry(h, e)
  PROVE  ListInv'
<1>1. /\ e \in linked /\ linked' = linked \ {e} /\ links' = RemoveEntryList(links, e)
  BY DEF RemoveEntry
<1>2. PICK list : list = contents[h]
  OBVIOUS
<1>3. PICK k \in 1 .. Len(list) : list[k] = e /\ contents' = [contents EXCEPT ![h] = RemoveAt(list, k)]
  BY <1>2 DEF RemoveEntry
<1>4. /\ Proper(h, list) /\ ToSet(list) \subseteq linked
      /\ h \notin linked => list = << >>
      /\ h \in linked => Chain(links.forward, h, list)
      /\ Rings(links, linked)
  BY <1>2 DEF ListInv, OnRing
<1>5. h \in linked /\ h # e /\ h \in linked'
  <2>1. Len(<< >>) = 0 /\ Len(list) \in Nat
    BY <1>4, NodesApart
  <2>2. Len(list) # 0
    BY <2>1
  <2> QED
    BY <1>1, <1>4, <2>1, <2>2, NodesAssumption
<1>6. /\ RemoveAt(list, k) \in Seq(Entries) /\ IsInjective(RemoveAt(list, k))
      /\ ToSet(RemoveAt(list, k)) = ToSet(list) \ {e}
  BY <1>3, <1>4, RemoveElement DEF Proper
<1>7. Rings(links', linked')
  BY <1>1, <1>4, RemoveRings
<1>8. /\ Len(list) \in Nat /\ k - 1 \in 0 .. Len(list) /\ k \in 0 .. Len(list)
      /\ (k - 1) + 1 = k /\ k - 1 \in Nat
  BY <1>4, NodesApart
<1>9. NodeAt(h, list, k) = e
  BY <1>3 DEF NodeAt
<1>10. links.forward[e] = NodeAt(h, list, k + 1) /\ links.forward[NodeAt(h, list, k - 1)] = e
  BY <1>4, <1>5, <1>8, <1>9 DEF Chain
<1>11. NodeAt(h, list, k - 1) \in ToSet(list) \cup {h} /\ NodeAt(h, list, k - 1) \in linked
  BY <1>4, <1>5, <1>8, NodesApart
<1>12. links.back[e] = NodeAt(h, list, k - 1)
  BY <1>4, <1>10, <1>11 DEF Rings
<1>13. \A n \in linked : links'.forward[n] = IF n = NodeAt(h, list, k - 1) THEN NodeAt(h, list, k + 1)
                                             ELSE links.forward[n]
  <2>1. links \in Links /\ linked \subseteq Nodes /\ links.forward[e] \in Nodes /\ links.back[e] \in Nodes
    BY <1>1, <1>4 DEF Rings
  <2> QED
    BY <1>1, <1>10, <1>12, <2>1, RemoveEffect
<1>14. Chain(links'.forward, h, RemoveAt(list, k))
  <2>1. PICK f, g : f = links.forward /\ g = links'.forward
    OBVIOUS
  <2>2. g[NodeAt(h, list, k - 1)] = NodeAt(h, list, k + 1)
    BY <1>11, <1>13, <2>1
  <2>3. \A n \in ToSet(list) \cup {h} : n # NodeAt(h, list, k - 1) => g[n] = f[n]
    BY <1>4, <1>5, <1>13, <2>1
  <2>4. Chain(g, h, RemoveAt(list, k))
    BY <1>4, <1>5, <2>1, <2>2, <2>3, RemoveChain
  <2> QED
    BY <2>1, <2>4
<1>15. ASSUME NEW g \in Heads \ {h}
       PROVE  /\ g \in linked' <=> g \in linked
              /\ ToSet(contents[g]) \subseteq linked'
              /\ ToSet(contents[g]) \cap ToSet(RemoveAt(list, k)) = {}
              /\ g \in linked => \A n \in ToSet(contents[g]) \cup {g} :
                                   links'.forward[n] = links.forward[n]
  <2>1. ToSet(contents[g]) \subseteq linked
    BY DEF ListInv, OnRing
  <2>2. (ToSet(contents[g]) \cup {g}) \cap (ToSet(list) \cup {h}) = {}
    BY <1>2, ListsApart
  <2>3. g # e /\ e \in ToSet(list)
    BY <1>3, <1>4, NodesAssumption, NodesApart DEF ToSet
  <2> QED
    BY <2>1, <2>2, <2>3, <1>1, <1>6, <1>11, <1>13
<1>16. Proper(h, RemoveAt(list, k)) /\ ToSet(RemoveAt(list, k)) \subseteq linked'
  BY <1>1, <1>4, <1>6 DEF Proper
<1> QED
  BY <1>3, <1>5, <1>7, <1>14, <1>15, <1>16, OthersKept

LEMMA SwapKeeps ==
  ASSUME ListInv, NEW h \in Heads, NEW first \in Entries, NEW second \in Entries,
         Swap(h, first, second)
  PROVE  ListInv'
<1>1. /\ first \in linked /\ second \in linked /\ linked' = linked
      /\ links' = SwapListEntries(links, first, second)
  BY DEF Swap
<1>2. PICK list : list = contents[h]
  OBVIOUS
<1> DEFINE X(n)  == Exchanged(n, first, second)
           list2 == [i \in 1 .. Len(list) |-> X(list[i])]
<1>3. contents' = [contents EXCEPT ![h] = list2]
  <2>1. contents' = [ contents EXCEPT ![h] =
                        [ i \in 1 .. Len(list) |-> CASE list[i] = first -> second
                                                     [] list[i] = second -> first
                                                     [] OTHER -> list[i] ] ]
    BY <1>2 DEF Swap
  <2>2. ASSUME NEW i \in 1 .. Len(list)
        PROVE  (CASE list[i] = first -> second [] list[i] = second -> first [] OTHER -> list[i])
                 = X(list[i])
    BY DEF Exchanged
  <2>3. list2 = [ i \in 1 .. Len(list) |-> CASE list[i] = first -> second
                                             [] list[i] = second -> first
                                             [] OTHER -> list[i] ]
    <3> HIDE DEF X
    <3> QED
      BY <2>2
  <2> HIDE DEF list2
  <2> QED
    BY <2>1, <2>3
<1>4. /\ Proper(h, list) /\ ToSet(list) \subseteq linked
      /\ h \notin linked => list = << >>
      /\ h \in linked => Chain(links.forward, h, list)
      /\ Rings(links, linked)
  BY <1>2 DEF ListInv, OnRing
<1>5. /\ Len(list) \in Nat /\ DOMAIN list = 1 .. Len(list)
      /\ \A i \in 1 .. Len(list) : list[i] \in Entries
      /\ \A i, j \in 1 .. Len(list) : list[i] = list[j] => i = j
  BY <1>4, NodesApart DEF Proper, IsInjective
<1>6. first \in ToSet(list) /\ second \in ToSet(list)
  BY <1>2, <1>5 DEF Swap, Listed, ToSet
<1>7. \A i \in 1 .. Len(list) : X(list[i]) \in Entries /\ X(list[i]) \in ToSet(list)
  BY <1>5, <1>6 DEF Exchanged, ToSet
<1>8. \A i, j \in 1 .. Len(list) : X(list[i]) = X(list[j]) => i = j
  BY <1>5 DEF Exchanged
<1> HIDE DEF X
<1>9. /\ list2 \in Seq(Entries) /\ Len(list2) = Len(list) /\ DOMAIN list2 = 1 .. Len(list)
      /\ \A i \in 1 .. Len(list) : list2[i] = X(list[i])
  BY <1>5, <1>7
<1> HIDE DEF list2
<1>10. Proper(h, list2) /\ ToSet(list2) \subseteq ToSet(list)
  BY <1>7, <1>8, <1>9 DEF Proper, IsInjective, ToSet
<1>11. h \in linked
  <2>1. list # << >>
    <3>1. ToSet(<< >>) = {}
      BY DEF ToSet
    <3> QED
      BY <3>1, <1>6
  <2> QED
    BY <2>1, <1>4
<1>12. Rings(links', linked')
  BY <1>1, <1>4, SwapRings
<1>13. /\ \A n \in linked : links'.forward[X(n)] = X(links.forward[n])
       /\ Chain(links'.forward, h, list2)
  <2>1. PICK l, S : l = links /\ S = linked
    OBVIOUS
  <2>2. \A i \in 1 .. Len(list) : list2[i] = Exchanged(list[i], first, second)
    BY <1>9 DEF X
  <2>3. /\ \A n \in S : SwapListEntries(l, first, second).forward[Exchanged(n, first, second)]
                          = Exchanged(l.forward[n], first, second)
        /\ Chain(SwapListEntries(l, first, second).forward, h, list2)
    BY <1>4, <1>6, <1>9, <1>11, <2>1, <2>2, SwapChain
  <2> QED
    BY <2>1, <2>3, <1>1 DEF X
<1>14. ASSUME NEW g \in Heads \ {h}
       PROVE  /\ g \in linked' <=> g \in linked
              /\ ToSet(contents[g]) \subseteq linked'
              /\ ToSet(contents[g]) \cap ToSet(list2) = {}
              /\ g \in linked => \A n \in ToSet(contents[g]) \cup {g} :
                                   links'.forward[n] = links.forward[n]
  <2>1. /\ ToSet(contents[g]) \subseteq linked /\ Proper(g, contents[g])
        /\ g \in linked => Chain(links.forward, g, contents[g])
    BY DEF ListInv, OnRing
  <2>2. (ToSet(contents[g]) \cup {g}) \cap (ToSet(list) \cup {h}) = {}
    BY <1>2, ListsApart
  <2>3. \A n \in ToSet(contents[g]) \cup {g} : X(n) = n
    BY <2>2, <1>6 DEF X, Exchanged
  <2>4. ASSUME g \in linked, NEW n \in ToSet(contents[g]) \cup {g}
        PROVE  links'.forward[n] = links.forward[n]
    <3>1. PICK other : other = contents[g]
      OBVIOUS
    <3>2. Len(other) \in Nat /\ DOMAIN other = 1 .. Len(other)
      BY <2>1, <3>1, NodesApart
    <3>3. \E i \in 0 .. Len(other) : n = NodeAt(g, other, i)
      <4>1. CASE n = g
        <5>1. 0 \in 0 .. Len(other) /\ g = NodeAt(g, other, 0)
          BY <2>1, <3>1, <3>2, NodesApart
        <5> QED
          BY <5>1, <4>1
      <4>2. CASE n \in ToSet(other)
        <5>1. PICK i \in 1 .. Len(other) : n = other[i]
          BY <3>2, <4>2 DEF ToSet
        <5> QED
          BY <5>1, <3>2 DEF NodeAt
      <4> QED
        BY <4>1, <4>2, <3>1, <2>4
    <3>4. PICK i \in 0 .. Len(other) : n = NodeAt(g, other, i)
      BY <3>3
    <3>5. links.forward[n] = NodeAt(g, other, i + 1) /\ i + 1 \in Nat
      BY <2>1, <2>4, <3>1, <3>2, <3>4 DEF Chain
    <3>6. links.forward[n] \in ToSet(contents[g]) \cup {g}
      BY <2>1, <3>1, <3>5, NodesApart
    <3> QED
      BY <2>1, <2>3, <2>4, <3>6, <1>13
  <2> QED
    BY <2>1, <2>2, <2>4, <1>1, <1>10
<1>15. ToSet(list2) \subseteq linked' /\ h \in linked'
  BY <1>1, <1>4, <1>10, <1>11
<1> QED
  BY <1>3, <1>10, <1>12, <1>13, <1>14, <1>15, OthersKept

-----------------------------------------------------------------------------
(* What the queries say of such a ring.                                    *)
LEMMA RingReads ==
  ASSUME NEW h, NEW list, Proper(h, list), NEW i \in 0 .. Len(list) + 1
  PROVE  (<<h>> \o list \o <<h>>)[i + 1] = NodeAt(h, list, i)
<1>1. Len(list) \in Nat /\ list \in Seq(Entries)
  BY NodesApart DEF Proper
<1> DEFINE V == Entries \cup {h}
           a == <<h>> \o list
<1>2. <<h>> \in Seq(V) /\ list \in Seq(V) /\ Len(<<h>>) = 1 /\ <<h>>[1] = h
  BY <1>1
<1>3. /\ a \in Seq(V) /\ Len(a) = Len(list) + 1
      /\ a[1] = h /\ \A k \in 1 .. Len(list) : a[k + 1] = list[k]
  BY <1>1
<1> HIDE DEF a
<1>4. /\ \A k \in 1 .. Len(list) + 1 : (a \o <<h>>)[k] = a[k]
      /\ (a \o <<h>>)[Len(list) + 2] = h
  <2> HIDE DEF V
  <2> QED
    BY <1>1, <1>2, <1>3
<1>5. CASE i = 0
  <2>1. i \notin 1 .. Len(list) /\ i + 1 = 1 /\ i + 1 \in 1 .. Len(list) + 1
    BY <1>1, <1>5
  <2> QED
    BY <2>1, <1>3, <1>4 DEF NodeAt, a
<1>6. CASE i \in 1 .. Len(list)
  <2>1. i + 1 \in 1 .. Len(list) + 1
    BY <1>1, <1>6
  <2> QED
    BY <2>1, <1>3, <1>4, <1>6 DEF NodeAt, a
<1>7. CASE i = Len(list) + 1
  <2>1. i \notin 1 .. Len(list) /\ i + 1 = Len(list) + 2
    BY <1>1, <1>7
  <2> QED
    BY <2>1, <1>4 DEF NodeAt, a
<1> QED
  BY <1>1, <1>5, <1>6, <1>7

(* IsNodeInList walks along the list and meets the head again behind it.   *)
LEMMA WalkFinds ==
  ASSUME ListInv, NEW h \in Heads, h \in linked, NEW e \in Entries
  PROVE  IsNodeInList(h, e) <=> e \in ToSet(contents[h])
<1>1. PICK list, f, S, N : list = contents[h] /\ f = links.forward /\ S = linked /\ N = NodeCount
  OBVIOUS
<1>2. /\ Proper(h, list) /\ ToSet(list) \subseteq S /\ Chain(f, h, list)
      /\ Rings(links, S) /\ h \in S
  BY <1>1 DEF ListInv, OnRing
<1>3. Len(list) \in Nat /\ DOMAIN list = 1 .. Len(list)
  BY <1>2, NodesApart
<1>4. N \in Nat /\ Len(list) <= N
  <2>1. IsFiniteSet(Nodes)
    BY NodesAssumption DEF Nodes
  <2>2. ToSet(list) \subseteq Nodes
    BY <1>2 DEF Rings
  <2>3. Cardinality(ToSet(list)) <= Cardinality(Nodes) /\ Cardinality(Nodes) \in Nat
    BY <2>1, <2>2, FS_Subset, FS_CardinalityType
  <2>4. Len(list) = Cardinality(ToSet(list))
    BY <1>2, InjectiveLength DEF Proper
  <2> QED
    BY <2>3, <2>4, <1>1 DEF NodeCount
<1> DEFINE step    == [n \in S |-> f[n]]
           rec(it) == [n \in 0 .. N |-> IF n = 0 THEN h ELSE f[it[n - 1]]]
           steps   == CHOOSE it : it = rec(it)
<1>5. IsNodeInList(h, e) <=>
        \E n \in 1 .. N : steps[n] = e /\ \A m \in 1 .. n - 1 : steps[m] # h
  BY <1>1 DEF IsNodeInList
<1>6. step \in [S -> S] /\ \A n \in S : step[n] = f[n]
  BY <1>1, <1>2 DEF Rings
<1>7. \E it : it = rec(it)
  <2> HIDE DEF step
  <2>1. PICK it \in [0 .. N -> S] : IsIteration(it, h, N, step)
    BY <1>2, <1>4, <1>6, IterationExists
  <2>2. \A n \in 0 .. N : n # 0 => n - 1 \in 0 .. N /\ step[it[n - 1]] = f[it[n - 1]]
    BY <1>4, <1>6, <2>1
  <2>3. it = [n \in 0 .. N |-> IF n = 0 THEN h ELSE step[it[n - 1]]]
    BY <2>1 DEF IsIteration
  <2>4. it = rec(it)
    BY <2>2, <2>3
  <2> QED
    BY <2>4
<1>8. steps = rec(steps)
  <2> HIDE DEF rec
  <2> QED
    BY <1>7
<1>9. /\ steps[0] = h
      /\ \A n \in 0 .. N : n + 1 \in 0 .. N => steps[n + 1] = f[steps[n]]
  <2> HIDE DEF steps
  <2>1. \A n \in 0 .. N : steps[n] = IF n = 0 THEN h ELSE f[steps[n - 1]]
    BY <1>8
  <2>2. \A n \in 0 .. N : (n + 1) - 1 = n /\ n + 1 # 0
    BY <1>4
  <2> QED
    BY <2>1, <2>2, <1>4
<1> HIDE DEF steps
<1> DEFINE F == { n \in Nat : n <= Len(list) + 1 /\ n <= N => steps[n] = NodeAt(h, list, n) }
<1>10. 0 \in F
  BY <1>2, <1>9, NodesApart
<1>11. ASSUME NEW n \in F PROVE n + 1 \in F
  <2>1. n + 1 \in Nat
    OBVIOUS
  <2>2. ASSUME n + 1 <= Len(list) + 1, n + 1 <= N PROVE steps[n + 1] = NodeAt(h, list, n + 1)
    <3>1. n <= Len(list) + 1 /\ n <= N /\ n \in 0 .. N /\ n + 1 \in 0 .. N /\ n \in 0 .. Len(list)
      BY <2>2, <1>3, <1>4
    <3>2. steps[n] = NodeAt(h, list, n)
      BY <3>1
    <3>3. f[NodeAt(h, list, n)] = NodeAt(h, list, n + 1)
      BY <3>1, <1>2 DEF Chain
    <3> QED
      BY <3>1, <3>2, <3>3, <1>9
  <2> QED
    BY <2>1, <2>2
<1>12. F = Nat
  <2>1. F \subseteq Nat
    OBVIOUS
  <2> HIDE DEF F
  <2> QED
    BY <2>1, <1>10, <1>11, SetInduction
<1>13. \A n \in 1 .. N : n <= Len(list) + 1 => steps[n] = NodeAt(h, list, n)
  BY <1>4, <1>12
<1>14. \A n \in 1 .. N : n <= Len(list) => steps[n] = list[n] /\ list[n] \in ToSet(list)
  BY <1>3, <1>13, <1>4 DEF NodeAt, ToSet
<1>15. ASSUME NEW n \in 1 .. N, steps[n] = e, \A m \in 1 .. n - 1 : steps[m] # h
       PROVE  e \in ToSet(list)
  <2>1. CASE n <= Len(list)
    BY <2>1, <1>14, <1>15
  <2>2. CASE n = Len(list) + 1
    <3>1. steps[n] = h
      BY <2>2, <1>2, <1>3, <1>13, NodesApart
    <3> QED
      BY <3>1, <1>15, NodesAssumption
  <2>3. CASE n > Len(list) + 1
    <3>1. Len(list) + 1 \in 1 .. N /\ Len(list) + 1 \in 1 .. n - 1
      BY <2>3, <1>3, <1>4
    <3>2. steps[Len(list) + 1] = h
      BY <3>1, <1>2, <1>13, NodesApart
    <3> QED
      BY <3>1, <3>2, <1>15
  <2> QED
    BY <2>1, <2>2, <2>3, <1>3, <1>4
<1>16. ASSUME e \in ToSet(list)
       PROVE  \E n \in 1 .. N : steps[n] = e /\ \A m \in 1 .. n - 1 : steps[m] # h
  <2>1. PICK n \in 1 .. Len(list) : list[n] = e
    BY <1>3, <1>16 DEF ToSet
  <2>2. n \in 1 .. N /\ \A m \in 1 .. n - 1 : m \in 1 .. N /\ m <= Len(list)
    BY <1>3, <1>4
  <2>3. steps[n] = e
    BY <2>1, <2>2, <1>14
  <2>4. h \notin ToSet(list)
    BY <1>2, NodesApart
  <2> QED
    BY <2>2, <2>3, <2>4, <1>14
<1> QED
  BY <1>1, <1>5, <1>15, <1>16

LEMMA InvReads == ListInv => ReadsAsSequence
<1> SUFFICES ASSUME ListInv, NEW h \in Heads \cap linked
             PROVE  LET list == contents[h]
                        ring == <<h>> \o list \o <<h>>
                    IN  /\ GetFirstNode(h) = ring[2]
                        /\ IsListEmpty(h) <=> list = << >>
                        /\ \A i \in 1 .. Len(list) + 1 : /\ GetNextNode(ring[i]) = ring[i + 1]
                                                          /\ GetPreviousNode(ring[i + 1]) = ring[i]
                        /\ \A e \in Listed(h) : IsNodeAtEnd(h, e) <=> e = list[Len(list)]
                        /\ \A e \in Entries : IsNodeInList(h, e) <=> e \in Listed(h)
  BY DEF ReadsAsSequence
<1> DEFINE list == contents[h]
           ring == <<h>> \o list \o <<h>>
           At(i) == NodeAt(h, list, i)
<1>1. /\ Proper(h, list) /\ ToSet(list) \subseteq linked /\ Chain(links.forward, h, list)
      /\ Rings(links, linked) /\ h \in linked
  BY DEF ListInv, OnRing
<1>2. /\ Len(list) \in Nat /\ DOMAIN list = 1 .. Len(list) /\ list \in Seq(Entries)
      /\ h \notin ToSet(list)
      /\ \A i \in 1 .. Len(list) : At(i) \in ToSet(list)
      /\ \A i \in Nat : At(i) \in ToSet(list) \cup {h}
      /\ At(0) = h /\ At(Len(list) + 1) = h
      /\ \A i \in 1 .. Len(list) : At(i) = list[i]
  BY <1>1, NodesApart DEF Proper, NodeAt
<1>3. Listed(h) = ToSet(list)
  BY <1>2 DEF Listed, ToSet
<1>4. \A i \in 0 .. Len(list) + 1 : ring[i + 1] = At(i)
  BY <1>1, RingReads
<1>5. \A i \in 0 .. Len(list) : links.forward[At(i)] = At(i + 1)
  BY <1>1 DEF Chain
<1>6. \A i \in 0 .. Len(list) : links.back[At(i + 1)] = At(i)
  <2>1. SUFFICES ASSUME NEW i \in 0 .. Len(list) PROVE links.back[At(i + 1)] = At(i)
    OBVIOUS
  <2>2. i \in Nat
    BY <1>2
  <2> HIDE DEF At, list
  <2>3. At(i) \in linked
    BY <2>2, <1>1, <1>2
  <2> QED
    BY <2>3, <1>1, <1>5 DEF Rings
<1> HIDE DEF ring, At, list
<1>7. GetFirstNode(h) = ring[2]
  <2>1. 0 \in 0 .. Len(list) /\ 1 \in 0 .. Len(list) + 1 /\ 0 + 1 = 1 /\ 1 + 1 = 2
    BY <1>2
  <2>2. links.forward[At(0)] = At(0 + 1) /\ ring[1 + 1] = At(1)
    BY <2>1, <1>4, <1>5
  <2> QED
    BY <2>1, <2>2, <1>2 DEF GetFirstNode
<1>8. IsListEmpty(h) <=> list = << >>
  <2>1. 0 \in 0 .. Len(list) /\ 0 + 1 = 1
    BY <1>2
  <2>2. links.forward[h] = At(1)
    BY <2>1, <1>2, <1>5
  <2>3. CASE Len(list) = 0
    <3>1. list = << >> /\ At(1) = h
      BY <2>1, <2>3, <1>2
    <3> QED
      BY <3>1, <2>2 DEF IsListEmpty
  <2>4. CASE Len(list) # 0
    <3>1. 1 \in 1 .. Len(list) /\ list # << >>
      BY <2>4, <1>2
    <3>2. At(1) # h
      BY <3>1, <1>2
    <3> QED
      BY <3>1, <3>2, <2>2 DEF IsListEmpty
  <2> QED
    BY <2>3, <2>4
<1>9. ASSUME NEW i \in 1 .. Len(list) + 1
      PROVE  GetNextNode(ring[i]) = ring[i + 1] /\ GetPreviousNode(ring[i + 1]) = ring[i]
  <2>1. PICK k : k = i - 1
    OBVIOUS
  <2>2. k \in 0 .. Len(list) /\ k \in 0 .. Len(list) + 1 /\ i \in 0 .. Len(list) + 1 /\ i = k + 1
    BY <2>1, <1>2
  <2>3. ring[i] = At(k) /\ ring[i + 1] = At(i)
    BY <2>2, <1>4
  <2> QED
    BY <2>2, <2>3, <1>5, <1>6 DEF GetNextNode, GetPreviousNode
<1>10. ASSUME NEW e \in Listed(h)
       PROVE  IsNodeAtEnd(h, e) <=> e = list[Len(list)]
  <2>1. e \in ToSet(list) /\ e # h
    BY <1>2, <1>3
  <2>2. Len(list) \in 1 .. Len(list)
    BY <2>1, <1>2 DEF ToSet
  <2>3. links.back[h] = list[Len(list)]
    <3>1. Len(list) \in 0 .. Len(list)
      BY <1>2
    <3>2. links.back[At(Len(list) + 1)] = At(Len(list))
      BY <3>1, <1>6
    <3> QED
      BY <3>2, <2>2, <1>2
  <2> QED
    BY <2>1, <2>3 DEF IsNodeAtEnd, IsNull
<1>11. \A e \in Entries : IsNodeInList(h, e) <=> e \in Listed(h)
  BY <1>3, WalkFinds DEF list
<1> QED
  BY <1>7, <1>8, <1>9, <1>10, <1>11 DEF ring, list

-----------------------------------------------------------------------------
LEMMA ListInvHolds == Spec => []ListInv
<1>1. Init => ListInv
  <2> SUFFICES ASSUME Init PROVE ListInv
    OBVIOUS
  <2>1. Rings(links, linked)
    BY DEF Init, Rings, Links, Pointers
  <2>2. linked = {} /\ contents \in [Heads -> Seq(Entries)] /\ \A h \in Heads : contents[h] = << >>
    BY DEF Init
  <2>3. ToSet(<< >>) = {} /\ IsInjective(<< >>) /\ << >> \in Seq(Entries)
    BY DEF ToSet, IsInjective
  <2>4. \A h \in Heads : OnRing(h)
    BY <2>2, <2>3 DEF OnRing, Proper
  <2> QED
    BY <2>1, <2>2, <2>3, <2>4 DEF ListInv
<1>2. ListInv /\ [Next]_vars => ListInv'
  <2> SUFFICES ASSUME ListInv, [Next]_vars PROVE ListInv'
    OBVIOUS
  <2>1. ASSUME NEW h \in Heads, InitializeListHead(h) PROVE ListInv'
    BY <2>1, InitializeKeeps
  <2>2. ASSUME NEW h \in Heads, NEW e \in Entries, InsertHead(h, e) PROVE ListInv'
    BY <2>2, InsertHeadKeeps
  <2>3. ASSUME NEW h \in Heads, NEW e \in Entries, InsertTail(h, e) PROVE ListInv'
    BY <2>3, InsertTailKeeps
  <2>4. ASSUME NEW h \in Heads, NEW e \in Entries, RemoveEntry(h, e) PROVE ListInv'
    BY <2>4, RemoveKeeps
  <2>5. ASSUME NEW h \in Heads, NEW first \in Entries, NEW second \in Entries,
               Swap(h, first, second)
        PROVE  ListInv'
    BY <2>5, SwapKeeps
  <2>6. CASE UNCHANGED vars
    <3>1. links' = links /\ linked' = linked /\ contents' = contents
      BY <2>6 DEF vars
    <3> QED
      BY <3>1 DEF ListInv, OnRing
  <2> QED
    BY <2>1, <2>2, <2>3, <2>4, <2>5, <2>6 DEF Next
<1> QED
  BY <1>1, <1>2, PTL DEF Spec

(* Through any sequence of calls on any lists, the links of the nodes that *)
(* are on lists are each other's inverse and never lead to one that has    *)
(* been removed or was never inserted (LinkedList.c:158 to 551).           *)
THEOREM RingsCorrect == Spec => []RingsIntact
<1>1. ListInv => RingsIntact
  BY DEF ListInv, Rings, RingsIntact
<1> QED
  BY <1>1, ListInvHolds, PTL

(* Each list reads, forwards, backwards and through the queries, as the    *)
(* sequence that its insertions, removals and exchanges stand for.         *)
THEOREM ListsCorrect == Spec => []ListsExact
<1>1. ListInv => RingsIntact
  BY DEF ListInv, Rings, RingsIntact
<1>2. ListInv => ListsExact
  BY <1>1, InvReads DEF ListsExact
<1> QED
  BY <1>2, ListInvHolds, PTL

-----------------------------------------------------------------------------
(* Division with remainder, which the provers know of constants only.      *)

LEMMA Division ==
  ASSUME NEW a \in Int
  PROVE  \E q, r \in Int : r = a % Modulus /\ 0 <= r /\ r < Modulus /\ a = Modulus * q + r
<1>1. a = (a % Modulus) + Modulus * (a \div Modulus)
  BY ModulusAssumption, SMTT(60)
<1>2. a % Modulus \in Int /\ 0 <= a % Modulus /\ a % Modulus < Modulus /\ a \div Modulus \in Int
  BY ModulusAssumption
<1>3. SUFFICES ASSUME NEW r, NEW q, r = a % Modulus, q = a \div Modulus
               PROVE  /\ r = a % Modulus /\ 0 <= r /\ r < Modulus /\ a = Modulus * q + r
                      /\ r \in Int /\ q \in Int
  OBVIOUS
<1>4. Modulus * q \in Int
  BY <1>2, <1>3, ModulusAssumption
<1>5. a = r + Modulus * q
  BY <1>1, <1>3
<1>6. a = Modulus * q + r
  BY <1>2, <1>3, <1>4, <1>5
<1> QED
  BY <1>2, <1>3, <1>6

LEMMA MultipleLeavesNothing ==
  ASSUME NEW a \in Int, NEW k \in Int, a = Modulus * k
  PROVE  a % Modulus = 0
<1>1. PICK q, r \in Int : r = a % Modulus /\ 0 <= r /\ r < Modulus /\ a = Modulus * q + r
  BY Division, Zenon
<1>2. Modulus * (k - q) = r
  BY <1>1, ModulusAssumption
<1>3. CASE k - q >= 1
  <2>1. Modulus * (k - q) >= Modulus
    BY <1>3, ModulusAssumption
  <2> QED
    BY <1>1, <1>2, <2>1, ModulusAssumption
<1>4. CASE k - q <= -1
  <2>1. Modulus * (k - q) <= -Modulus
    BY <1>4, ModulusAssumption
  <2> QED
    BY <1>1, <1>2, <2>1, ModulusAssumption
<1>5. CASE k = q
  BY <1>1, <1>2, <1>5, ModulusAssumption
<1> QED
  BY <1>3, <1>4, <1>5

LEMMA NothingLeftOfMultiple ==
  ASSUME NEW a \in Int, a % Modulus = 0
  PROVE  \E k \in Int : a = Modulus * k
<1>1. PICK q, r \in Int : r = a % Modulus /\ 0 <= r /\ r < Modulus /\ a = Modulus * q + r
  BY Division, Zenon
<1>2. a = Modulus * q
  BY <1>1, ModulusAssumption
<1> QED
  BY <1>2

(* A count that is reduced modulo the width differs from the one that is   *)
(* not by whole rounds of the counter.                                     *)
LEMMA ReducedCount ==
  ASSUME NEW c \in Int, NEW d \in Int, NEW n \in Int, (c + d) % Modulus = 0
  PROVE  /\ (c + n) % Modulus \in Int
         /\ (((c + n) % Modulus) + d - n) % Modulus = 0
<1>1. PICK k \in Int : c + d = Modulus * k
  BY NothingLeftOfMultiple
<1>2. PICK q, r \in Int :
        r = (c + n) % Modulus /\ 0 <= r /\ r < Modulus /\ c + n = Modulus * q + r
  <2>1. c + n \in Int
    OBVIOUS
  <2> QED
    BY <2>1, Division, Zenon
<1>3. r + d - n = Modulus * (k - q) /\ k - q \in Int /\ r + d - n \in Int
  BY <1>1, <1>2, ModulusAssumption
<1>4. ASSUME NEW a \in Int, a = r + d - n PROVE a % Modulus = 0
  BY <1>3, <1>4, MultipleLeavesNothing
<1>5. (r + d - n) % Modulus = 0
  BY <1>3, <1>4
<1> QED
  BY <1>2, <1>5

-----------------------------------------------------------------------------
(* The lock: who holds it is told by the places of the threads and the     *)
(* word they exchange; no other variable has a part in it.                 *)

Places ==
  { "outside", "spin", "try", "spin exchange", "try exchange", "inside", "release", "answer" }

LockInv  == pc \in [Threads -> Places] /\ MutualExclusion
CountInv == counter \in Int /\ ups \in Int /\ downs \in Int /\ CountsExact

LEMMA LockInit == SyncInit => LockInv
<1> SUFFICES ASSUME SyncInit PROVE LockInv
  OBVIOUS
<1>1. Holding = {}
  BY DEF SyncInit, Holding
<1> QED
  BY <1>1 DEF SyncInit, LockInv, Places, MutualExclusion, InitializeSpinLock,
              SPIN_LOCK_RELEASED, SPIN_LOCK_ACQUIRED

(* A step that leaves the word alone and moves t between places that do    *)
(* not differ in whether it holds the lock.                                *)
LEMMA Walks ==
  ASSUME LockInv, NEW t \in Threads, NEW place \in Places,
         spinLock' = spinLock, pc' = [pc EXCEPT ![t] = place],
         place \in {"inside", "release"} <=> pc[t] \in {"inside", "release"}
  PROVE  LockInv'
<1>1. pc' \in [Threads -> Places]
  BY DEF LockInv
<1>2. Holding' = Holding
  BY DEF LockInv, Holding
<1> QED
  BY <1>1, <1>2 DEF LockInv, MutualExclusion

LEMMA LockStep == LockInv /\ [SyncNext]_syncVars => LockInv'
<1> SUFFICES ASSUME LockInv, [SyncNext]_syncVars PROVE LockInv'
  OBVIOUS
<1> USE DEF Goto
<1>1. ASSUME NEW t \in Threads, AcquireSpinLock(t) \/ AcquireSpinLockOrFail(t)
      PROVE  LockInv'
  <2>1. PICK place \in {"spin", "try"} : pc' = [pc EXCEPT ![t] = place]
    BY <1>1 DEF AcquireSpinLock, AcquireSpinLockOrFail
  <2> QED
    BY <1>1, <2>1, Walks DEF AcquireSpinLock, AcquireSpinLockOrFail, Places
<1>2. ASSUME NEW t \in Threads, ReadLock(t) PROVE LockInv'
  <2>1. PICK place \in {"spin exchange", "try exchange"} : pc' = [pc EXCEPT ![t] = place]
    BY <1>2 DEF ReadLock
  <2> QED
    BY <1>2, <2>1, Walks DEF ReadLock, Places
<1>3. ASSUME NEW t \in Threads, Exchange(t) PROVE LockInv'
  <2> USE DEF InterlockedCompareExchangePointer, InterlockedCompareExchange64,
              InternalSyncCompareExchange64, InternalSyncCompareExchange32
  (* The lock was free: nobody held it, and t does now.                    *)
  <2>1. CASE spinLock = SPIN_LOCK_RELEASED
    <3>1. spinLock' = SPIN_LOCK_ACQUIRED /\ pc' = [pc EXCEPT ![t] = "inside"]
      BY <1>3, <2>1 DEF Exchange
    <3>2. Holding = {}
      BY <2>1 DEF LockInv, MutualExclusion, SPIN_LOCK_RELEASED, SPIN_LOCK_ACQUIRED
    <3>3. \A s \in Threads : pc[s] \notin {"inside", "release"}
      BY <3>2 DEF Holding
    <3>4. Holding' = {t}
      BY <3>1, <3>3 DEF LockInv, Holding
    <3>5. pc' \in [Threads -> Places]
      BY <3>1 DEF LockInv, Places
    <3> QED
      BY <3>1, <3>4, <3>5 DEF LockInv, MutualExclusion
  (* It was taken: it stays with the one who has it.                       *)
  <2>2. CASE spinLock # SPIN_LOCK_RELEASED
    <3>1. PICK place \in {"spin", "outside"} :
            spinLock' = spinLock /\ pc' = [pc EXCEPT ![t] = place]
      BY <1>3, <2>2 DEF Exchange
    <3> QED
      BY <1>3, <3>1, Walks DEF Exchange, Places
  <2> QED
    BY <2>1, <2>2
<1>4. ASSUME NEW t \in Threads, ReleaseSpinLock(t) PROVE LockInv'
  BY <1>4, Walks DEF ReleaseSpinLock, Places
<1>5. ASSUME NEW t \in Threads, StoreReleased(t) PROVE LockInv'
  <2>1. t \in Holding
    BY <1>5 DEF StoreReleased, Holding
  <2>2. \A s \in Threads : s # t => pc[s] \notin {"inside", "release"}
    BY <2>1 DEF LockInv, MutualExclusion, Holding
  <2>3. Holding' = {}
    BY <1>5, <2>2 DEF LockInv, StoreReleased, Holding
  <2>4. pc' \in [Threads -> Places] /\ spinLock' = SPIN_LOCK_RELEASED
    BY <1>5 DEF LockInv, StoreReleased, Places
  <2> QED
    BY <2>3, <2>4 DEF LockInv, MutualExclusion, SPIN_LOCK_RELEASED, SPIN_LOCK_ACQUIRED
<1>6. ASSUME NEW t \in Threads, NEW value, Counted(t, value) PROVE LockInv'
  <2>1. CASE build = "GCC"
    <3>1. pc' = [pc EXCEPT ![t] = "answer"]
      BY <1>6, <2>1 DEF Counted
    <3> QED
      BY <1>6, <3>1, Walks DEF Counted, Places
  <2>2. CASE build # "GCC"
    <3>1. pc' = pc /\ spinLock' = spinLock
      BY <1>6, <2>2 DEF Counted
    <3> QED
      BY <3>1 DEF LockInv, MutualExclusion, Holding
  <2> QED
    BY <2>1, <2>2
<1>7. ASSUME NEW t \in Threads, ReadAnswer(t) PROVE LockInv'
  BY <1>7, Walks DEF ReadAnswer, Places
<1>8. CASE UNCHANGED syncVars
  BY <1>8 DEF syncVars, LockInv, MutualExclusion, Holding
<1> QED
  BY <1>1, <1>2, <1>3, <1>4, <1>5, <1>6, <1>7, <1>8
     DEF SyncNext, Going, InterlockedIncrement, InterlockedDecrement

-----------------------------------------------------------------------------
(* The counter: it changes in one locked instruction, and what a thread    *)
(* reads of it afterwards is not stored back.                              *)

LEMMA CountInit == SyncInit => CountInv
<1>1. 0 % Modulus = 0
  BY MultipleLeavesNothing, ModulusAssumption
<1> QED
  BY <1>1 DEF SyncInit, CountInv, CountsExact

LEMMA CountStep == CountInv /\ [SyncNext]_syncVars => CountInv'
<1> SUFFICES ASSUME CountInv, [SyncNext]_syncVars PROVE CountInv'
  OBVIOUS
<1>1. counter \in Int /\ ups \in Int /\ downs \in Int /\ downs - ups \in Int
  BY DEF CountInv
<1>2. (counter + (downs - ups)) % Modulus = 0
  <2>1. counter + downs - ups = counter + (downs - ups)
    BY <1>1
  <2> QED
    BY <2>1 DEF CountInv, CountsExact
<1>3. ASSUME NEW t \in Threads, InterlockedIncrement(t) PROVE CountInv'
  <2> DEFINE n == 1
  <2>1. n \in Int
    OBVIOUS
  <2>2. counter' = (counter + n) % Modulus /\ ups' = ups + n /\ downs' = downs
    BY <1>3 DEF InterlockedIncrement, Counted, InternalSyncIncrement
  <2> HIDE DEF n
  <2>3. /\ (counter + n) % Modulus \in Int
        /\ (((counter + n) % Modulus) + (downs - ups) - n) % Modulus = 0
    BY <1>1, <1>2, <2>1, ReducedCount, ZenonT(90)
  <2>4. counter' + downs' - ups' = counter' + (downs - ups) - n
    BY <1>1, <2>1, <2>2, <2>3
  <2> QED
    BY <1>1, <2>1, <2>2, <2>3, <2>4 DEF CountInv, CountsExact
<1>4. ASSUME NEW t \in Threads, InterlockedDecrement(t) PROVE CountInv'
  <2> DEFINE n == Modulus - 1
  <2>1. n \in Int /\ counter + Modulus - 1 = counter + n
    BY <1>1, ModulusAssumption
  <2>2. counter' = (counter + n) % Modulus /\ ups' = ups /\ downs' = downs + 1
    BY <1>4, <2>1 DEF InterlockedDecrement, Counted, InternalSyncDecrement
  <2>3. counter' \in Int /\ (counter' + (downs - ups) - n) % Modulus = 0
    <3> HIDE DEF n
    <3>1. /\ (counter + n) % Modulus \in Int
          /\ (((counter + n) % Modulus) + (downs - ups) - n) % Modulus = 0
      BY <1>1, <1>2, <2>1, ReducedCount, Zenon
    <3> QED
      BY <2>2, <3>1
  <2>4. PICK k \in Int : counter' + (downs - ups) - n = Modulus * k
    <3>1. counter' + (downs - ups) - n \in Int
      BY <1>1, <2>1, <2>3
    <3> QED
      BY <2>3, <3>1, NothingLeftOfMultiple, Zenon
  <2>5. counter' + downs' - ups' = Modulus * (k + 1) /\ k + 1 \in Int
    BY <1>1, <2>2, <2>3, <2>4, ModulusAssumption
  <2>6. (counter' + downs' - ups') % Modulus = 0
    <3>1. counter' + downs' - ups' \in Int
      BY <1>1, <2>2, <2>3
    <3> QED
      BY <2>5, <3>1, MultipleLeavesNothing, Zenon
  <2> QED
    BY <1>1, <2>2, <2>3, <2>6 DEF CountInv, CountsExact
<1>5. ASSUME UNCHANGED << counter, ups, downs >> PROVE CountInv'
  BY <1>5 DEF CountInv, CountsExact
<1>6. ASSUME NEW t \in Threads,
             AcquireSpinLock(t) \/ AcquireSpinLockOrFail(t) \/ Going(t)
      PROVE  UNCHANGED << counter, ups, downs >>
  BY <1>6 DEF AcquireSpinLock, AcquireSpinLockOrFail, Going, ReadLock, Exchange,
              ReleaseSpinLock, StoreReleased, ReadAnswer, Counting
<1> QED
  BY <1>3, <1>4, <1>5, <1>6 DEF SyncNext, syncVars

-----------------------------------------------------------------------------
(* Whatever the threads do and in whatever order their instructions come,  *)
(* at most one holds the lock, the lock is taken just as long as one does, *)
(* and the counter stands at the difference of the increments and the      *)
(* decrements, reduced to its width (SynchronizationGcc.c:119 to 232).     *)
THEOREM LockCorrect == SyncSpec => []LockExact
<1>1. SyncInit => LockInv /\ CountInv
  BY LockInit, CountInit
<1>2. LockInv /\ CountInv /\ [SyncNext]_syncVars => (LockInv /\ CountInv)'
  BY LockStep, CountStep
<1>3. LockInv /\ CountInv => LockExact
  BY DEF LockInv, CountInv, LockExact
<1> QED
  BY <1>1, <1>2, <1>3, PTL DEF SyncSpec
================================================================================
