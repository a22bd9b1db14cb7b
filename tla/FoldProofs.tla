------------------------------ MODULE FoldProofs ------------------------------
(* Induction for proofs, what a fold over a sequence computes, and lists    *)
(* without duplicates.                                                      *)
(*                                                                          *)
(* The folds of the community modules are recursive functions over the sets *)
(* of indices that are still to be folded.  The lemmas show that such a     *)
(* function exists and that it goes through the sequence step by step; what *)
(* a fold preserves then follows with SetInduction.                         *)
EXTENDS Integers, Sequences, FiniteSetTheorems, SequenceTheorems, SequencesExt, TLAPS

(* Induction over a set of numbers instead of an operator: a set with 0 and *)
(* the successor of each of its members has all the numbers.  If n were not *)
(* in F, taking the successor would map the members up to n into themselves *)
(* without 0, a smaller set.                                                *)
LEMMA SetInduction ==
  ASSUME NEW F, F \subseteq Nat, 0 \in F, \A k \in F : k + 1 \in F
  PROVE  F = Nat
  <1>1. SUFFICES ASSUME NEW n \in Nat, n \notin F PROVE FALSE
    OBVIOUS
  <1> DEFINE G == { k \in F : k <= n }
             f == [k \in G |-> k + 1]
  <1>2. IsFiniteSet(G)
    <2>1. IsFiniteSet(0 .. n)
      BY FS_Interval
    <2>2. \A k \in G : k \in 0 .. n
      OBVIOUS
    <2> HIDE DEF G
    <2>3. G \subseteq 0 .. n
      BY <2>2
    <2>4. QED
      BY <2>1, <2>3, FS_Subset
  <1>3. 0 \in G
    OBVIOUS
  <1>4. IsFiniteSet(G \ {0}) /\ Cardinality(G \ {0}) = Cardinality(G) - 1 /\ Cardinality(G) \in Nat
    BY <1>2, <1>3, FS_RemoveElement, FS_CardinalityType
  <1>5. \A k \in G : k + 1 \in G \ {0}
    BY <1>1
  <1>6. G \subseteq Nat
    OBVIOUS
  <1> HIDE DEF G
  <1>7. f \in Injection(G, G \ {0})
    BY <1>5, <1>6 DEF Injection, IsInjective
  <1>8. Cardinality(G) <= Cardinality(G \ {0})
    BY <1>2, <1>4, <1>7, FS_Injection DEF ExistsInjection
  <1>9. QED
    BY <1>4, <1>8

(* A nonempty set of indices has a greatest member, and Max is it.          *)
LEMMA GreatestIndex ==
  ASSUME NEW m \in Nat, NEW s \in SUBSET (1 .. m), s # {}
  PROVE  Max(s) \in s /\ \A x \in s : Max(s) >= x
  <1> DEFINE Great(t) == \E x \in t : \A y \in t : x >= y
             F == { i \in Nat : \A t \in SUBSET (1 .. i) : t # {} => Great(t) }
  <1>1. 0 \in F
    <2>1. 1 .. 0 = {}
      OBVIOUS
    <2>2. \A t \in SUBSET (1 .. 0) : t = {}
      BY <2>1
    <2> HIDE DEF Great
    <2>3. QED
      BY <2>2
  <1>2. ASSUME NEW i \in F PROVE i + 1 \in F
    <2>1. SUFFICES ASSUME NEW t \in SUBSET (1 .. i + 1), t # {} PROVE Great(t)
      OBVIOUS
    <2>2. CASE i + 1 \in t
      BY <2>2
    <2>3. CASE i + 1 \notin t
      <3>1. t \in SUBSET (1 .. i)
        BY <2>3
      <3> HIDE DEF Great
      <3>2. QED
        BY <3>1, <2>1
    <2>4. QED
      BY <2>2, <2>3
  <1>3. F \subseteq Nat
    OBVIOUS
  <1> HIDE DEF F
  <1>4. F = Nat
    BY <1>1, <1>2, <1>3, SetInduction
  <1>5. Great(s)
    BY <1>4 DEF F
  <1>6. QED
    BY <1>5 DEF Max

(* it is the recursive function of a fold over the indices 1 .. n: it starts *)
(* with b, and step is the operation on a value and an index.               *)
IsFold(it, b, n, step) ==
  \A s \in SUBSET (1 .. n) :
    it[s] = IF s = {} THEN b ELSE step[<< it[s \ {Max(s)}], Max(s) >>]

(* Such a function exists.                                                  *)
LEMMA FoldExists ==
  ASSUME NEW V, NEW b \in V, NEW n \in Nat, NEW step \in [V \X (1 .. n) -> V]
  PROVE  \E it \in [SUBSET (1 .. n) -> V] : IsFold(it, b, n, step)
  <1> DEFINE Fold(it, m) ==
               \A s \in SUBSET (1 .. m) :
                 it[s] = IF s = {} THEN b ELSE step[<< it[s \ {Max(s)}], Max(s) >>]
             Exists(m) == \E it \in [SUBSET (1 .. m) -> V] : Fold(it, m)
             F == { m \in Nat : m <= n => Exists(m) }
  <1>1. 0 \in F
    <2> DEFINE it == [s \in SUBSET (1 .. 0) |-> b]
    <2>1. it \in [SUBSET (1 .. 0) -> V]
      OBVIOUS
    <2>2. \A s \in SUBSET (1 .. 0) : s = {}
      OBVIOUS
    <2>3. Fold(it, 0)
      BY <2>2
    <2>4. QED
      BY <2>1, <2>3
  <1>2. ASSUME NEW m \in F PROVE m + 1 \in F
    <2>1. SUFFICES ASSUME m + 1 <= n
                   PROVE  Exists(m + 1)
      <3> HIDE DEF Exists
      <3>1. QED
        BY <1>2
    <2>2. PICK old \in [SUBSET (1 .. m) -> V] : Fold(old, m)
      <3>1. m \in Nat /\ m <= n
        BY <2>1
      <3> HIDE DEF Exists
      <3>2. Exists(m)
        BY <3>1, <1>2
      <3>3. QED
        BY <3>2 DEF Exists
    <2> DEFINE new == [ s \in SUBSET (1 .. m + 1) |->
                          IF s \in SUBSET (1 .. m) THEN old[s]
                          ELSE step[<< old[s \ {m + 1}], m + 1 >>] ]
    <2>3. \A s \in SUBSET (1 .. m + 1) : s \ {m + 1} \in SUBSET (1 .. m)
      OBVIOUS
    <2>4. m + 1 \in 1 .. n
      BY <2>1
    <2>5. new \in [SUBSET (1 .. m + 1) -> V]
      BY <2>2, <2>3, <2>4
    <2>6. ASSUME NEW s \in SUBSET (1 .. m + 1)
          PROVE  new[s] = IF s = {} THEN b ELSE step[<< new[s \ {Max(s)}], Max(s) >>]
      <3>1. CASE s \in SUBSET (1 .. m)
        <4>1. new[s] = old[s] /\ s \ {Max(s)} \in SUBSET (1 .. m)
          BY <3>1
        <4>2. s \ {Max(s)} \in SUBSET (1 .. m + 1)
          OBVIOUS
        <4>3. new[s \ {Max(s)}] = old[s \ {Max(s)}]
          BY <4>1, <4>2
        <4>4. QED
          BY <4>1, <4>3, <3>1, <2>2
      <3>2. CASE s \notin SUBSET (1 .. m)
        <4>1. m + 1 \in s
          BY <3>2
        <4>2. Max(s) = m + 1
          <5>1. m + 1 \in Nat /\ s # {} /\ s \in SUBSET (1 .. m + 1)
            BY <4>1
          <5> DEFINE top == Max(s)
          <5>2. top \in s /\ \A x \in s : top >= x
            BY <5>1, GreatestIndex
          <5> HIDE DEF top
          <5>3. top = m + 1
            BY <5>1, <5>2, <4>1
          <5>4. QED
            BY <5>3 DEF top
        <4>3. s \ {m + 1} \in SUBSET (1 .. m + 1) /\ s \ {m + 1} \in SUBSET (1 .. m)
          BY <2>3
        <4>4. new[s \ {m + 1}] = old[s \ {m + 1}]
          BY <4>3
        <4>5. new[s] = step[<< old[s \ {m + 1}], m + 1 >>]
          BY <3>2
        <4>6. s # {}
          BY <4>1
        <4> HIDE DEF new
        <4>7. QED
          BY <4>2, <4>4, <4>5, <4>6
      <3>3. QED
        BY <3>1, <3>2
    <2>7. Fold(new, m + 1)
      BY <2>6
    <2> HIDE DEF new, Fold
    <2>8. QED
      BY <2>5, <2>7
  <1>3. F \subseteq Nat
    OBVIOUS
  <1> HIDE DEF F
  <1>4. n \in F
    BY <1>1, <1>2, <1>3, SetInduction
  <1>5. n <= n
    OBVIOUS
  <1> HIDE DEF Exists
  <1>6. Exists(n)
    BY <1>4, <1>5 DEF F
  <1>7. PICK it \in [SUBSET (1 .. n) -> V] : Fold(it, n)
    BY <1>6 DEF Exists
  <1>8. IsFold(it, b, n, step)
    BY <1>7 DEF IsFold
  <1>9. QED
    BY <1>8

(* The sets of indices it passes through on the way to 1 .. n.              *)
LEMMA PrefixIndices ==
  ASSUME NEW n \in Nat, NEW k \in 1 .. n
  PROVE  /\ 1 .. k \in SUBSET (1 .. n) /\ 1 .. k # {} /\ Max(1 .. k) = k
         /\ (1 .. k) \ {k} = 1 .. k - 1 /\ 1 .. k - 1 \in SUBSET (1 .. n)
  <1> DEFINE top == Max(1 .. k)
  <1>1. k \in Nat /\ 1 .. k \in SUBSET (1 .. k) /\ 1 .. k # {} /\ k \in 1 .. k
    OBVIOUS
  <1>2. top \in 1 .. k /\ \A x \in 1 .. k : top >= x
    BY <1>1, GreatestIndex
  <1> HIDE DEF top
  <1>3. top = k
    BY <1>1, <1>2
  <1>4. (1 .. k) \ {k} = 1 .. k - 1
    OBVIOUS
  <1>5. 1 .. k - 1 \in SUBSET (1 .. n)
    OBVIOUS
  <1>6. 1 .. k \in SUBSET (1 .. n)
    OBVIOUS
  <1>7. Max(1 .. k) = k
    BY <1>3 DEF top
  <1> HIDE DEF top
  <1>8. QED
    BY <1>1, <1>4, <1>5, <1>6, <1>7

(* A nonempty set of indices has a least member, and Min is it.             *)
LEMMA LeastIndex ==
  ASSUME NEW m \in Nat, NEW s \in SUBSET (1 .. m), s # {}
  PROVE  Min(s) \in s /\ \A x \in s : Min(s) <= x
  <1> DEFINE Low(u) == \E x \in u : \A y \in u : x <= y
             F == { i \in Nat : \A u \in SUBSET (1 .. m) : (\E x \in u : x <= i) => Low(u) }
  <1>1. 0 \in F
    OBVIOUS
  <1>2. ASSUME NEW i \in F PROVE i + 1 \in F
    <2>1. SUFFICES ASSUME NEW u \in SUBSET (1 .. m), NEW z \in u, z <= i + 1 PROVE Low(u)
      OBVIOUS
    <2>2. CASE \E x \in u : x <= i
      <3> HIDE DEF Low
      <3>1. QED
        BY <2>2
    <2>3. CASE ~\E x \in u : x <= i
      <3>1. i \in Nat /\ \A x \in u : x \in Nat /\ i < x
        BY <2>3
      <3>2. \A x \in u : z <= x
        BY <2>1, <3>1
      <3>3. QED
        BY <3>2
    <2>4. QED
      BY <2>2, <2>3
  <1>3. F \subseteq Nat
    OBVIOUS
  <1> HIDE DEF F
  <1>4. F = Nat
    BY <1>1, <1>2, <1>3, SetInduction
  <1>5. PICK z \in s : TRUE
    OBVIOUS
  <1>6. z \in Nat /\ z <= z
    BY <1>5
  <1>7. Low(s)
    BY <1>4, <1>5, <1>6 DEF F
  <1>8. QED
    BY <1>7 DEF Min

(* it is what a recursive function computes that starts with b and takes    *)
(* one step from each number to the next, up to n.                          *)
IsIteration(it, b, n, step) ==
  it = [i \in 0 .. n |-> IF i = 0 THEN b ELSE step[it[i - 1]]]

(* There is such a function, whatever the step.                             *)
LEMMA IterationExists ==
  ASSUME NEW V, NEW b \in V, NEW n \in Nat, NEW step \in [V -> V]
  PROVE  \E it \in [0 .. n -> V] : IsIteration(it, b, n, step)
  <1> DEFINE Exists(m) == \E it \in [0 .. m -> V] : IsIteration(it, b, m, step)
             F == { m \in Nat : Exists(m) }
  <1>1. 0 \in F
    <2> DEFINE it == [i \in 0 .. 0 |-> b]
    <2>1. \A i \in 0 .. 0 : i = 0
      OBVIOUS
    <2>2. it \in [0 .. 0 -> V] /\ IsIteration(it, b, 0, step)
      BY <2>1 DEF IsIteration
    <2>3. QED
      BY <2>2
  <1>2. ASSUME NEW m \in F PROVE m + 1 \in F
    <2>1. PICK old \in [0 .. m -> V] : IsIteration(old, b, m, step)
      OBVIOUS
    <2> DEFINE new == [i \in 0 .. m + 1 |-> IF i \in 0 .. m THEN old[i] ELSE step[old[m]]]
    <2>2. m \in Nat /\ m \in 0 .. m
      OBVIOUS
    <2>3. new \in [0 .. m + 1 -> V]
      BY <2>1, <2>2
    <2>4. ASSUME NEW i \in 0 .. m + 1
          PROVE  new[i] = IF i = 0 THEN b ELSE step[new[i - 1]]
      <3>1. CASE i = 0
        BY <3>1, <2>1, <2>2 DEF IsIteration
      <3>2. CASE i \in 1 .. m
        <4>1. i \in 0 .. m /\ i - 1 \in 0 .. m /\ i - 1 \in 0 .. m + 1 /\ i # 0
          BY <3>2, <2>2
        <4>2. old[i] = step[old[i - 1]]
          BY <4>1, <2>1 DEF IsIteration
        <4>3. QED
          BY <4>1, <4>2
      <3>3. CASE i = m + 1
        <4>1. i \notin 0 .. m /\ i - 1 = m /\ i # 0 /\ m \in 0 .. m + 1
          BY <3>3, <2>2
        <4>2. QED
          BY <4>1, <2>2
      <3>4. QED
        BY <3>1, <3>2, <3>3, <2>2
    <2>5. IsIteration(new, b, m + 1, step)
      <3>1. new = [i \in 0 .. m + 1 |-> new[i]]
        OBVIOUS
      <3> HIDE DEF new
      <3>2. QED
        BY <3>1, <2>4 DEF IsIteration
    <2>6. m + 1 \in Nat
      BY <2>2
    <2> HIDE DEF new
    <2>7. QED
      BY <2>3, <2>5, <2>6
  <1>3. F \subseteq Nat
    OBVIOUS
  <1> HIDE DEF F
  <1>4. n \in F
    BY <1>1, <1>2, <1>3, SetInduction
  <1>5. QED
    BY <1>4 DEF F

-----------------------------------------------------------------------------
(* Lists without duplicates.                                               *)

(* Appending a new element.                                                *)
LEMMA AppendElement ==
  ASSUME NEW S, NEW s \in Seq(S), IsInjective(s), NEW i \in S, i \notin ToSet(s)
  PROVE  /\ Append(s, i) \in Seq(S)
         /\ IsInjective(Append(s, i))
         /\ ToSet(Append(s, i)) = ToSet(s) \cup {i}
  <1>1. Append(s, i) \in Seq(S) /\ Len(Append(s, i)) = Len(s) + 1
    OBVIOUS
  <1>2. /\ \A k \in 1 .. Len(s) : Append(s, i)[k] = s[k]
        /\ Append(s, i)[Len(s) + 1] = i
    OBVIOUS
  <1>3. DOMAIN s = 1 .. Len(s) /\ DOMAIN Append(s, i) = 1 .. (Len(s) + 1)
    BY <1>1
  <1>4. IsInjective(Append(s, i))
    BY <1>2, <1>3 DEF IsInjective, ToSet
  <1>5. ToSet(Append(s, i)) = ToSet(s) \cup {i}
    BY <1>2, <1>3 DEF ToSet
  <1>6. QED
    BY <1>1, <1>4, <1>5

(* Taking an element out: the list keeps the order of the others.          *)
LEMMA RemoveElementAt ==
  ASSUME NEW S, NEW s \in Seq(S), NEW n \in 1 .. Len(s)
  PROVE  /\ RemoveAt(s, n) \in Seq(S)
         /\ Len(RemoveAt(s, n)) = Len(s) - 1
         /\ \A k \in 1 .. Len(s) - 1 :
              RemoveAt(s, n)[k] = IF k < n THEN s[k] ELSE s[k + 1]
  <1>1. /\ SubSeq(s, 1, n - 1) \in Seq(S)
        /\ Len(SubSeq(s, 1, n - 1)) = n - 1
        /\ \A k \in 1 .. n - 1 : SubSeq(s, 1, n - 1)[k] = s[k]
    OBVIOUS
  <1>2. /\ SubSeq(s, n + 1, Len(s)) \in Seq(S)
        /\ Len(SubSeq(s, n + 1, Len(s))) = Len(s) - n
        /\ \A k \in 1 .. Len(s) - n : SubSeq(s, n + 1, Len(s))[k] = s[n + k]
    OBVIOUS
  <1> DEFINE a == SubSeq(s, 1, n - 1)
             b == SubSeq(s, n + 1, Len(s))
  <1> HIDE DEF a, b
  <1>3. /\ a \o b \in Seq(S)
        /\ Len(a \o b) = Len(a) + Len(b)
        /\ \A k \in 1 .. Len(a) + Len(b) :
             (a \o b)[k] = IF k <= Len(a) THEN a[k] ELSE b[k - Len(a)]
    BY <1>1, <1>2, ConcatProperties DEF a, b
  <1>4. Len(s) \in Nat /\ n \in Int /\ Len(a) = n - 1 /\ Len(b) = Len(s) - n
    BY <1>1, <1>2 DEF a, b
  <1>5. Len(a) + Len(b) = Len(s) - 1
    BY <1>4
  <1>6. ASSUME NEW k \in 1 .. Len(s) - 1
        PROVE  (a \o b)[k] = IF k < n THEN s[k] ELSE s[k + 1]
    <2>1. (a \o b)[k] = IF k <= n - 1 THEN a[k] ELSE b[k - (n - 1)]
      BY <1>3, <1>4, <1>5
    <2>2. CASE k < n
      BY <2>1, <2>2, <1>1, <1>4 DEF a
    <2>3. CASE ~(k < n)
      <3>1. k - (n - 1) \in 1 .. Len(s) - n /\ n + (k - (n - 1)) = k + 1
        BY <2>3, <1>4
      <3>2. b[k - (n - 1)] = s[k + 1]
        BY <3>1, <1>2 DEF b
      <3>3. QED
        BY <2>1, <2>3, <3>2, <1>4
    <2>4. QED
      BY <2>2, <2>3
  <1>7. QED
    BY <1>3, <1>4, <1>5, <1>6 DEF RemoveAt, a, b

(* What is left is still without duplicates, and all but the element.      *)
LEMMA RemoveElement ==
  ASSUME NEW S, NEW s \in Seq(S), IsInjective(s), NEW n \in 1 .. Len(s)
  PROVE  /\ RemoveAt(s, n) \in Seq(S)
         /\ IsInjective(RemoveAt(s, n))
         /\ ToSet(RemoveAt(s, n)) = ToSet(s) \ {s[n]}
  <1> DEFINE i == s[n]
             t == RemoveAt(s, n)
  <1>1. /\ n \in 1 .. Len(s) /\ s[n] = i
        /\ \A k \in 1 .. Len(s) : s[k] = i => k = n
    BY DEF IsInjective
  <1>2. /\ t \in Seq(S)
        /\ Len(t) = Len(s) - 1
        /\ \A k \in 1 .. Len(s) - 1 : t[k] = IF k < n THEN s[k] ELSE s[k + 1]
    BY <1>1, RemoveElementAt
  <1> HIDE DEF i, t
  <1>3. DOMAIN s = 1 .. Len(s) /\ DOMAIN t = 1 .. Len(s) - 1 /\ Len(s) \in Nat
    BY <1>2
  <1>4. IsInjective(t)
    BY <1>1, <1>2, <1>3, SMTT(60) DEF IsInjective
  <1>5. ASSUME NEW k \in 1 .. Len(s) - 1
        PROVE  t[k] \in ToSet(s) \ {i}
    <2>1. k \in 1 .. Len(s) /\ k + 1 \in 1 .. Len(s) /\ k # k + 1
      BY <1>3
    <2>2. CASE k < n
      BY <2>1, <2>2, <1>1, <1>2, <1>3 DEF ToSet
    <2>3. CASE ~(k < n)
      <3>1. t[k] = s[k + 1] /\ k + 1 # n
        BY <2>1, <2>3, <1>1, <1>2, <1>3
      <3>2. s[k + 1] # i
        BY <3>1, <2>1, <1>1
      <3>3. QED
        BY <3>1, <3>2, <2>1, <1>3 DEF ToSet
    <2>4. QED
      BY <2>2, <2>3
  <1>6. ASSUME NEW k \in 1 .. Len(s), s[k] # i
        PROVE  s[k] \in ToSet(t)
    <2>1. CASE k < n
      BY <2>1, <1>1, <1>2, <1>3 DEF ToSet
    <2>2. CASE k > n
      <3>1. k - 1 \in 1 .. Len(s) - 1 /\ t[k - 1] = s[k]
        BY <2>2, <1>1, <1>2, <1>3
      <3>2. QED
        BY <3>1, <1>3 DEF ToSet
    <2>3. QED
      BY <1>1, <1>3, <1>6, <2>1, <2>2
  <1>7. ToSet(t) = ToSet(s) \ {i}
    BY <1>3, <1>5, <1>6 DEF ToSet
  <1>8. QED
    BY <1>2, <1>4, <1>7 DEF i, t

LEMMA FirstNumbers ==
  ASSUME NEW n \in Nat
  PROVE  IsFiniteSet(1 .. n) /\ Cardinality(1 .. n) = n
  <1>1. 1 \in Int /\ n \in Int
    OBVIOUS
  <1>2. /\ IsFiniteSet(1 .. n)
        /\ Cardinality(1 .. n) = IF 1 > n THEN 0 ELSE n - 1 + 1
    BY <1>1, FS_Interval
  <1>3. QED
    BY <1>2

(* A list without duplicates is as long as its set is large.               *)
LEMMA InjectiveLength ==
  ASSUME NEW S, NEW q \in Seq(S), IsInjective(q)
  PROVE  Len(q) = Cardinality(ToSet(q))
  <1> DEFINE n == Len(q)  T == ToSet(q)
  <1>1. n \in Nat /\ DOMAIN q = 1 .. n /\ q = [k \in 1 .. n |-> q[k]]
    OBVIOUS
  <1>2. IsFiniteSet(1 .. n) /\ Cardinality(1 .. n) = n
    <2> HIDE DEF n
    <2>1. QED
      BY <1>1, FirstNumbers
  <1>3. q \in Bijection(1 .. n, T)
    <2>1. T = { q[k] : k \in 1 .. n }
      BY <1>1 DEF ToSet
    <2>2. \A a, b \in 1 .. n : q[a] = q[b] => a = b
      BY <1>1 DEF IsInjective
    <2> HIDE DEF n, T
    <2>3. q \in [1 .. n -> T]
      BY <1>1, <2>1
    <2>4. \A y \in T : \E k \in 1 .. n : q[k] = y
      BY <2>1
    <2>5. QED
      BY <1>1, <2>2, <2>3, <2>4 DEF Bijection, Injection, Surjection, IsInjective
  <1> HIDE DEF n, T
  <1>4. QED
    BY <1>2, <1>3, FS_Bijection DEF ExistsBijection, n, T

(* SetToSeq lists each element of a finite set once.                       *)
LEMMA SetListed ==
  ASSUME NEW S, IsFiniteSet(S)
  PROVE  /\ SetToSeq(S) \in Seq(S)
         /\ Len(SetToSeq(S)) = Cardinality(S)
         /\ IsInjective(SetToSeq(S))
         /\ ToSet(SetToSeq(S)) = S
  <1> DEFINE n == Cardinality(S)
             Lists(f) == f \in [1 .. n -> S] /\ IsInjective(f)
  <1>1. n \in Nat
    BY FS_CardinalityType
  <1>2. \E f : Lists(f)
    BY FS_CardinalityType DEF ExistsBijection, Bijection, Injection, IsInjective
  <1>3. PICK q : q = SetToSeq(S)
    OBVIOUS
  <1>4. q \in [1 .. n -> S] /\ IsInjective(q)
    BY <1>2, <1>3 DEF SetToSeq
  <1>5. q \in Seq(S) /\ Len(q) = n /\ DOMAIN q = 1 .. n
    BY <1>1, <1>4
  <1>6. IsFiniteSet(1 .. n) /\ Cardinality(1 .. n) = n
    <2> HIDE DEF n
    <2>1. QED
      BY <1>1, FirstNumbers
  <1>7. q \in Surjection(1 .. n, S)
    <2>1. q \in Injection(1 .. n, S)
      BY <1>4 DEF Injection, IsInjective
    <2> HIDE DEF n
    <2>2. QED
      BY <1>6, <2>1, FS_Injection DEF n
  <1>8. ToSet(q) = S
    BY <1>4, <1>5, <1>7 DEF ToSet, Surjection
  <1>9. QED
    BY <1>3, <1>4, <1>5, <1>8
===============================================================================
