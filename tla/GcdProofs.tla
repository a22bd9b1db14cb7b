------------------------------ MODULE GcdProofs -------------------------------
(* Proofs about Gcd.                                                        *)
(*                                                                          *)
(* First the list alone: what it means that a list tiles an interval, that  *)
(* splitting, cutting out and absorbing keep it so, and what the list is    *)
(* that Convert makes.  Then the state: the inductive invariant says that   *)
(* the map tiles the space with cells that are in order, and every service  *)
(* keeps it and does to the cells what the abstract space allows.           *)
EXTENDS GcdQueries, FoldProofs

-----------------------------------------------------------------------------
(* Lists that tile an interval.                                            *)

Entries(C) == [ base : Nat, end : Nat, cell : C ]

Covers(entry, a) == entry.base <= a /\ a <= entry.end

(* L lists the ranges of lo .. hi - 1 in address order, each byte in one,   *)
(* and of[a] is the cell of byte a.  Stronger than what the module states   *)
(* of neighbours, so that nothing about distant links needs an induction.   *)
Within(L, lo, hi) ==
  \A k \in 1 .. Len(L) : lo <= L[k].base /\ L[k].base <= L[k].end /\ L[k].end < hi
Ordered(L) ==
  \A j, k \in 1 .. Len(L) : j < k => L[j].end < L[k].base
Complete(L, lo, hi) ==
  \A a \in lo .. hi - 1 : \E k \in 1 .. Len(L) : Covers(L[k], a)
Exact(L, of) ==
  \A k \in 1 .. Len(L) : \A a \in L[k].base .. L[k].end : L[k].cell = of[a]

Tiles(L, lo, hi, C, of) ==
  /\ L \in Seq(Entries(C))
  /\ Within(L, lo, hi) /\ Ordered(L) /\ Complete(L, lo, hi) /\ Exact(L, of)

(* What the type of a list says of its entries.                             *)
LEMMA EntryTypes ==
  ASSUME NEW C, NEW L \in Seq(Entries(C))
  PROVE  /\ Len(L) \in Nat
         /\ \A k \in 1 .. Len(L) : L[k] \in Entries(C) /\ L[k].base \in Nat /\ L[k].end \in Nat
  <1>1. Len(L) \in Nat /\ \A k \in 1 .. Len(L) : L[k] \in Entries(C)
    OBVIOUS
  <1>2. QED
    BY <1>1 DEF Entries

(* All bytes from lo up to hi have cell c. *)
Same(of, lo, hi, c) == \A a \in lo .. hi - 1 : c = of[a]

Merged(L) == \A k \in 1 .. Len(L) - 1 : L[k].cell # L[k + 1].cell

(* Neighbours of such a list touch, and it begins and ends where it should. *)
LEMMA TilesTouch ==
  ASSUME NEW L, NEW lo \in Nat, NEW hi \in Nat, NEW C, NEW of, Tiles(L, lo, hi, C, of),
         lo < hi
  PROVE  /\ Len(L) \in Nat \ {0}
         /\ L[1].base = lo /\ L[Len(L)].end = hi - 1
         /\ \A k \in 1 .. Len(L) - 1 : L[k + 1].base = L[k].end + 1
  <1>1. Len(L) \in Nat /\ \A k \in 1 .. Len(L) : L[k].base \in Nat /\ L[k].end \in Nat
    BY EntryTypes DEF Tiles
  <1>2. PICK f \in 1 .. Len(L) : Covers(L[f], lo)
    BY DEF Tiles, Complete
  <1>3. PICK l \in 1 .. Len(L) : Covers(L[l], hi - 1)
    BY DEF Tiles, Complete
  <1>4. Len(L) \in Nat \ {0}
    BY <1>1, <1>2
  <1>5. L[1].base = lo
    <2>1. 1 \in 1 .. Len(L) /\ lo <= L[1].base /\ L[1].base <= L[1].end
      BY <1>1, <1>2 DEF Tiles, Within
    <2>2. L[f].base <= lo /\ L[f].base \in Nat /\ L[1].base \in Nat /\ L[1].end \in Nat
      BY <1>1, <1>2, <2>1 DEF Covers
    <2>3. 1 < f => L[1].end < L[f].base
      BY <2>1 DEF Tiles, Ordered
    <2>4. f = 1
      BY <1>1, <2>1, <2>2, <2>3
    <2>5. QED
      BY <2>1, <2>2, <2>4
  <1>6. L[Len(L)].end = hi - 1
    <2> DEFINE n == Len(L)
    <2>1. n \in 1 .. n /\ L[n].end < hi /\ L[n].base <= L[n].end
      BY <1>4 DEF Tiles, Within
    <2>2. hi - 1 <= L[l].end /\ L[l].end \in Nat /\ L[n].base \in Nat /\ L[n].end \in Nat
      BY <1>1, <1>3, <2>1 DEF Covers
    <2>3. l < n => L[l].end < L[n].base
      BY <2>1 DEF Tiles, Ordered
    <2>4. l = n
      BY <1>1, <2>1, <2>2, <2>3
    <2>5. QED
      BY <2>1, <2>2, <2>4
  <1>7. ASSUME NEW k \in 1 .. Len(L) - 1 PROVE L[k + 1].base = L[k].end + 1
    <2>1. PICK n \in 1 .. Len(L) : n = k + 1
      BY <1>1
    <2>2. k \in 1 .. Len(L) /\ k < n /\ \A i \in 1 .. Len(L) : i < k \/ i = k \/ i = n \/ n < i
      BY <1>1, <2>1
    <2> DEFINE kb == L[k].base  ke == L[k].end  nb == L[n].base  ne == L[n].end
    <2>3. /\ kb \in Nat /\ ke \in Nat /\ nb \in Nat /\ ne \in Nat
          /\ lo <= kb /\ kb <= ke /\ ke < nb /\ nb <= ne /\ ne < hi
      BY <1>1, <2>2 DEF Tiles, Within, Ordered
    <2>4. ke + 1 \in lo .. hi - 1
      <3> HIDE DEF kb, ke, nb, ne
      <3>1. QED
        BY <2>3
    <2>5. PICK j \in 1 .. Len(L) : Covers(L[j], ke + 1)
      BY <2>4 DEF Tiles, Complete
    <2> DEFINE jb == L[j].base  je == L[j].end
    <2>6. jb \in Nat /\ je \in Nat /\ jb <= ke + 1 /\ ke + 1 <= je
      BY <1>1, <2>5 DEF Covers
    <2>7. (j < k => je < kb) /\ (n < j => ne < jb)
      BY <2>2 DEF Tiles, Ordered
    <2>8. j # k
      BY <2>3, <2>6
    <2>9. j = n
      <3> HIDE DEF kb, ke, nb, ne, jb, je
      <3>1. ~(j < k) /\ ~(n < j)
        BY <2>3, <2>6, <2>7
      <3>2. QED
        BY <2>2, <2>8, <3>1
    <2>10. nb = ke + 1
      <3>1. nb <= ke + 1
        BY <2>6, <2>9
      <3> HIDE DEF kb, ke, nb, ne
      <3>2. QED
        BY <2>3, <3>1
    <2>11. QED
      BY <2>1, <2>10
  <1>8. QED
    BY <1>4, <1>5, <1>6, <1>7

(* The empty list.                                                          *)
LEMMA TilesNone ==
  ASSUME NEW lo \in Nat, NEW C, NEW of
  PROVE  Tiles(<< >>, lo, lo, C, of)
  BY DEF Tiles, Within, Ordered, Complete, Exact

(* A list of one entry.                                                     *)
LEMMA TilesOne ==
  ASSUME NEW C, NEW of, NEW entry \in Entries(C), entry.base <= entry.end,
         \A a \in entry.base .. entry.end : entry.cell = of[a]
  PROVE  Tiles(<< entry >>, entry.base, entry.end + 1, C, of)
  <1>1. entry.base \in Nat /\ entry.end \in Nat
    BY DEF Entries
  <1>2. << entry >> \in Seq(Entries(C)) /\ Len(<< entry >>) = 1 /\ << entry >>[1] = entry
    OBVIOUS
  <1>3. \A k \in 1 .. 1 : k = 1
    OBVIOUS
  <1>4. \A a \in entry.base .. entry.end + 1 - 1 : Covers(entry, a)
    BY <1>1 DEF Covers
  <1> DEFINE one == << entry >>
  <1>5. one \in Seq(Entries(C)) /\ Len(one) = 1 /\ one[1] = entry
    BY <1>2
  <1> HIDE DEF one
  <1>6. Tiles(one, entry.base, entry.end + 1, C, of)
    BY <1>1, <1>3, <1>4, <1>5 DEF Tiles, Within, Ordered, Complete, Exact
  <1>7. QED
    BY <1>6 DEF one

(* Two lists one after the other. *)
LEMMA TilesJoin ==
  ASSUME NEW L, NEW R, NEW lo \in Nat, NEW m \in Nat, NEW hi \in Nat, NEW C, NEW of,
         Tiles(L, lo, m, C, of), Tiles(R, m, hi, C, of), lo <= m, m <= hi
  PROVE  Tiles(L \o R, lo, hi, C, of)
  <1> DEFINE J == L \o R
  <1>1. /\ J \in Seq(Entries(C))
        /\ Len(L) \in Nat /\ Len(R) \in Nat /\ Len(J) = Len(L) + Len(R)
        /\ \A k \in 1 .. Len(J) : J[k] = IF k <= Len(L) THEN L[k] ELSE R[k - Len(L)]
    BY ConcatProperties DEF Tiles
  <1>2. /\ \A k \in 1 .. Len(L) : L[k].base \in Nat /\ L[k].end \in Nat
        /\ \A k \in 1 .. Len(R) : R[k].base \in Nat /\ R[k].end \in Nat
    BY EntryTypes DEF Tiles
  <1> HIDE DEF J
  <1>3. ASSUME NEW k \in 1 .. Len(J)
        PROVE  \/ k \in 1 .. Len(L) /\ J[k] = L[k]
               \/ k - Len(L) \in 1 .. Len(R) /\ J[k] = R[k - Len(L)]
    BY <1>1
  <1>4. ASSUME NEW k \in 1 .. Len(J)
        PROVE  lo <= J[k].base /\ J[k].base <= J[k].end /\ J[k].end < hi
    <2>1. CASE k \in 1 .. Len(L) /\ J[k] = L[k]
      <3>1. lo <= L[k].base /\ L[k].base <= L[k].end /\ L[k].end < m
        BY <2>1 DEF Tiles, Within
      <3>2. QED
        BY <1>2, <2>1, <3>1
    <2>2. CASE k - Len(L) \in 1 .. Len(R) /\ J[k] = R[k - Len(L)]
      <3>1. PICK x \in 1 .. Len(R) : J[k] = R[x]
        BY <2>2
      <3>2. m <= R[x].base /\ R[x].base <= R[x].end /\ R[x].end < hi
        BY DEF Tiles, Within
      <3>3. QED
        BY <1>2, <3>1, <3>2
    <2>3. QED
      BY <1>3, <2>1, <2>2
  <1>5. ASSUME NEW j \in 1 .. Len(J), NEW k \in 1 .. Len(J), j < k
        PROVE  J[j].end < J[k].base
    <2>1. CASE k \in 1 .. Len(L) /\ J[k] = L[k]
      <3>1. j \in 1 .. Len(L) /\ J[j] = L[j]
        BY <1>1, <1>5, <2>1
      <3>2. QED
        BY <1>5, <2>1, <3>1 DEF Tiles, Ordered
    <2>2. CASE k - Len(L) \in 1 .. Len(R) /\ J[k] = R[k - Len(L)]
      <3>1. CASE j \in 1 .. Len(L) /\ J[j] = L[j]
        <4>1. L[j].end < m /\ L[j].end \in Nat
          BY <1>2, <3>1 DEF Tiles, Within
        <4>2. m <= R[k - Len(L)].base /\ R[k - Len(L)].base \in Nat
          BY <1>2, <2>2 DEF Tiles, Within
        <4>3. QED
          BY <2>2, <3>1, <4>1, <4>2
      <3>2. CASE j - Len(L) \in 1 .. Len(R) /\ J[j] = R[j - Len(L)]
        <4>1. j - Len(L) < k - Len(L)
          BY <1>1, <1>5
        <4>2. QED
          BY <2>2, <3>2, <4>1 DEF Tiles, Ordered
      <3>3. QED
        BY <1>3, <3>1, <3>2
    <2>3. QED
      BY <1>3, <2>1, <2>2
  <1>6. ASSUME NEW a \in lo .. hi - 1 PROVE \E k \in 1 .. Len(J) : Covers(J[k], a)
    <2>1. CASE a \in lo .. m - 1
      <3>1. PICK k \in 1 .. Len(L) : Covers(L[k], a)
        BY <2>1 DEF Tiles, Complete
      <3>2. k \in 1 .. Len(J) /\ J[k] = L[k]
        BY <1>1
      <3>3. QED
        BY <3>1, <3>2
    <2>2. CASE a \in m .. hi - 1
      <3>1. PICK k \in 1 .. Len(R) : Covers(R[k], a)
        BY <2>2 DEF Tiles, Complete
      <3>2. Len(L) + k \in 1 .. Len(J) /\ J[Len(L) + k] = R[k]
        BY <1>1
      <3>3. QED
        BY <3>1, <3>2
    <2>3. QED
      BY <2>1, <2>2
  <1>7. ASSUME NEW k \in 1 .. Len(J), NEW a \in J[k].base .. J[k].end PROVE J[k].cell = of[a]
    <2>1. CASE k \in 1 .. Len(L) /\ J[k] = L[k]
      BY <2>1 DEF Tiles, Exact
    <2>2. CASE k - Len(L) \in 1 .. Len(R) /\ J[k] = R[k - Len(L)]
      BY <2>2 DEF Tiles, Exact
    <2>3. QED
      BY <1>3, <2>1, <2>2
  <1>8. Tiles(J, lo, hi, C, of)
    BY <1>1, <1>4, <1>5, <1>6, <1>7 DEF Tiles, Within, Ordered, Complete, Exact
  <1>9. QED
    BY <1>8 DEF J

(* A part of a list, from link i to link j. *)
LEMMA TilesPart ==
  ASSUME NEW L, NEW lo \in Nat, NEW hi \in Nat, NEW C, NEW of, Tiles(L, lo, hi, C, of),
         NEW i \in 1 .. Len(L), NEW j \in i .. Len(L)
  PROVE  Tiles(SubSeq(L, i, j), L[i].base, L[j].end + 1, C, of)
  <1> DEFINE P == SubSeq(L, i, j)
  <1>1. L \in Seq(Entries(C)) /\ Len(L) \in Nat
    BY DEF Tiles
  <1>2. /\ P \in Seq(Entries(C)) /\ Len(P) = j - i + 1
        /\ \A k \in 1 .. Len(P) : k + i - 1 \in i .. j /\ P[k] = L[k + i - 1]
    BY <1>1
  <1>3. \A k \in 1 .. Len(L) : L[k].base \in Nat /\ L[k].end \in Nat /\ L[k].base <= L[k].end
    BY EntryTypes DEF Tiles, Within
  <1> HIDE DEF P
  <1>4. ASSUME NEW k \in 1 .. Len(P)
        PROVE  L[i].base <= P[k].base /\ P[k].base <= P[k].end /\ P[k].end < L[j].end + 1
    <2>1. PICK x \in i .. j : P[k] = L[x]
      BY <1>2
    <2>2. x \in 1 .. Len(L) /\ j \in 1 .. Len(L)
      BY <1>1
    <2>3. /\ L[i].base \in Nat /\ L[i].end \in Nat /\ L[i].base <= L[i].end
          /\ L[x].base \in Nat /\ L[x].end \in Nat /\ L[x].base <= L[x].end
          /\ L[j].base \in Nat /\ L[j].end \in Nat /\ L[j].base <= L[j].end
      BY <1>3, <2>2
    <2>4. i < x => L[i].end < L[x].base
      BY <2>2 DEF Tiles, Ordered
    <2>5. x < j => L[x].end < L[j].base
      BY <2>2 DEF Tiles, Ordered
    <2>6. L[i].base <= L[x].base
      BY <1>1, <2>2, <2>3, <2>4
    <2>7. L[x].end <= L[j].end
      BY <1>1, <2>2, <2>3, <2>5
    <2>8. QED
      BY <2>1, <2>3, <2>6, <2>7, SMTT(60)
  <1>5. ASSUME NEW x \in 1 .. Len(P), NEW k \in 1 .. Len(P), x < k
        PROVE  P[x].end < P[k].base
    <2>1. x + i - 1 \in 1 .. Len(L) /\ k + i - 1 \in 1 .. Len(L) /\ x + i - 1 < k + i - 1
      BY <1>1, <1>2, <1>5, SMTT(60)
    <2>2. L[x + i - 1].end < L[k + i - 1].base
      BY <2>1 DEF Tiles, Ordered
    <2>3. QED
      BY <1>2, <2>2
  <1>6. Complete(P, L[i].base, L[j].end + 1)
    <2> SUFFICES ASSUME NEW a \in L[i].base .. (L[j].end + 1) - 1
                 PROVE  \E k \in 1 .. Len(P) : Covers(P[k], a)
      BY DEF Complete
    <2>1. j \in 1 .. Len(L)
      BY <1>1
    <2>2. lo <= L[i].base /\ L[j].end < hi /\ L[i].base \in Nat /\ L[j].end \in Nat
      BY <1>3, <2>1 DEF Tiles, Within
    <2>3. a \in lo .. hi - 1
      BY <2>2
    <2>4. PICK k \in 1 .. Len(L) : Covers(L[k], a)
      BY <2>3 DEF Tiles, Complete
    <2>5. L[k].base \in Nat /\ L[k].end \in Nat /\ L[k].base <= a /\ a <= L[k].end
      BY <1>3, <2>4 DEF Covers
    <2>6. ~(k < i)
      <3>1. k < i => L[k].end < L[i].base
        BY DEF Tiles, Ordered
      <3>2. QED
        BY <2>2, <2>5, <3>1
    <2>7. ~(j < k)
      <3>1. j < k => L[j].end < L[k].base
        BY <2>1 DEF Tiles, Ordered
      <3>2. QED
        BY <2>2, <2>5, <3>1
    <2>8. k - i + 1 \in 1 .. Len(P) /\ (k - i + 1) + i - 1 = k
      <3>1. k \in Nat /\ i \in Nat /\ j \in Nat /\ i <= k /\ k <= j
        BY <1>1, <2>6, <2>7
      <3>2. QED
        BY <1>2, <3>1
    <2>9. P[k - i + 1] = L[k]
      BY <1>2, <2>8
    <2>10. QED
      BY <2>4, <2>8, <2>9
  <1>7. ASSUME NEW k \in 1 .. Len(P), NEW a \in P[k].base .. P[k].end PROVE P[k].cell = of[a]
    <2>1. k + i - 1 \in 1 .. Len(L) /\ P[k] = L[k + i - 1]
      BY <1>1, <1>2
    <2>2. QED
      BY <2>1 DEF Tiles, Exact
  <1>8. Tiles(P, L[i].base, L[j].end + 1, C, of)
    <2>1. Within(P, L[i].base, L[j].end + 1)
      BY <1>4 DEF Within
    <2>2. Ordered(P)
      BY <1>5 DEF Ordered
    <2>3. Exact(P, of)
      BY <1>7 DEF Exact
    <2>4. QED
      BY <1>2, <1>6, <2>1, <2>2, <2>3 DEF Tiles
  <1>9. QED
    BY <1>8 DEF P

-----------------------------------------------------------------------------
(* Merging.                                                                *)

(* A part of a merged list is merged, and so are two merged lists one after *)
(* the other when the cells differ where they meet.                         *)
LEMMA MergedPart ==
  ASSUME NEW C, NEW L \in Seq(Entries(C)), Merged(L),
         NEW i \in 1 .. Len(L), NEW j \in i .. Len(L)
  PROVE  Merged(SubSeq(L, i, j))
  <1> DEFINE P == SubSeq(L, i, j)
  <1>1. Len(L) \in Nat
    OBVIOUS
  <1>2. Len(P) = j - i + 1 /\ \A k \in 1 .. Len(P) : P[k] = L[k + i - 1]
    OBVIOUS
  <1> HIDE DEF P
  <1>3. ASSUME NEW k \in 1 .. Len(P) - 1 PROVE P[k].cell # P[k + 1].cell
    <2>1. k \in 1 .. Len(P) /\ k + 1 \in 1 .. Len(P) /\ k + i - 1 \in 1 .. Len(L) - 1
      BY <1>1, <1>2
    <2>2. P[k] = L[k + i - 1] /\ P[k + 1] = L[(k + 1) + i - 1]
      BY <1>2, <2>1
    <2>3. (k + 1) + i - 1 = (k + i - 1) + 1
      BY <1>1, <1>2
    <2>4. QED
      BY <2>1, <2>2, <2>3 DEF Merged
  <1>4. Merged(P)
    BY <1>3 DEF Merged
  <1>5. QED
    BY <1>4 DEF P

(* Two merged lists one after the other are merged when they differ where   *)
(* they meet.                                                               *)
LEMMA MergedJoin ==
  ASSUME NEW C, NEW L \in Seq(Entries(C)), NEW R \in Seq(Entries(C)), Merged(L), Merged(R),
         L # << >> /\ R # << >> => L[Len(L)].cell # R[1].cell
  PROVE  Merged(L \o R)
  <1> DEFINE J == L \o R
  <1>1. /\ Len(L) \in Nat /\ Len(R) \in Nat /\ Len(J) = Len(L) + Len(R)
        /\ \A k \in 1 .. Len(J) : J[k] = IF k <= Len(L) THEN L[k] ELSE R[k - Len(L)]
    BY ConcatProperties
  <1> HIDE DEF J
  <1>2. ASSUME NEW k \in 1 .. Len(J) - 1 PROVE J[k].cell # J[k + 1].cell
    <2>1. k \in 1 .. Len(J) /\ k + 1 \in 1 .. Len(J)
      BY <1>1
    <2>2. CASE k + 1 <= Len(L)
      <3>1. J[k] = L[k] /\ J[k + 1] = L[k + 1] /\ k \in 1 .. Len(L) - 1
        BY <1>1, <2>1, <2>2
      <3>2. QED
        BY <3>1 DEF Merged
    <2>3. CASE k = Len(L)
      <3>1. J[k] = L[Len(L)]
        BY <1>1, <2>1, <2>3
      <3>2. J[k + 1] = R[1]
        <4>1. ~(k + 1 <= Len(L)) /\ (k + 1) - Len(L) = 1
          BY <1>1, <2>3
        <4>2. QED
          BY <1>1, <2>1, <4>1
      <3>3. L # << >> /\ R # << >>
        BY <1>1, <2>3
      <3>4. QED
        BY <3>1, <3>2, <3>3
    <2>4. CASE Len(L) < k
      <3> DEFINE x == k - Len(L)
      <3>1. x \in 1 .. Len(R) - 1 /\ x = k - Len(L)
        BY <1>1, <2>4
      <3> HIDE DEF x
      <3>2. J[k] = R[x]
        BY <1>1, <2>1, <2>4, <3>1
      <3>3. J[k + 1] = R[x + 1]
        <4>1. ~(k + 1 <= Len(L)) /\ (k + 1) - Len(L) = x + 1
          BY <1>1, <2>4, <3>1
        <4>2. QED
          BY <1>1, <2>1, <4>1
      <3>4. QED
        BY <3>1, <3>2, <3>3 DEF Merged
    <2>5. QED
      BY <1>1, <2>2, <2>3, <2>4
  <1>3. Merged(J)
    BY <1>2 DEF Merged
  <1>4. QED
    BY <1>3 DEF J

(* A list of at most one entry is merged.                                   *)
LEMMA MergedShort ==
  ASSUME NEW entry
  PROVE  Merged(<< >>) /\ Merged(<< entry >>)
  BY DEF Merged

(* Absorb makes a list of entries of one. *)
LEMMA AbsorbType ==
  ASSUME NEW C, NEW links \in Seq(Entries(C)), NEW entry \in Entries(C)
  PROVE  Absorb(links, entry) \in Seq(Entries(C))
  <1>1. CASE links # << >> /\ Last(links).cell = entry.cell
    <2>1. Len(links) \in Nat \ {0} /\ Last(links) \in Entries(C)
      BY <1>1 DEF Last
    <2>2. Front(links) \in Seq(Entries(C))
      BY <2>1 DEF Front
    <2>3. [entry EXCEPT !.base = Last(links).base] \in Entries(C)
      BY <2>1 DEF Entries
    <2>4. QED
      BY <1>1, <2>2, <2>3 DEF Absorb
  <1>2. CASE ~(links # << >> /\ Last(links).cell = entry.cell)
    BY <1>2 DEF Absorb
  <1>3. QED
    BY <1>1, <1>2

(* The lists that MergeAll goes through: the fold takes one link after the  *)
(* other.                                                                   *)
LEMMA MergeSteps ==
  ASSUME NEW C, NEW links \in Seq(Entries(C)), NEW touched \in Seq(Entries(C))
  PROVE  \E p : /\ p[0] = links
                /\ \A k \in 1 .. Len(touched) : p[k] = Absorb(p[k - 1], touched[k])
                /\ MergeAll(links, touched) = p[Len(touched)]
  <1> DEFINE n == Len(touched)
             V == Seq(Entries(C))
             Folds(it) ==
               it = [ s \in SUBSET (DOMAIN touched) |->
                        IF s = {} THEN links
                        ELSE Absorb(it[s \ {Max(s)}], touched[Max(s)]) ]
  <1>1. n \in Nat /\ DOMAIN touched = 1 .. n
    OBVIOUS
  <1>2. MergeAll(links, touched) = (CHOOSE it : Folds(it))[DOMAIN touched]
    BY DEF MergeAll, FoldLeft, MapThenFoldSet
  <1>3. \E it : Folds(it)
    <2> DEFINE step == [v \in V \X (1 .. n) |-> Absorb(v[1], touched[v[2]])]
    <2>1. \A l \in V : \A i \in 1 .. n : Absorb(l, touched[i]) \in V
      <3>1. \A i \in 1 .. n : touched[i] \in Entries(C)
        BY <1>1
      <3>2. QED
        BY <3>1, AbsorbType
    <2>2. step \in [V \X (1 .. n) -> V]
      <3> HIDE DEF V, n
      <3>1. QED
        BY <2>1
    <2>3. \A l \in V : \A i \in 1 .. n : step[<< l, i >>] = Absorb(l, touched[i])
      <3> HIDE DEF V, n
      <3>1. QED
        OBVIOUS
    <2> HIDE DEF step, V, n
    <2>4. PICK it \in [SUBSET (1 .. n) -> V] : IsFold(it, links, n, step)
      <3>1. links \in V /\ n \in Nat
        BY <1>1 DEF V
      <3>2. QED
        BY <2>2, <3>1, FoldExists
    <2>5. ASSUME NEW s \in SUBSET (1 .. n), s # {}
          PROVE  step[<< it[s \ {Max(s)}], Max(s) >>] = Absorb(it[s \ {Max(s)}], touched[Max(s)])
      <3>1. Max(s) \in s
        BY <1>1, <2>5, GreatestIndex
      <3>2. it[s \ {Max(s)}] \in V
        BY <2>4
      <3>3. QED
        BY <2>3, <2>5, <3>1, <3>2
    <2>6. it = [ s \in SUBSET (1 .. n) |->
                   IF s = {} THEN links ELSE Absorb(it[s \ {Max(s)}], touched[Max(s)]) ]
      BY <2>4, <2>5, Zenon DEF IsFold
    <2>7. Folds(it)
      BY <2>6, <1>1
    <2>8. QED
      BY <2>7
  <1>4. PICK it : it = CHOOSE x : Folds(x)
    OBVIOUS
  <1>5. Folds(it)
    BY <1>3, <1>4
  <1>6. it = [ s \in SUBSET (1 .. n) |->
                   IF s = {} THEN links ELSE Absorb(it[s \ {Max(s)}], touched[Max(s)]) ]
    BY <1>1, <1>5
  <1> DEFINE p == [k \in 0 .. n |-> it[1 .. k]]
  <1>7. \A k \in 0 .. n : p[k] = it[1 .. k]
    OBVIOUS
  <1> HIDE DEF p, Folds, n
  <1>8. p[0] = links
    <2>1. 1 .. 0 = {} /\ 0 \in 0 .. n
      BY <1>1
    <2>2. p[0] = it[{}]
      BY <2>1, <1>7
    <2>3. it[{}] = links
      BY <1>6
    <2>4. QED
      BY <2>2, <2>3
  <1>9. ASSUME NEW k \in 1 .. n PROVE p[k] = Absorb(p[k - 1], touched[k])
    <2>1. /\ 1 .. k \in SUBSET (1 .. n) /\ 1 .. k # {} /\ Max(1 .. k) = k
          /\ (1 .. k) \ {k} = 1 .. k - 1
      BY <1>1, PrefixIndices
    <2>2. k \in 0 .. n /\ k - 1 \in 0 .. n
      BY <1>1
    <2>3. it[1 .. k] = Absorb(it[1 .. k - 1], touched[k])
      BY <1>6, <2>1
    <2>4. QED
      BY <1>7, <2>2, <2>3
  <1>10. MergeAll(links, touched) = p[n]
    BY <1>1, <1>2, <1>4, <1>7
  <1>11. QED
    BY <1>8, <1>9, <1>10 DEF n

(* A list without its last link. *)
LEMMA FrontTiles ==
  ASSUME NEW L, NEW lo \in Nat, NEW hi \in Nat, NEW C, NEW of, Tiles(L, lo, hi, C, of),
         lo < hi
  PROVE  /\ Tiles(Front(L), lo, Last(L).base, C, of)
         /\ Merged(L) => /\ Merged(Front(L))
                         /\ Front(L) # << >> => Front(L)[Len(Front(L))].cell # Last(L).cell
  <1> DEFINE n == Len(L)
  <1>1. L \in Seq(Entries(C)) /\ n \in Nat \ {0} /\ L[1].base = lo /\ n \in 1 .. n
    BY TilesTouch DEF Tiles
  <1>2. Last(L) = L[n] /\ Front(L) = SubSeq(L, 1, n - 1)
    BY DEF Last, Front
  <1>3. CASE n = 1
    <2>1. Front(L) = << >>
      BY <1>1, <1>2, <1>3
    <2>2. Last(L).base = lo
      BY <1>1, <1>2, <1>3
    <2>3. QED
      BY <2>1, <2>2, TilesNone, MergedShort
  <1>4. CASE n # 1
    <2>1. n - 1 \in 1 .. n /\ 1 \in 1 .. n /\ n - 1 \in 1 .. n - 1
      <3>1. n \in Nat /\ n # 0 /\ n # 1
        BY <1>1, <1>4
      <3> HIDE DEF n
      <3>2. QED
        BY <3>1
    <2>2. L[(n - 1) + 1].base = L[n - 1].end + 1
      BY <2>1, TilesTouch
    <2>3. (n - 1) + 1 = n
      BY <1>1
    <2>4. Tiles(Front(L), lo, Last(L).base, C, of)
      BY <1>1, <1>2, <2>1, <2>2, <2>3, TilesPart
    <2>5. ASSUME Merged(L)
          PROVE  /\ Merged(Front(L))
                 /\ Front(L) # << >> => Front(L)[Len(Front(L))].cell # Last(L).cell
      <3>1. Merged(Front(L))
        BY <1>1, <1>2, <2>1, <2>5, MergedPart
      <3>2. Len(Front(L)) = n - 1 /\ Front(L)[n - 1] = L[n - 1]
        BY <1>1, <1>2, <2>1
      <3>3. L[n - 1].cell # L[(n - 1) + 1].cell
        BY <2>1, <2>5 DEF Merged
      <3>4. QED
        BY <1>2, <2>3, <3>1, <3>2, <3>3
    <2>6. QED
      BY <2>4, <2>5
  <1>5. QED
    BY <1>3, <1>4

(* One more entry, absorbed or appended. *)
LEMMA AbsorbTiles ==
  ASSUME NEW L, NEW lo \in Nat, NEW m \in Nat, NEW hi \in Nat, NEW C, NEW of,
         Tiles(L, lo, m, C, of), lo <= m, m < hi,
         NEW entry \in Entries(C), entry.base = m, entry.end = hi - 1,
         Same(of, m, hi, entry.cell)
  PROVE  /\ Tiles(Absorb(L, entry), lo, hi, C, of)
         /\ Absorb(L, entry) # << >> /\ Last(Absorb(L, entry)).cell = entry.cell
         /\ Merged(L) => Merged(Absorb(L, entry))
  <1>1. L \in Seq(Entries(C)) /\ Len(L) \in Nat
    BY EntryTypes DEF Tiles
  <1>2. CASE L # << >> /\ Last(L).cell = entry.cell
    <2> DEFINE n == Len(L)
               b == Last(L).base
               e == [entry EXCEPT !.base = b]
    <2>1. n \in 1 .. n /\ Last(L) = L[n]
      BY <1>1, <1>2 DEF Last
    <2>2. lo <= L[n].base /\ L[n].base <= L[n].end /\ L[n].end < m /\ L[n].base \in Nat
          /\ L[n].end \in Nat
      BY <1>1, <2>1, EntryTypes DEF Tiles, Within
    <2>3. lo < m
      BY <2>2
    <2>4. L[n].end = m - 1
      BY <2>3, TilesTouch
    <2>5. e \in Entries(C) /\ e.base = b /\ e.end = hi - 1 /\ e.cell = entry.cell
      BY <2>1, <2>2 DEF Entries
    <2>6. b \in Nat /\ lo <= b /\ b < m
      BY <2>1, <2>2
    <2>7. \A a \in b .. hi - 1 : e.cell = of[a]
      <3>1. \A a \in L[n].base .. L[n].end : L[n].cell = of[a]
        BY <2>1 DEF Tiles, Exact
      <3>2. \A a \in b .. m - 1 : entry.cell = of[a]
        BY <1>2, <2>1, <2>4, <3>1
      <3> HIDE DEF b, e
      <3>3. \A a \in b .. hi - 1 : a \in b .. m - 1 \/ a \in m .. hi - 1
        BY <2>6
      <3>4. QED
        BY <2>5, <3>2, <3>3 DEF Same
    <2> HIDE DEF b, e
    <2>8. Tiles(<< e >>, b, hi, C, of)
      <3>1. e.base <= e.end /\ e.end + 1 = hi
        BY <2>5, <2>6
      <3>2. Tiles(<< e >>, e.base, e.end + 1, C, of)
        BY <2>5, <2>7, <3>1, TilesOne
      <3>3. QED
        BY <2>5, <3>1, <3>2
    <2>9. /\ Tiles(Front(L), lo, b, C, of)
          /\ Merged(L) => /\ Merged(Front(L))
                          /\ Front(L) # << >> => Front(L)[Len(Front(L))].cell # Last(L).cell
      BY <2>3, FrontTiles DEF b
    <2>10. Front(L) \in Seq(Entries(C)) /\ << e >> \in Seq(Entries(C))
      BY <2>8, <2>9 DEF Tiles
    <2>11. Absorb(L, entry) = Front(L) \o << e >>
      <3>1. Absorb(L, entry) = Append(Front(L), e)
        BY <1>2 DEF Absorb, e, b
      <3>2. QED
        BY <2>5, <2>10, <3>1, AppendIsConcat
    <2>12. Tiles(Front(L) \o << e >>, lo, hi, C, of)
      <3>1. lo <= b /\ b <= hi
        BY <2>6
      <3>2. QED
        BY <2>6, <2>8, <2>9, <3>1, TilesJoin
    <2>13. Merged(L) => Merged(Front(L) \o << e >>)
      <3>1. Merged(<< e >>) /\ << e >>[1] = e
        BY MergedShort
      <3>2. QED
        BY <1>2, <2>5, <2>9, <2>10, <3>1, MergedJoin
    <2>14. Absorb(L, entry) # << >> /\ Last(Absorb(L, entry)) = e
      <3>1. Absorb(L, entry) = Append(Front(L), e)
        BY <1>2 DEF Absorb, e, b
      <3>2. QED
        BY <2>5, <2>10, <3>1, AppendProperties DEF Last
    <2>15. QED
      BY <2>5, <2>11, <2>12, <2>13, <2>14
  <1>3. CASE ~(L # << >> /\ Last(L).cell = entry.cell)
    <2>1. Absorb(L, entry) = Append(L, entry)
      BY <1>3 DEF Absorb
    <2>2. Absorb(L, entry) = L \o << entry >> /\ << entry >> \in Seq(Entries(C))
      BY <1>1, <2>1, AppendIsConcat
    <2>3. Tiles(<< entry >>, m, hi, C, of)
      <3>1. entry.base <= entry.end /\ entry.end + 1 = hi
        OBVIOUS
      <3>2. Tiles(<< entry >>, entry.base, entry.end + 1, C, of)
        BY <3>1, TilesOne DEF Same
      <3>3. QED
        BY <3>1, <3>2
    <2>4. Tiles(L \o << entry >>, lo, hi, C, of)
      <3>1. m <= hi
        OBVIOUS
      <3>2. QED
        BY <2>3, <3>1, TilesJoin
    <2>5. Merged(L) => Merged(L \o << entry >>)
      <3>1. Merged(<< entry >>) /\ << entry >>[1] = entry
        BY MergedShort
      <3>2. QED
        BY <1>1, <1>3, <2>2, <3>1, MergedJoin DEF Last
    <2>6. Absorb(L, entry) # << >> /\ Last(Absorb(L, entry)) = entry
      BY <1>1, <2>1, AppendProperties DEF Last
    <2>7. QED
      BY <2>2, <2>4, <2>5, <2>6
  <1>4. QED
    BY <1>2, <1>3

(* Absorbing a list link by link: what follows tiles, what it is merged     *)
(* into stays merged, and the last cell is that of the last link absorbed.  *)
LEMMA MergeAllTiles ==
  ASSUME NEW L, NEW T, NEW lo \in Nat, NEW m \in Nat, NEW hi \in Nat, NEW C, NEW of,
         Tiles(L, lo, m, C, of), Tiles(T, m, hi, C, of), lo <= m, m < hi
  PROVE  /\ Tiles(MergeAll(L, T), lo, hi, C, of)
         /\ Merged(L) => Merged(MergeAll(L, T))
         /\ MergeAll(L, T) # << >> /\ Last(MergeAll(L, T)).cell = Last(T).cell
  <1>1. L \in Seq(Entries(C)) /\ T \in Seq(Entries(C))
    BY DEF Tiles
  <1> DEFINE n == Len(T)
  <1>2. /\ n \in Nat \ {0} /\ T[1].base = m /\ T[n].end = hi - 1
        /\ \A k \in 1 .. n - 1 : T[k + 1].base = T[k].end + 1
    BY TilesTouch
  <1>3. PICK p : /\ p[0] = L
                 /\ \A k \in 1 .. n : p[k] = Absorb(p[k - 1], T[k])
                 /\ MergeAll(L, T) = p[n]
    BY <1>1, MergeSteps
  <1> DEFINE Good(k) == /\ Tiles(p[k], lo, T[k].end + 1, C, of)
                        /\ Merged(L) => Merged(p[k])
                        /\ p[k] # << >> /\ Last(p[k]).cell = T[k].cell
             F == { k \in Nat : k \in 1 .. n => Good(k) }
  <1>4. /\ \A k \in 1 .. n : /\ T[k] \in Entries(C) /\ T[k].base \in Nat /\ T[k].end \in Nat
                             /\ m <= T[k].base /\ T[k].base <= T[k].end
                             /\ \A a \in T[k].base .. T[k].end : T[k].cell = of[a]
    BY <1>1, EntryTypes DEF Tiles, Within, Exact
  <1>5. 0 \in F
    OBVIOUS
  <1>6. ASSUME NEW k \in F PROVE k + 1 \in F
    <2> HIDE DEF n
    <2>1. SUFFICES ASSUME k + 1 \in 1 .. n PROVE Good(k + 1)
      <3> HIDE DEF Good
      <3>1. QED
        OBVIOUS
    <2>2. PICK j \in 1 .. n : j = k + 1
      BY <2>1
    <2>3. p[j] = Absorb(p[k], T[j])
      <3>1. j - 1 = k
        BY <2>2
      <3>2. QED
        BY <1>3, <3>1
    <2>4. /\ Tiles(p[k], lo, T[j].base, C, of) /\ lo <= T[j].base
          /\ Merged(L) => Merged(p[k])
      <3>1. CASE k = 0
        BY <1>2, <1>3, <2>2, <3>1
      <3>2. CASE k # 0
        <4>1. k \in 1 .. n /\ k \in 1 .. n - 1
          BY <1>2, <2>1, <3>2
        <4>2. Good(k)
          BY <4>1
        <4>3. T[j].base = T[k].end + 1
          BY <1>2, <2>2, <4>1
        <4>4. lo <= T[j].base
          BY <1>4
        <4>5. QED
          BY <4>2, <4>3, <4>4
      <3>3. QED
        BY <3>1, <3>2
    <2> DEFINE b == T[j].base
               h == T[j].end + 1
               e == T[j]
    <2>5. /\ b \in Nat /\ h \in Nat /\ b < h /\ e.base = b /\ e.end = h - 1 /\ e \in Entries(C)
          /\ Same(of, b, h, e.cell)
      <3>1. /\ e \in Entries(C) /\ e.base \in Nat /\ e.end \in Nat /\ e.base <= e.end
            /\ \A a \in e.base .. e.end : e.cell = of[a]
        BY <1>4
      <3>2. h - 1 = e.end
        BY <3>1
      <3>3. QED
        BY <3>1, <3>2 DEF Same
    <2>6. Tiles(p[k], lo, b, C, of) /\ lo <= b
      BY <2>4
    <2> HIDE DEF b, h, e
    <2>7. /\ Tiles(Absorb(p[k], e), lo, h, C, of)
          /\ Absorb(p[k], e) # << >> /\ Last(Absorb(p[k], e)).cell = e.cell
          /\ Merged(p[k]) => Merged(Absorb(p[k], e))
      BY <2>5, <2>6, AbsorbTiles
    <2>8. Good(j)
      BY <2>3, <2>4, <2>7 DEF e, h
    <2>9. QED
      BY <2>2, <2>8
  <1>7. F \subseteq Nat
    OBVIOUS
  <1> HIDE DEF F, Good
  <1>8. n \in F
    BY <1>2, <1>5, <1>6, <1>7, SetInduction
  <1>9. Good(n)
    <2>1. n \in 1 .. n
      BY <1>2
    <2>2. QED
      BY <1>8, <2>1 DEF F
  <1>10. (hi - 1) + 1 = hi
    OBVIOUS
  <1>11. QED
    BY <1>2, <1>3, <1>9, <1>10 DEF Good, Last

-----------------------------------------------------------------------------
(* Converting.                                                             *)

(* The links from s on are clipped to base .. hi and get new cells.        *)
Changed(base, hi, s, e, cell) ==
  [ k \in 1 .. e - s + 1 |-> [Clip(s + k - 1, base, hi) EXCEPT !.cell = cell[s + k - 1]] ]

Before(s, base) == SubSeq(map, 1, s - 1) \o Bottom(s, base)

After(hi, e) == Top(e, hi) \o SubSeq(map, e + 1, Len(map))

(* The cells of the bytes after links s .. e got new ones. *)
NewCells(new, base, hi, cell, of) ==
  \A k \in Links : \A a \in map[k].base .. map[k].end :
    new[a] = IF base <= a /\ a <= hi THEN cell[k] ELSE of[a]

(* What the lemmas on a conversion start from. *)
Converts(C, of, new, base, hi, s, e, cell) ==
  /\ Tiles(map, 0, LastAddress + 1, C, of)
  /\ LastAddress \in Nat /\ base \in Nat /\ hi \in Nat /\ base <= hi
  /\ s \in Links /\ e \in Links /\ s <= e
  /\ map[s].base <= base /\ base <= map[s].end
  /\ map[e].base <= hi /\ hi <= map[e].end
  /\ (\A k \in s .. e : cell[k] \in C)
  /\ NewCells(new, base, hi, cell, of)

(* A list that tiles an interval in which the cells are the same as before *)
(* tiles it with the new ones.                                             *)
LEMMA TilesElsewhere ==
  ASSUME NEW L, NEW lo \in Nat, NEW hi \in Nat, NEW C, NEW of, NEW new,
         Tiles(L, lo, hi, C, of), \A a \in lo .. hi - 1 : new[a] = of[a]
  PROVE  Tiles(L, lo, hi, C, new)
  <1>1. Len(L) \in Nat /\ \A k \in 1 .. Len(L) : L[k].base \in Nat /\ L[k].end \in Nat
    BY EntryTypes DEF Tiles
  <1>2. ASSUME NEW k \in 1 .. Len(L), NEW a \in L[k].base .. L[k].end PROVE L[k].cell = new[a]
    <2>1. lo <= L[k].base /\ L[k].end < hi
      BY DEF Tiles, Within
    <2>2. a \in lo .. hi - 1
      BY <1>1, <2>1
    <2>3. QED
      BY <2>2 DEF Tiles, Exact
  <1>3. Exact(L, new)
    BY <1>2 DEF Exact
  <1>4. QED
    BY <1>3 DEF Tiles

(* What Converts says of the map, of its links and of their neighbours.     *)
LEMMA MapFacts ==
  ASSUME NEW C, NEW of, NEW new, NEW base, NEW hi, NEW s, NEW e, NEW cell,
         Converts(C, of, new, base, hi, s, e, cell)
  PROVE  /\ map \in Seq(Entries(C)) /\ Len(map) \in Nat \ {0} /\ Links = 1 .. Len(map)
         /\ map[1].base = 0 /\ map[Len(map)].end = LastAddress
         /\ \A k \in Links : /\ map[k] \in Entries(C) /\ map[k].base \in Nat /\ map[k].end \in Nat
                             /\ map[k].base <= map[k].end /\ map[k].end <= LastAddress
                             /\ \A a \in map[k].base .. map[k].end : map[k].cell = of[a]
         /\ \A k \in 1 .. Len(map) - 1 : map[k + 1].base = map[k].end + 1
         /\ \A j, k \in Links : j < k => map[j].end < map[k].base
  <1>1. map \in Seq(Entries(C)) /\ LastAddress \in Nat
    BY DEF Converts, Tiles
  <1>2. Links = 1 .. Len(map)
    BY <1>1 DEF Links
  <1>3. /\ Len(map) \in Nat \ {0}
        /\ map[1].base = 0 /\ map[Len(map)].end = (LastAddress + 1) - 1
        /\ \A k \in 1 .. Len(map) - 1 : map[k + 1].base = map[k].end + 1
    <2>1. 0 \in Nat /\ LastAddress + 1 \in Nat /\ 0 < LastAddress + 1
      BY <1>1
    <2>2. Tiles(map, 0, LastAddress + 1, C, of)
      BY DEF Converts
    <2>3. QED
      BY <2>1, <2>2, TilesTouch
  <1>4. \A k \in Links : /\ map[k] \in Entries(C) /\ map[k].base \in Nat /\ map[k].end \in Nat
                         /\ map[k].base <= map[k].end /\ map[k].end < LastAddress + 1
    BY <1>1, <1>2, EntryTypes DEF Converts, Tiles, Within
  <1>5. \A k \in Links : map[k].end <= LastAddress
    BY <1>1, <1>4
  <1>6. (LastAddress + 1) - 1 = LastAddress
    BY <1>1
  <1>7. /\ \A k \in Links : \A a \in map[k].base .. map[k].end : map[k].cell = of[a]
        /\ \A j, k \in Links : j < k => map[j].end < map[k].base
    BY <1>2 DEF Converts, Tiles, Exact, Ordered
  <1>8. QED
    BY <1>1, <1>2, <1>3, <1>4, <1>5, <1>6, <1>7

(* The list before the range. *)
LEMMA BelowTiles ==
  ASSUME NEW C, NEW of, NEW new, NEW base, NEW hi, NEW s, NEW e, NEW cell,
         Converts(C, of, new, base, hi, s, e, cell)
  PROVE  /\ Tiles(SubSeq(map, 1, s - 1) \o Bottom(s, base), 0, base, C, new)
         /\ Merged(map) => Merged(SubSeq(map, 1, s - 1) \o Bottom(s, base))
  <1>1. /\ map \in Seq(Entries(C)) /\ Len(map) \in Nat \ {0} /\ Links = 1 .. Len(map)
        /\ map[1].base = 0
        /\ \A k \in Links : /\ map[k] \in Entries(C) /\ map[k].base \in Nat /\ map[k].end \in Nat
                            /\ map[k].base <= map[k].end
                            /\ \A a \in map[k].base .. map[k].end : map[k].cell = of[a]
        /\ \A k \in 1 .. Len(map) - 1 : map[k + 1].base = map[k].end + 1
    BY MapFacts
  <1>2. /\ base \in Nat /\ s \in 1 .. Len(map) /\ map[s].base <= base /\ base <= map[s].end
        /\ Tiles(map, 0, LastAddress + 1, C, of) /\ LastAddress \in Nat
    BY <1>1 DEF Converts
  <1> DEFINE P == SubSeq(map, 1, s - 1)
             b == map[s].base
  <1>3. b \in Nat /\ b <= base
    BY <1>1, <1>2
  <1>4. /\ Tiles(P, 0, b, C, of)
        /\ Merged(map) => Merged(P) /\ (P # << >> => P[Len(P)].cell # map[s].cell)
    <2>1. CASE s = 1
      <3>1. P = << >> /\ b = 0
        BY <1>1, <2>1
      <3>2. Tiles(<< >>, 0, 0, C, of) /\ Merged(<< >>)
        BY TilesNone, MergedShort
      <3> HIDE DEF P, b
      <3>3. QED
        BY <3>1, <3>2
    <2>2. CASE s # 1
      <3>1. PICK i \in 1 .. Len(map) : i = s - 1
        BY <1>2, <2>2
      <3>2. i \in 1 .. Len(map) - 1 /\ i + 1 = s /\ 1 \in 1 .. Len(map) /\ i \in 1 .. i
        BY <1>1, <1>2, <3>1
      <3>3. Tiles(SubSeq(map, 1, i), map[1].base, map[i].end + 1, C, of)
        <4>1. 0 \in Nat /\ LastAddress + 1 \in Nat /\ i \in 1 .. Len(map)
          BY <1>2
        <4>2. QED
          BY <1>2, <3>2, <4>1, TilesPart
      <3>4. map[i].end + 1 = b
        BY <1>1, <3>2
      <3>5. ASSUME Merged(map) PROVE Merged(P) /\ (P # << >> => P[Len(P)].cell # map[s].cell)
        <4>1. Merged(SubSeq(map, 1, i))
          BY <1>1, <3>2, <3>5, MergedPart
        <4>2. Len(SubSeq(map, 1, i)) = i /\ SubSeq(map, 1, i)[i] = map[i]
          BY <1>1, <3>2
        <4>3. map[i].cell # map[i + 1].cell
          BY <3>2, <3>5 DEF Merged
        <4>4. QED
          BY <3>1, <3>2, <4>1, <4>2, <4>3
      <3>6. QED
        BY <1>1, <3>1, <3>3, <3>4, <3>5
    <2>3. QED
      BY <2>1, <2>2
  <1>5. \A a \in 0 .. base - 1 : new[a] = of[a]
    <2> SUFFICES ASSUME NEW a \in 0 .. base - 1 PROVE new[a] = of[a]
      OBVIOUS
    <2>1. a \in 0 .. (LastAddress + 1) - 1
      BY <1>1, <1>2, MapFacts
    <2>2. PICK k \in 1 .. Len(map) : Covers(map[k], a)
      BY <1>2, <2>1 DEF Tiles, Complete
    <2>3. a \in map[k].base .. map[k].end
      BY <1>1, <2>2 DEF Covers
    <2>4. ~(base <= a)
      BY <1>2
    <2>5. QED
      BY <1>1, <2>3, <2>4 DEF Converts, NewCells
  <1>6. Tiles(P, 0, b, C, new)
    <2>1. \A a \in 0 .. b - 1 : new[a] = of[a]
      BY <1>2, <1>3, <1>5
    <2>2. QED
      BY <1>3, <1>4, <2>1, TilesElsewhere
  <1>7. P \in Seq(Entries(C))
    BY <1>4 DEF Tiles
  <1>8. CASE base = b
    <2>1. Bottom(s, base) = << >>
      BY <1>3, <1>8 DEF Bottom
    <2>2. P \o << >> = P
      BY <1>7
    <2>3. QED
      BY <1>4, <1>6, <1>8, <2>1, <2>2
  <1>9. CASE base # b
    <2> DEFINE pad == [map[s] EXCEPT !.end = base - 1]
    <2>1. b < base /\ Bottom(s, base) = << pad >>
      BY <1>2, <1>3, <1>9 DEF Bottom
    <2>2. /\ pad \in Entries(C) /\ pad.base = b /\ pad.end = base - 1 /\ pad.cell = map[s].cell
      <3>1. map[s] \in Entries(C) /\ base - 1 \in Nat
        BY <1>1, <1>2, <1>3, <2>1
      <3>2. QED
        BY <3>1 DEF Entries
    <2> HIDE DEF pad
    <2>3. \A a \in pad.base .. pad.end : pad.cell = new[a]
      <3>1. \A a \in b .. base - 1 : a \in map[s].base .. map[s].end /\ a \in 0 .. base - 1
        BY <1>1, <1>2
      <3>2. QED
        BY <1>1, <1>2, <1>5, <2>2, <3>1
    <2>4. Tiles(<< pad >>, b, base, C, new)
      <3>1. pad.base <= pad.end /\ pad.end + 1 = base
        BY <1>2, <1>3, <2>1, <2>2
      <3>2. Tiles(<< pad >>, pad.base, pad.end + 1, C, new)
        BY <2>2, <2>3, <3>1, TilesOne
      <3>3. QED
        BY <2>2, <3>1, <3>2
    <2>5. Tiles(P \o << pad >>, 0, base, C, new)
      BY <1>2, <1>3, <1>6, <2>4, TilesJoin
    <2>6. Merged(map) => Merged(P \o << pad >>)
      <3>1. << pad >> \in Seq(Entries(C)) /\ Merged(<< pad >>) /\ << pad >>[1] = pad
        BY <2>2, MergedShort
      <3>2. QED
        BY <1>4, <1>7, <2>2, <3>1, MergedJoin
    <2>7. QED
      BY <2>1, <2>5, <2>6
  <1>10. QED
    BY <1>8, <1>9

(* The list after the range. *)
LEMMA AboveTiles ==
  ASSUME NEW C, NEW of, NEW new, NEW base, NEW hi, NEW s, NEW e, NEW cell,
         Converts(C, of, new, base, hi, s, e, cell)
  PROVE  /\ Tiles(After(hi, e), hi + 1, LastAddress + 1, C, new)
         /\ Merged(map) => Merged(After(hi, e))
  <1>1. /\ map \in Seq(Entries(C)) /\ Len(map) \in Nat \ {0} /\ Links = 1 .. Len(map)
        /\ map[Len(map)].end = LastAddress
        /\ \A k \in Links : /\ map[k] \in Entries(C) /\ map[k].base \in Nat /\ map[k].end \in Nat
                            /\ map[k].base <= map[k].end /\ map[k].end <= LastAddress
                            /\ \A a \in map[k].base .. map[k].end : map[k].cell = of[a]
        /\ \A k \in 1 .. Len(map) - 1 : map[k + 1].base = map[k].end + 1
    BY MapFacts
  <1>2. /\ hi \in Nat /\ e \in 1 .. Len(map) /\ map[e].base <= hi /\ hi <= map[e].end
        /\ Tiles(map, 0, LastAddress + 1, C, of) /\ LastAddress \in Nat
    BY <1>1 DEF Converts
  <1> DEFINE R == SubSeq(map, e + 1, Len(map))
             t == map[e].end + 1
             n == Len(map)
  <1>3. /\ t \in Nat /\ hi + 1 \in Nat /\ LastAddress + 1 \in Nat
        /\ hi + 1 <= t /\ t <= LastAddress + 1
    BY <1>1, <1>2
  <1>4. /\ Tiles(R, t, LastAddress + 1, C, of)
        /\ Merged(map) => Merged(R) /\ (R # << >> => R[1].cell # map[e].cell)
    <2>1. CASE e = n
      <3>1. R = << >> /\ t = LastAddress + 1
        BY <1>1, <2>1
      <3>2. Tiles(<< >>, t, t, C, of) /\ Merged(<< >>)
        BY <1>3, TilesNone, MergedShort
      <3> HIDE DEF R, t
      <3>3. QED
        BY <3>1, <3>2
    <2>2. CASE e # n
      <3>1. PICK i \in 1 .. Len(map) : i = e + 1
        BY <1>1, <1>2, <2>2
      <3>2. e \in 1 .. Len(map) - 1 /\ n \in i .. Len(map)
        BY <1>1, <1>2, <3>1
      <3>3. Tiles(SubSeq(map, i, n), map[i].base, map[n].end + 1, C, of)
        <4>1. 0 \in Nat /\ LastAddress + 1 \in Nat /\ i \in 1 .. Len(map)
          BY <1>2
        <4> HIDE DEF n
        <4>2. QED
          BY <1>2, <3>2, <4>1, TilesPart
      <3>4. map[i].base = t
        BY <1>1, <3>1, <3>2
      <3>5. ASSUME Merged(map) PROVE Merged(R) /\ (R # << >> => R[1].cell # map[e].cell)
        <4>1. Merged(SubSeq(map, i, n))
          BY <1>1, <3>2, <3>5, MergedPart
        <4>2. SubSeq(map, i, n)[1] = map[i]
          BY <1>1, <3>2
        <4>3. map[e].cell # map[e + 1].cell
          BY <3>2, <3>5 DEF Merged
        <4>4. QED
          BY <3>1, <4>1, <4>2, <4>3
      <3>6. QED
        BY <1>1, <3>1, <3>3, <3>4, <3>5
    <2>3. QED
      BY <2>1, <2>2
  <1>5. \A a \in hi + 1 .. (LastAddress + 1) - 1 : new[a] = of[a]
    <2> SUFFICES ASSUME NEW a \in hi + 1 .. (LastAddress + 1) - 1 PROVE new[a] = of[a]
      OBVIOUS
    <2>1. a \in 0 .. (LastAddress + 1) - 1
      BY <1>2
    <2>2. PICK k \in 1 .. Len(map) : Covers(map[k], a)
      BY <1>2, <2>1 DEF Tiles, Complete
    <2>3. a \in map[k].base .. map[k].end
      BY <1>1, <1>2, <2>2 DEF Covers
    <2>4. ~(a <= hi)
      BY <1>2
    <2>5. QED
      BY <1>1, <2>3, <2>4 DEF Converts, NewCells
  <1>6. Tiles(R, t, LastAddress + 1, C, new)
    <2>1. \A a \in t .. (LastAddress + 1) - 1 : new[a] = of[a]
      <3> HIDE DEF t
      <3>1. QED
        BY <1>2, <1>3, <1>5
    <2> HIDE DEF t, R
    <2>2. QED
      BY <1>3, <1>4, <2>1, TilesElsewhere
  <1>7. R \in Seq(Entries(C))
    BY <1>4 DEF Tiles
  <1>8. CASE hi = map[e].end
    <2>1. Top(e, hi) = << >>
      BY <1>1, <1>2, <1>8 DEF Top
    <2>2. << >> \o R = R
      BY <1>7
    <2>3. QED
      BY <1>4, <1>6, <1>8, <2>1, <2>2 DEF After
  <1>9. CASE hi # map[e].end
    <2> DEFINE pad == [map[e] EXCEPT !.base = hi + 1]
    <2>1. hi < map[e].end /\ Top(e, hi) = << pad >>
      <3>1. hi < map[e].end
        BY <1>1, <1>2, <1>9
      <3>2. QED
        BY <3>1 DEF Top
    <2>2. /\ pad \in Entries(C) /\ pad.base = hi + 1 /\ pad.end + 1 = t /\ pad.cell = map[e].cell
      <3>1. map[e] \in Entries(C) /\ hi + 1 \in Nat
        BY <1>1, <1>2
      <3>2. QED
        BY <3>1 DEF Entries
    <2>3. pad.base <= pad.end
      BY <1>1, <1>2, <2>1, <2>2
    <2> HIDE DEF pad
    <2>4. \A a \in pad.base .. pad.end : pad.cell = new[a]
      <3>1. \A a \in hi + 1 .. map[e].end :
              a \in map[e].base .. map[e].end /\ a \in hi + 1 .. (LastAddress + 1) - 1
        BY <1>1, <1>2
      <3>2. pad.end = map[e].end
        BY DEF pad
      <3>3. QED
        BY <1>1, <1>2, <1>5, <2>2, <3>1, <3>2
    <2>5. Tiles(<< pad >>, hi + 1, t, C, new)
      <3>1. Tiles(<< pad >>, pad.base, pad.end + 1, C, new)
        BY <2>2, <2>3, <2>4, TilesOne
      <3>2. QED
        BY <2>2, <3>1
    <2>6. Tiles(<< pad >> \o R, hi + 1, LastAddress + 1, C, new)
      <3> HIDE DEF t, R
      <3>1. QED
        BY <1>3, <1>6, <2>5, TilesJoin
    <2>7. Merged(map) => Merged(<< pad >> \o R)
      <3>1. /\ << pad >> \in Seq(Entries(C)) /\ Merged(<< pad >>)
            /\ << pad >>[Len(<< pad >>)] = pad
        BY <2>2, MergedShort
      <3> HIDE DEF R
      <3>2. QED
        BY <1>4, <1>7, <2>2, <3>1, MergedJoin
    <2>8. QED
      BY <2>1, <2>6, <2>7 DEF After
  <1>10. QED
    BY <1>8, <1>9

(* The list of the range, clipped and changed. *)
LEMMA ChangedTiles ==
  ASSUME NEW C, NEW of, NEW new, NEW base, NEW hi, NEW s, NEW e, NEW cell,
         Converts(C, of, new, base, hi, s, e, cell)
  PROVE  Tiles(Changed(base, hi, s, e, cell), base, hi + 1, C, new)
  <1>1. /\ map \in Seq(Entries(C)) /\ Len(map) \in Nat \ {0} /\ Links = 1 .. Len(map)
        /\ \A k \in Links : /\ map[k] \in Entries(C) /\ map[k].base \in Nat /\ map[k].end \in Nat
                            /\ map[k].base <= map[k].end /\ map[k].end <= LastAddress
        /\ \A j, k \in Links : j < k => map[j].end < map[k].base
    BY MapFacts
  <1>2. /\ base \in Nat /\ hi \in Nat /\ base <= hi /\ s \in Links /\ e \in Links /\ s <= e
        /\ map[s].base <= base /\ base <= map[s].end
        /\ map[e].base <= hi /\ hi <= map[e].end
        /\ (\A k \in s .. e : cell[k] \in C) /\ NewCells(new, base, hi, cell, of)
        /\ Tiles(map, 0, LastAddress + 1, C, of) /\ LastAddress \in Nat
    BY DEF Converts
  <1> DEFINE P == Changed(base, hi, s, e, cell)
             n == e - s + 1
             lo(k) == IF base > map[k].base THEN base ELSE map[k].base
             up(k) == IF hi < map[k].end THEN hi ELSE map[k].end
  <1>3. s \in Nat /\ e \in Nat /\ n \in Nat /\ \A x \in 1 .. n : s + x - 1 \in Links
    BY <1>1, <1>2
  <1>4. \A k \in s .. e : /\ lo(k) \in Nat /\ up(k) \in Nat /\ lo(k) <= up(k)
                          /\ base <= lo(k) /\ up(k) <= hi
                          /\ map[k].base <= lo(k) /\ up(k) <= map[k].end
    <2> SUFFICES ASSUME NEW k \in s .. e
                 PROVE  /\ lo(k) \in Nat /\ up(k) \in Nat /\ lo(k) <= up(k)
                        /\ base <= lo(k) /\ up(k) <= hi
                        /\ map[k].base <= lo(k) /\ up(k) <= map[k].end
      OBVIOUS
    <2>1. k \in Links
      BY <1>1, <1>2
    <2> DEFINE kb == map[k].base  ke == map[k].end
    <2>2. kb \in Nat /\ ke \in Nat /\ kb <= ke
      BY <1>1, <2>1
    <2>3. base <= ke
      <3>1. s = k \/ s < k
        BY <1>1, <1>2
      <3>2. s < k => map[s].end < kb
        BY <1>1, <1>2, <2>1
      <3>3. map[s].end \in Nat
        BY <1>1, <1>2
      <3>4. QED
        BY <1>2, <2>2, <3>1, <3>2, <3>3
    <2>4. kb <= hi
      <3>1. k = e \/ k < e
        BY <1>1, <1>2
      <3>2. k < e => ke < map[e].base
        BY <1>1, <1>2, <2>1
      <3>3. map[e].base \in Nat
        BY <1>1, <1>2
      <3>4. QED
        BY <1>2, <2>2, <3>1, <3>2, <3>3
    <2> HIDE DEF kb, ke
    <2>5. QED
      BY <1>2, <2>2, <2>3, <2>4 DEF kb, ke
  <1>5. ASSUME NEW x \in 1 .. n, NEW k \in s .. e, k = s + x - 1
        PROVE  P[x] = [base |-> lo(k), end |-> up(k), cell |-> cell[k]] /\ P[x] \in Entries(C)
    <2>1. P[x] = [Clip(k, base, hi) EXCEPT !.cell = cell[k]]
      BY <1>5 DEF Changed
    <2>2. k \in Links /\ map[k] \in Entries(C) /\ cell[k] \in C
      BY <1>1, <1>2
    <2>3. P[x] = [base |-> lo(k), end |-> up(k), cell |-> cell[k]]
      BY <2>1, <2>2 DEF Clip, Entries
    <2>4. lo(k) \in Nat /\ up(k) \in Nat
      BY <1>4
    <2> HIDE DEF lo, up
    <2>5. QED
      BY <2>2, <2>3, <2>4 DEF Entries
  <1>6. P \in Seq(Entries(C)) /\ Len(P) = n
    <2>1. \A x \in 1 .. n : P[x] \in Entries(C)
      <3> HIDE DEF P, lo, up
      <3> SUFFICES ASSUME NEW x \in 1 .. n PROVE P[x] \in Entries(C)
        OBVIOUS
      <3>1. s + x - 1 \in s .. e
        BY <1>3
      <3>2. QED
        BY <1>5, <3>1
    <2>2. P = [x \in 1 .. n |-> P[x]]
      BY DEF Changed
    <2> HIDE DEF P, n
    <2>3. QED
      BY <1>3, <2>1, <2>2
  <1> HIDE DEF P
  <1>7. ASSUME NEW x \in 1 .. n
        PROVE  \E k \in s .. e : /\ k = s + x - 1
                                 /\ P[x].base = lo(k) /\ P[x].end = up(k) /\ P[x].cell = cell[k]
    <2>1. s + x - 1 \in s .. e
      BY <1>3
    <2>2. PICK k \in s .. e : k = s + x - 1
      BY <2>1
    <2>3. P[x] = [base |-> lo(k), end |-> up(k), cell |-> cell[k]]
      BY <1>5, <2>2
    <2>4. P[x].base = lo(k) /\ P[x].end = up(k) /\ P[x].cell = cell[k]
      BY <2>3
    <2> HIDE DEF lo, up
    <2>5. QED
      BY <2>2, <2>4
  <1>8. Within(P, base, hi + 1)
    <2> SUFFICES ASSUME NEW x \in 1 .. n
                 PROVE  base <= P[x].base /\ P[x].base <= P[x].end /\ P[x].end < hi + 1
      BY <1>6 DEF Within
    <2> HIDE DEF lo, up
    <2>1. PICK k \in s .. e : P[x].base = lo(k) /\ P[x].end = up(k)
      BY <1>7
    <2>2. lo(k) \in Nat /\ up(k) \in Nat /\ lo(k) <= up(k) /\ base <= lo(k) /\ up(k) <= hi
      BY <1>4
    <2>3. QED
      BY <1>2, <2>1, <2>2
  <1>9. Ordered(P)
    <2> SUFFICES ASSUME NEW x \in 1 .. n, NEW y \in 1 .. n, x < y
                 PROVE  P[x].end < P[y].base
      BY <1>6 DEF Ordered
    <2> HIDE DEF lo, up
    <2>1. PICK j \in s .. e : j = s + x - 1 /\ P[x].end = up(j)
      BY <1>7
    <2>2. PICK k \in s .. e : k = s + y - 1 /\ P[y].base = lo(k)
      BY <1>7
    <2>3. j < k /\ j \in Links /\ k \in Links
      BY <1>1, <1>2, <1>3, <2>1, <2>2
    <2>4. map[j].end < map[k].base /\ map[j].end \in Nat /\ map[k].base \in Nat
      BY <1>1, <2>3
    <2>5. /\ up(j) \in Nat /\ up(j) <= map[j].end
          /\ lo(k) \in Nat /\ map[k].base <= lo(k)
      BY <1>4
    <2>6. QED
      BY <2>1, <2>2, <2>4, <2>5
  <1>10. Complete(P, base, hi + 1)
    <2> SUFFICES ASSUME NEW a \in base .. (hi + 1) - 1
                 PROVE  \E x \in 1 .. n : Covers(P[x], a)
      BY <1>6 DEF Complete
    <2>1. a \in Nat /\ base <= a /\ a <= hi
      BY <1>2
    <2>2. a \in 0 .. (LastAddress + 1) - 1
      BY <1>1, <1>2, <2>1
    <2>3. PICK k \in 1 .. Len(map) : Covers(map[k], a)
      BY <1>2, <2>2 DEF Tiles, Complete
    <2>4. k \in Links /\ map[k].base <= a /\ a <= map[k].end
          /\ map[k].base \in Nat /\ map[k].end \in Nat
      BY <1>1, <2>3 DEF Covers
    <2>5. ~(k < s)
      <3>1. k < s => map[k].end < map[s].base
        BY <1>1, <1>2, <2>4
      <3>2. map[s].base \in Nat
        BY <1>1, <1>2
      <3>3. QED
        BY <1>2, <2>1, <2>4, <3>1, <3>2
    <2>6. ~(e < k)
      <3>1. e < k => map[e].end < map[k].base
        BY <1>1, <1>2, <2>4
      <3>2. map[e].end \in Nat
        BY <1>1, <1>2
      <3>3. QED
        BY <1>2, <2>1, <2>4, <3>1, <3>2, SMTT(60)
    <2>7. k \in s .. e
      BY <1>1, <1>2, <2>5, <2>6
    <2>8. PICK x \in 1 .. n : k = s + x - 1
      <3>1. k - s + 1 \in 1 .. n /\ k = s + (k - s + 1) - 1
        BY <1>3, <2>7
      <3>2. QED
        BY <3>1
    <2>9. P[x] = [base |-> lo(k), end |-> up(k), cell |-> cell[k]]
      BY <1>5, <2>7, <2>8
    <2>10. lo(k) <= a /\ a <= up(k)
      BY <2>1, <2>4
    <2>11. Covers(P[x], a)
      <3> HIDE DEF lo, up
      <3>1. QED
        BY <2>9, <2>10 DEF Covers
    <2>12. QED
      BY <2>11
  <1>11. Exact(P, new)
    <2> SUFFICES ASSUME NEW x \in 1 .. n, NEW a \in P[x].base .. P[x].end
                 PROVE  P[x].cell = new[a]
      BY <1>6 DEF Exact
    <2> HIDE DEF lo, up
    <2>1. PICK k \in s .. e : P[x].base = lo(k) /\ P[x].end = up(k) /\ P[x].cell = cell[k]
      BY <1>7
    <2>2. k \in Links
      BY <1>1, <1>2
    <2>3. /\ lo(k) \in Nat /\ up(k) \in Nat /\ base <= lo(k) /\ up(k) <= hi
          /\ map[k].base <= lo(k) /\ up(k) <= map[k].end
          /\ map[k].base \in Nat /\ map[k].end \in Nat
      BY <1>1, <1>4, <2>2
    <2>4. a \in map[k].base .. map[k].end /\ base <= a /\ a <= hi
      BY <1>2, <2>1, <2>3
    <2>5. new[a] = cell[k]
      BY <1>2, <2>2, <2>4 DEF NewCells
    <2>6. QED
      BY <2>1, <2>5
  <1>12. Tiles(P, base, hi + 1, C, new)
    BY <1>6, <1>8, <1>9, <1>10, <1>11 DEF Tiles
  <1>13. QED
    BY <1>12 DEF P

(* The part of a list that has only its first element.                      *)
LEMMA FirstLink ==
  ASSUME NEW S, NEW q \in Seq(S), q # << >>
  PROVE  SubSeq(q, 1, 1) = << q[1] >>
  <1> DEFINE p == SubSeq(q, 1, 1)
             o == << q[1] >>
  <1>1. Len(q) \in Nat \ {0} /\ q[1] \in S
    OBVIOUS
  <1>2. p \in Seq(S) /\ Len(p) = 1 /\ p[1] = q[1]
    BY <1>1
  <1>3. o \in Seq(S) /\ Len(o) = 1 /\ o[1] = q[1]
    BY <1>1
  <1> HIDE DEF p, o
  <1>4. p = o
    BY <1>2, <1>3
  <1>5. QED
    BY <1>4 DEF p, o

(* The last element of a list that has been appended to.                    *)
LEMMA LastOfJoin ==
  ASSUME NEW S, NEW p \in Seq(S), NEW q \in S
  PROVE  Last(p \o << q >>) = q
  <1>1. Append(p, q) = p \o << q >> /\ Len(Append(p, q)) = Len(p) + 1
        /\ Append(p, q)[Len(p) + 1] = q
    BY AppendIsConcat, AppendProperties
  <1>2. QED
    BY <1>1 DEF Last

(* The two lists that Convert puts together: the first link after the range *)
(* is merged with it, the others stay as they are.                          *)
Joined(base, hi, s, e, cell) ==
  IF After(hi, e) = << >>
  THEN MergeAll(Before(s, base), Changed(base, hi, s, e, cell))
  ELSE MergeAll(Before(s, base), Changed(base, hi, s, e, cell) \o << After(hi, e)[1] >>)
         \o SubSeq(After(hi, e), 2, Len(After(hi, e)))

(* Convert, as the lists the lemmas are about.                              *)
LEMMA ConvertParts ==
  ASSUME NEW C, NEW of, NEW new, NEW base, NEW length, NEW hi, NEW s, NEW e, NEW cell,
         Converts(C, of, new, base, hi, s, e, cell), hi = LastByte(base, length)
  PROVE  Convert(base, length, s, e, cell) = Joined(base, hi, s, e, cell)
  <1> DEFINE below   == Before(s, base)
             changed == Changed(base, hi, s, e, cell)
             after   == After(hi, e)
             next    == SubSeq(after, 1, Min({1, Len(after)}))
  <1>1. Convert(base, length, s, e, cell) =
          MergeAll(below, changed \o next) \o SubSeq(after, Len(next) + 1, Len(after))
    BY DEF Convert, Before, Changed, After
  <1>2. after \in Seq(Entries(C)) /\ changed \in Seq(Entries(C)) /\ below \in Seq(Entries(C))
    BY AboveTiles, ChangedTiles, BelowTiles DEF Tiles, Before
  <1> HIDE DEF Joined, below, changed, after
  <1>3. CASE after = << >>
    <2>1. Len(after) = 0
      BY <1>3
    <2>2. Min({1, Len(after)}) = 0
      BY <2>1 DEF Min
    <2>3. next = << >>
      BY <1>3, <2>2
    <2>4. SubSeq(after, Len(next) + 1, Len(after)) = << >>
      <3>1. Len(next) = 0
        <4> HIDE DEF next
        <4>1. Len(<< >>) = 0
          OBVIOUS
        <4>2. QED
          BY <2>3, <4>1
      <3>2. SubSeq(after, 1, 0) = << >>
        BY SubSeqEmpty
      <3> HIDE DEF next
      <3>3. QED
        BY <2>1, <3>1, <3>2
    <2> DEFINE m == MergeAll(below, changed \o next)
    <2>5. changed \o next = changed
      <3>1. changed \o << >> = changed
        BY <1>2, ConcatEmptySeq
      <3> HIDE DEF next
      <3>2. QED
        BY <2>3, <3>1
    <2>6. m \in Seq(Entries(C))
      <3>1. /\ Tiles(below, 0, base, C, new) /\ Tiles(changed, base, hi + 1, C, new)
            /\ 0 \in Nat /\ base \in Nat /\ hi + 1 \in Nat /\ 0 <= base /\ base < hi + 1
        BY BelowTiles, ChangedTiles DEF Converts, Before, below, changed
      <3>2. Tiles(MergeAll(below, changed), 0, hi + 1, C, new)
        BY <3>1, MergeAllTiles
      <3>3. QED
        BY <2>5, <3>2 DEF Tiles
    <2>7. m \o << >> = m
      <3> HIDE DEF m
      <3>1. QED
        BY <2>6
    <2>8. QED
      BY <1>1, <1>3, <2>4, <2>5, <2>7 DEF Joined, below, changed, after
  <1>4. CASE after # << >>
    <2>1. Len(after) \in Nat \ {0} /\ after[1] \in Entries(C)
      BY <1>2, <1>4
    <2>2. Min({1, Len(after)}) = 1
      <3> DEFINE n == Len(after)
      <3>1. n \in Nat \ {0}
        BY <2>1
      <3> HIDE DEF n
      <3>2. 1 \in {1, n} /\ \A y \in {1, n} : 1 <= y
        BY <3>1
      <3> DEFINE least == CHOOSE x \in {1, n} : \A y \in {1, n} : x <= y
      <3>3. least \in {1, n} /\ \A y \in {1, n} : least <= y
        BY <3>2
      <3> HIDE DEF least
      <3>4. least = 1
        BY <3>1, <3>3
      <3>5. QED
        BY <3>4 DEF least, n, Min
    <2>3. next = << after[1] >>
      <3>1. SubSeq(after, 1, 1) = << after[1] >>
        BY <1>2, <1>4, FirstLink
      <3>2. QED
        BY <2>2, <3>1
    <2> HIDE DEF next
    <2>4. Len(next) + 1 = 2
      BY <2>3
    <2>5. QED
      BY <1>1, <1>4, <2>3, <2>4 DEF Joined, below, changed, after
  <1>5. QED
    BY <1>3, <1>4

(* A conversion leaves a list that tiles the space with the new cells, and  *)
(* merged when it was: merging the links it touched is enough.              *)
LEMMA ConvertTiles ==
  ASSUME NEW C, NEW of, NEW new, NEW base, NEW length, NEW hi, NEW s, NEW e, NEW cell,
         Converts(C, of, new, base, hi, s, e, cell), hi = LastByte(base, length)
  PROVE  /\ Tiles(Convert(base, length, s, e, cell), 0, LastAddress + 1, C, new)
         /\ Merged(map) => Merged(Convert(base, length, s, e, cell))
  <1> DEFINE below   == Before(s, base)
             changed == Changed(base, hi, s, e, cell)
             after   == After(hi, e)
             whole   == Convert(base, length, s, e, cell)
             top     == LastAddress + 1
  <1>1. /\ Tiles(below, 0, base, C, new)
        /\ Tiles(changed, base, hi + 1, C, new)
        /\ Tiles(after, hi + 1, top, C, new)
        /\ Merged(map) => Merged(below) /\ Merged(after)
    BY BelowTiles, ChangedTiles, AboveTiles DEF Before
  <1>2. whole = IF after = << >> THEN MergeAll(below, changed)
                 ELSE MergeAll(below, changed \o << after[1] >>) \o SubSeq(after, 2, Len(after))
    <2>1. whole = Joined(base, hi, s, e, cell)
      BY ConvertParts
    <2>2. QED
      BY <2>1 DEF Joined
  <1>3. /\ base \in Nat /\ hi + 1 \in Nat /\ top \in Nat /\ base < hi + 1 /\ hi + 1 <= top
        /\ 0 \in Nat /\ 0 <= base
    <2>1. /\ base \in Nat /\ hi \in Nat /\ base <= hi /\ LastAddress \in Nat
          /\ e \in Links /\ hi <= map[e].end
      BY DEF Converts
    <2>2. map[e].end \in Nat /\ map[e].end <= LastAddress
      BY <2>1, MapFacts
    <2>3. QED
      BY <2>1, <2>2
  <1> HIDE DEF below, changed, after, whole, top
  <1>4. CASE after = << >>
    <2>1. hi + 1 = top
      <3>1. hi + 1 < top => after # << >>
        <4>1. hi + 1 < top => Len(after) \in Nat \ {0}
          BY <1>1, <1>3, TilesTouch
        <4>2. Len(<< >>) = 0
          OBVIOUS
        <4>3. QED
          BY <4>1, <4>2
      <3>2. QED
        BY <1>3, <1>4, <3>1
    <2>2. /\ Tiles(MergeAll(below, changed), 0, hi + 1, C, new)
          /\ Merged(below) => Merged(MergeAll(below, changed))
      BY <1>1, <1>3, MergeAllTiles
    <2>3. QED
      BY <1>1, <1>2, <1>4, <2>1, <2>2 DEF whole, top
  <1>5. CASE after # << >>
    <2> DEFINE n     == Len(after)
               first == << after[1] >>
               rest  == SubSeq(after, 2, n)
               m     == after[1].end + 1
    <2>1. after \in Seq(Entries(C)) /\ n \in Nat \ {0} /\ 1 \in 1 .. n
      BY <1>1, <1>5 DEF Tiles
    <2>2. after[1] \in Entries(C) /\ after[1].base \in Nat /\ after[1].end \in Nat
      BY <2>1, EntryTypes
    <2>3. hi + 1 <= after[1].base /\ after[1].base <= after[1].end /\ after[1].end < top
      BY <1>1, <2>1 DEF Tiles, Within
    <2>4. hi + 1 < top
      BY <1>3, <2>2, <2>3
    <2>5. /\ after[1].base = hi + 1 /\ after[n].end = top - 1
          /\ \A k \in 1 .. n - 1 : after[k + 1].base = after[k].end + 1
      BY <1>1, <1>3, <2>4, TilesTouch
    <2>6. m \in Nat /\ hi + 1 < m /\ m <= top /\ base < m /\ base <= hi + 1
      BY <1>3, <2>2, <2>3
    <2>7. Tiles(first, hi + 1, m, C, new)
      <3>1. \A a \in after[1].base .. after[1].end : after[1].cell = new[a]
        BY <1>1, <2>1 DEF Tiles, Exact
      <3>2. Tiles(first, after[1].base, after[1].end + 1, C, new)
        BY <2>2, <2>3, <3>1, TilesOne
      <3>3. QED
        BY <2>5, <3>2
    <2>8. /\ Tiles(rest, m, top, C, new)
          /\ Merged(map) => Merged(rest)
          /\ Merged(map) => (rest # << >> => rest[1].cell # after[1].cell)
      <3>1. CASE n = 1
        <4>1. rest = << >> /\ m = top
          <5>1. rest = << >>
            BY <2>1, <3>1
          <5>2. m = top
            BY <1>3, <2>5, <3>1
          <5>3. QED
            BY <5>1, <5>2
        <4>2. Tiles(<< >>, m, m, C, new) /\ Merged(<< >>)
          BY <2>6, TilesNone, MergedShort
        <4> HIDE DEF rest, m
        <4>3. QED
          BY <4>1, <4>2
      <3>2. CASE n # 1
        <4>1. 2 \in 1 .. Len(after) /\ n \in 2 .. Len(after) /\ 1 \in 1 .. n - 1
          <5>1. n \in Nat /\ n # 0 /\ n # 1
            BY <2>1, <3>2
          <5> HIDE DEF n
          <5>2. 2 \in 1 .. n /\ n \in 2 .. n /\ 1 \in 1 .. n - 1
            BY <5>1
          <5>3. QED
            BY <5>2 DEF n
        <4>2. Tiles(rest, after[2].base, after[n].end + 1, C, new)
          BY <1>1, <1>3, <4>1, TilesPart
        <4>3. after[2].base = m
          <5>1. after[1 + 1].base = after[1].end + 1
            BY <2>5, <4>1
          <5>2. QED
            BY <5>1
        <4>4. after[n].end + 1 = top
          BY <1>3, <2>5
        <4>5. ASSUME Merged(map) PROVE Merged(rest) /\ rest[1].cell # after[1].cell
          <5>1. Merged(after)
            BY <1>1, <4>5
          <5>2. Merged(rest)
            BY <2>1, <4>1, <5>1, MergedPart
          <5>3. rest[1] = after[2]
            BY <2>1, <4>1
          <5>4. after[1].cell # after[2].cell
            <6>1. 1 + 1 = 2 /\ 1 \in 1 .. Len(after) - 1
              BY <4>1
            <6>2. after[1].cell # after[1 + 1].cell
              BY <5>1, <6>1 DEF Merged
            <6>3. QED
              BY <6>1, <6>2
          <5> HIDE DEF rest
          <5>5. QED
            BY <5>2, <5>3, <5>4
        <4>6. QED
          BY <4>2, <4>3, <4>4, <4>5
      <3>3. QED
        BY <3>1, <3>2
    <2> HIDE DEF first, rest, m, n
    <2> DEFINE touched == changed \o first
               merged  == MergeAll(below, touched)
    <2>9. Tiles(touched, base, m, C, new)
      BY <1>1, <1>3, <2>6, <2>7, TilesJoin
    <2>10. Last(touched).cell = after[1].cell
      <3>1. changed \in Seq(Entries(C))
        BY <1>1 DEF Tiles
      <3>2. Last(changed \o << after[1] >>) = after[1]
        BY <2>2, <3>1, LastOfJoin
      <3>3. QED
        BY <3>2 DEF first
    <2> HIDE DEF touched
    <2>11. /\ Tiles(merged, 0, m, C, new)
           /\ Merged(below) => Merged(merged)
           /\ merged # << >> /\ Last(merged).cell = Last(touched).cell
      BY <1>1, <1>3, <2>6, <2>9, MergeAllTiles
    <2> HIDE DEF merged
    <2>12. Tiles(merged \o rest, 0, top, C, new)
      <3>1. 0 <= m
        BY <2>6
      <3>2. QED
        BY <1>3, <2>6, <2>8, <2>11, <3>1, TilesJoin
    <2>13. Merged(map) => Merged(merged \o rest)
      <3>1. merged \in Seq(Entries(C)) /\ rest \in Seq(Entries(C))
        BY <2>8, <2>11 DEF Tiles
      <3>2. merged[Len(merged)].cell = after[1].cell
        BY <2>10, <2>11 DEF Last
      <3>3. QED
        BY <1>1, <2>8, <2>11, <3>1, <3>2, MergedJoin
    <2>14. whole = merged \o rest
      BY <1>2, <1>5 DEF merged, touched, rest, first, n
    <2>15. QED
      BY <2>12, <2>13, <2>14 DEF whole, top
  <1>6. QED
    BY <1>4, <1>5

-----------------------------------------------------------------------------
(* Addresses and words.                                                     *)

(* The space is smaller than what a word can name.                          *)
LEMMA WordFacts ==
  /\ AddressBits \in Nat /\ Modulus \in Nat \ {0} /\ LastAddress \in Nat
  /\ LastAddress + 2 <= Modulus
  <1>1. AddressBits \in 0 .. AddressBits
    BY WidthAssumption
  <1>2. 2 ^ AddressBits \in Nat \ {0}
    BY <1>1, PowersAssumption
  <1>3. QED
    BY <1>2, WidthAssumption DEF Modulus

(* A sum that has wrapped is a word.                                        *)
LEMMA WrappedType ==
  ASSUME NEW n \in Int
  PROVE  Wrapped(n) \in 0 .. Modulus - 1
  BY WordFacts DEF Wrapped

(* A word does not wrap.                                                    *)
LEMMA WrappedSmall ==
  ASSUME NEW n \in 0 .. Modulus - 1
  PROVE  Wrapped(n) = n
  BY WordFacts DEF Wrapped

(* Division with remainder.                                                 *)
LEMMA Division ==
  ASSUME NEW b \in Nat \ {0}, NEW a \in Int
  PROVE  a = b * (a \div b) + (a % b) /\ a % b \in 0 .. b - 1 /\ a \div b \in Int
  <1>1. a = (a % b) + b * (a \div b)
    BY SMTT(60)
  <1>2. a % b \in Int /\ 0 <= a % b /\ a % b < b /\ a \div b \in Int
    OBVIOUS
  <1> DEFINE q == a \div b  m == a % b
  <1>3. b * q \in Int /\ m \in Int /\ m \in 0 .. b - 1 /\ q \in Int
    BY <1>2
  <1>4. a = m + b * q
    BY <1>1
  <1> HIDE DEF q, m
  <1>5. a = b * q + m
    BY <1>3, <1>4
  <1>6. QED
    BY <1>3, <1>5 DEF q, m

(* Multiples of b lie at least b apart.                                     *)
LEMMA Multiples ==
  ASSUME NEW b \in Nat \ {0}, NEW p \in Int, NEW q \in Int
  PROVE  (b * q) - b < b * p => b * q <= b * p
  <1>1. CASE q <= p
    <2>1. PICK d \in Nat : p = q + d
      <3>1. p - q \in Nat /\ p = q + (p - q)
        BY <1>1
      <3>2. QED
        BY <3>1
    <2>2. b * p = b * q + b * d /\ b * d >= 0 /\ b * q \in Int /\ b * d \in Int
      BY <2>1
    <2>3. QED
      BY <2>2
  <1>2. CASE p <= q - 1
    <2>1. PICK d \in Nat : q = p + 1 + d
      <3>1. q - p - 1 \in Nat /\ q = p + 1 + (q - p - 1)
        BY <1>2
      <3>2. QED
        BY <3>1
    <2>2. b * q = b * p + b + b * d /\ b * d >= 0 /\ b * p \in Int /\ b * d \in Int
      BY <2>1
    <2>3. QED
      BY <2>2
  <1>3. QED
    BY <1>1, <1>2

(* A multiple leaves nothing.                                               *)
LEMMA MultipleLeavesNothing ==
  ASSUME NEW b \in Nat \ {0}, NEW q \in Int
  PROVE  (b * q) % b = 0
  <1> DEFINE a == b * q
             p == a \div b
             m == a % b
  <1>1. a \in Int
    OBVIOUS
  <1>2. a = b * p + m /\ m \in 0 .. b - 1 /\ p \in Int
    <2> HIDE DEF a
    <2>1. QED
      BY <1>1, Division
  <1>3. b * p \in Int /\ b * q \in Int
    BY <1>2
  <1> HIDE DEF p, m
  <1>4. (b * q) - b < b * p /\ b * p <= b * q
    BY <1>2, <1>3
  <1>5. b * q <= b * p
    BY <1>2, <1>4, Multiples
  <1>6. m = 0
    BY <1>2, <1>3, <1>4, <1>5
  <1>7. QED
    BY <1>6 DEF m

(* An alignment is a power of two.                                          *)
LEMMA BoundaryType ==
  ASSUME NEW r \in Request, r.alignment < AddressBits
  PROVE  Boundary(r) \in Nat \ {0}
  <1>1. r.alignment \in 0 .. AddressBits
    BY WordFacts DEF Request
  <1>2. QED
    BY <1>1, PowersAssumption DEF Boundary

(* The multiple of the alignment at an address or just below it.            *)
LEMMA RoundDownFacts ==
  ASSUME NEW a \in Nat, NEW r \in Request, r.alignment < AddressBits
  PROVE  /\ RoundDown(a, r) \in Nat /\ RoundDown(a, r) <= a /\ a < RoundDown(a, r) + Boundary(r)
         /\ RoundDown(a, r) % Boundary(r) = 0
  <1> DEFINE b == Boundary(r)
             q == a \div b
             m == a % b
  <1>1. b \in Nat \ {0}
    BY BoundaryType
  <1> HIDE DEF b
  <1>2. a = b * q + m /\ m \in 0 .. b - 1 /\ q \in Int
    BY <1>1, Division
  <1>3. RoundDown(a, r) = q * b
    BY DEF RoundDown, b
  <1> HIDE DEF q, m
  <1>4. q * b = b * q /\ b * q \in Int
    BY <1>1, <1>2
  <1>5. q >= 0
    <2>1. CASE q <= -1
      <3>1. b * q <= -b
        <4>1. PICK d \in Nat : q = -1 - d
          <5>1. -1 - q \in Nat /\ q = -1 - (-1 - q)
            BY <1>2, <2>1
          <5>2. QED
            BY <5>1
        <4>2. b * q = -b - b * d /\ b * d >= 0 /\ b * d \in Int
          BY <1>1, <4>1
        <4>3. QED
          BY <1>1, <4>2
      <3>2. QED
        BY <1>1, <1>2, <1>4, <3>1
    <2>2. QED
      BY <1>2, <2>1
  <1>6. b * q >= 0
    BY <1>1, <1>2, <1>5
  <1>7. (b * q) % b = 0
    BY <1>1, <1>2, MultipleLeavesNothing
  <1>8. RoundDown(a, r) = b * q
    BY <1>3, <1>4
  <1>9. b * q \in Nat /\ b * q <= a /\ a < b * q + b
    BY <1>1, <1>2, <1>4, <1>6
  <1>10. QED
    BY <1>7, <1>8, <1>9 DEF b

(* It is the least multiple above what lies less than one boundary below:   *)
(* RoundUp goes to the next multiple and skips none.                        *)
LEMMA NextMultiple ==
  ASSUME NEW b \in Nat \ {0}, NEW a \in Nat, NEW c \in Nat, a % b = 0, c % b = 0, c < a + b
  PROVE  c <= a
  <1> DEFINE p == a \div b
             q == c \div b
  <1>1. a = b * p + (a % b) /\ p \in Int
    BY Division
  <1>2. c = b * q + (c % b) /\ q \in Int
    BY Division
  <1> HIDE DEF p, q
  <1>3. b * p \in Int /\ b * q \in Int
    BY <1>1, <1>2
  <1>4. a = b * p /\ c = b * q
    BY <1>1, <1>2, <1>3
  <1>5. (b * q) - b < b * p
    BY <1>3, <1>4
  <1>6. b * q <= b * p
    BY <1>1, <1>2, <1>5, Multiples
  <1>7. QED
    BY <1>4, <1>6

(* The least of two numbers.                                                *)
LEMMA LesserFacts ==
  ASSUME NEW a \in Nat, NEW b \in Nat
  PROVE  Min({a, b}) \in {a, b} /\ Min({a, b}) \in Nat /\ Min({a, b}) <= a /\ Min({a, b}) <= b
  <1> DEFINE least == Min({a, b})
  <1>1. \E x \in {a, b} : \A y \in {a, b} : x <= y
    OBVIOUS
  <1>2. least \in {a, b} /\ \A y \in {a, b} : least <= y
    BY <1>1 DEF Min
  <1> HIDE DEF least
  <1>3. QED
    BY <1>2 DEF least

-----------------------------------------------------------------------------
(* The state of the map.                                                    *)

Of == [a \in Addresses |-> CellAt(a)]

(* The list tiles the space, with the cells that the abstract space has.    *)
Tiled == Tiles(map, 0, LastAddress + 1, Abstract!Cells, Of)

(* The two links of a range.                                                *)
LEMMA SegmentFacts ==
  ASSUME Tiled, NEW base \in Nat, NEW length \in Nat, base + length <= Modulus, length # 0,
         NEW se \in Segment(base, length)
  PROVE  /\ LastByte(base, length) = base + length - 1
         /\ base \in Addresses /\ base + length - 1 \in Addresses
         /\ se[1] \in Links /\ se[2] \in Links /\ se[1] <= se[2]
         /\ map[se[1]].base <= base /\ base <= map[se[1]].end
         /\ map[se[2]].base <= base + length - 1 /\ base + length - 1 <= map[se[2]].end
  <1>1. base + length - 1 \in 0 .. Modulus - 1
    BY WordFacts
  <1>2. LastByte(base, length) = base + length - 1
    BY <1>1, WrappedSmall DEF LastByte
  <1>3. /\ se[1] \in Links /\ se[2] \in Links /\ se[1] <= se[2]
        /\ map[se[1]].base <= base /\ base <= map[se[1]].end
        /\ map[se[2]].base <= base + length - 1 /\ base + length - 1 <= map[se[2]].end
    BY <1>2 DEF Segment, Holds
  <1>4. /\ map[se[2]].end \in Nat /\ map[se[2]].end < LastAddress + 1
        /\ map[se[1]].end \in Nat /\ map[se[1]].end < LastAddress + 1
    <2>1. map \in Seq(Entries(Abstract!Cells)) /\ Links = 1 .. Len(map)
      BY DEF Tiled, Tiles, Links
    <2>2. QED
      BY <2>1, <1>3, EntryTypes DEF Tiled, Tiles, Within
  <1>5. base \in Addresses /\ base + length - 1 \in Addresses
    BY <1>1, <1>3, <1>4, WordFacts DEF Addresses
  <1>6. QED
    BY <1>2, <1>3, <1>5

(* No other links are found for it.                                         *)
LEMMA SegmentUnique ==
  ASSUME Tiled, NEW base \in Nat, NEW length \in Nat, base + length <= Modulus, length # 0,
         NEW x \in Segment(base, length), NEW y \in Segment(base, length)
  PROVE  x[1] = y[1] /\ x[2] = y[2]
  <1>1. map \in Seq(Entries(Abstract!Cells)) /\ Links = 1 .. Len(map) /\ Len(map) \in Nat
    BY DEF Tiled, Tiles, Links
  <1>2. ASSUME NEW j \in Links, NEW k \in Links, NEW a \in Nat,
               map[j].base <= a, a <= map[j].end, map[k].base <= a, a <= map[k].end
        PROVE  j = k
    <2>1. /\ map[j].base \in Nat /\ map[j].end \in Nat /\ map[k].base \in Nat /\ map[k].end \in Nat
          /\ j \in Nat /\ k \in Nat
      BY <1>1, EntryTypes
    <2>2. (j < k => map[j].end < map[k].base) /\ (k < j => map[k].end < map[j].base)
      BY <1>1 DEF Tiled, Tiles, Ordered
    <2>3. QED
      BY <1>2, <2>1, <2>2
  <1>3. base + length - 1 \in Nat
    OBVIOUS
  <1>4. QED
    BY <1>2, <1>3, SegmentFacts


-----------------------------------------------------------------------------
(* The inductive invariant.                                                 *)

(* What is true of the cell of every range.                                 *)
Good(c) ==
  /\ c.attributes \cap CpuBits = {}
  /\ Space = "Io" => c.attributes = {}
  /\ c.image = NULL => c.device = NULL

GoodCells == { c \in Abstract!Cells : Good(c) }

IInv ==
  /\ Tiles(map, 0, LastAddress + 1, GoodCells, Of)
  /\ Merged(map)
  /\ status \in Statuses

(* Cells may be taken from a larger set.                                    *)
LEMMA LargerCells ==
  ASSUME NEW L, NEW lo, NEW hi, NEW C, NEW D, NEW of, Tiles(L, lo, hi, C, of), C \subseteq D
  PROVE  Tiles(L, lo, hi, D, of)
  <1>1. Entries(C) \subseteq Entries(D)
    BY DEF Entries
  <1>2. L \in Seq(Entries(D))
    BY <1>1 DEF Tiles
  <1>3. QED
    BY <1>2 DEF Tiles

(* What the invariant says of the links. *)
LEMMA LinkFacts ==
  ASSUME IInv
  PROVE  /\ Tiled /\ map \in Seq(Entries(GoodCells)) /\ Links = 1 .. Len(map)
         /\ Len(map) \in Nat \ {0}
         /\ \A k \in Links :
              /\ map[k].base \in Nat /\ map[k].end \in Nat /\ map[k].cell \in GoodCells
              /\ map[k].base <= map[k].end /\ map[k].end <= LastAddress
              /\ \A a \in map[k].base .. map[k].end : a \in Addresses /\ CellAt(a) = map[k].cell
  <1>1. Tiles(map, 0, LastAddress + 1, GoodCells, Of)
    BY DEF IInv
  <1>2. Tiled
    BY <1>1, LargerCells DEF Tiled, GoodCells
  <1>3. map \in Seq(Entries(GoodCells)) /\ Links = 1 .. Len(map)
    BY <1>1 DEF Tiles, Links
  <1>4. LastAddress + 1 \in Nat /\ 0 < LastAddress + 1
    BY WordFacts
  <1>5. Len(map) \in Nat \ {0}
    BY <1>1, <1>4, TilesTouch
  <1>6. ASSUME NEW k \in Links
        PROVE  /\ map[k].base \in Nat /\ map[k].end \in Nat /\ map[k].cell \in GoodCells
               /\ map[k].base <= map[k].end /\ map[k].end <= LastAddress
               /\ \A a \in map[k].base .. map[k].end : a \in Addresses /\ CellAt(a) = map[k].cell
    <2>1. map[k] \in Entries(GoodCells) /\ map[k].base \in Nat /\ map[k].end \in Nat
      BY <1>3, EntryTypes
    <2>2. map[k].base <= map[k].end /\ map[k].end < LastAddress + 1
      BY <1>1, <1>3 DEF Tiles, Within
    <2>3. map[k].end <= LastAddress
      BY <2>1, <2>2, WordFacts
    <2>4. map[k].cell \in GoodCells
      BY <2>1 DEF Entries
    <2>5. ASSUME NEW a \in map[k].base .. map[k].end
          PROVE  a \in Addresses /\ CellAt(a) = map[k].cell
      <3>1. a \in Addresses
        BY <2>1, <2>3, WordFacts DEF Addresses
      <3>2. map[k].cell = Of[a]
        BY <1>1, <1>3 DEF Tiles, Exact
      <3>3. QED
        BY <3>1, <3>2 DEF Of
    <2>6. QED
      BY <2>1, <2>2, <2>3, <2>4, <2>5
  <1>7. QED
    BY <1>2, <1>3, <1>5, <1>6

(* A byte of a range is held by one of the links of the range.              *)
LEMMA HeldBy ==
  ASSUME IInv, NEW base \in Nat, NEW length \in Nat, base + length <= Modulus, length # 0,
         NEW se \in Segment(base, length), NEW a \in base .. base + length - 1
  PROVE  \E k \in se[1] .. se[2] :
           k \in Links /\ a \in map[k].base .. map[k].end /\ CellAt(a) = map[k].cell
  <1>1. Tiled
    BY LinkFacts
  <1>2. /\ base \in Addresses /\ base + length - 1 \in Addresses
        /\ se[1] \in Links /\ se[2] \in Links
        /\ map[se[1]].base <= base /\ base <= map[se[1]].end
        /\ map[se[2]].base <= base + length - 1 /\ base + length - 1 <= map[se[2]].end
    BY <1>1, SegmentFacts
  <1> DEFINE s == se[1]  e == se[2]  hi == base + length - 1
  <1> HIDE DEF s, e
  <1>3. hi \in Nat /\ a \in Nat /\ base <= a /\ a <= hi /\ a \in 0 .. (LastAddress + 1) - 1
    BY <1>2, WordFacts DEF Addresses
  <1>4. PICK k \in 1 .. Len(map) : Covers(map[k], a)
    BY <1>1, <1>3 DEF Tiled, Tiles, Complete
  <1>5. k \in Links /\ s \in Links /\ e \in Links /\ k \in Nat /\ s \in Nat /\ e \in Nat
    BY <1>2, <1>4, LinkFacts, SMTT(60) DEF s, e
  <1>6. /\ map[k].base \in Nat /\ map[k].end \in Nat /\ map[s].base \in Nat
        /\ map[s].end \in Nat /\ map[e].base \in Nat /\ map[e].end \in Nat
    BY <1>5, LinkFacts
  <1>7. (k < s => map[k].end < map[s].base) /\ (e < k => map[e].end < map[k].base)
    BY <1>1, <1>5, LinkFacts DEF Tiled, Tiles, Ordered
  <1>8. map[k].base <= a /\ a <= map[k].end /\ map[s].base <= base /\ hi <= map[e].end
    BY <1>2, <1>4 DEF Covers, s, e
  <1> HIDE DEF hi
  <1>9. ~(k < s) /\ ~(e < k)
    BY <1>3, <1>6, <1>7, <1>8, SMTT(60)
  <1>10. k \in s .. e /\ a \in map[k].base .. map[k].end
    BY <1>3, <1>5, <1>6, <1>8, <1>9
  <1>11. CellAt(a) = map[k].cell
    BY <1>5, <1>10, LinkFacts
  <1>12. QED
    BY <1>5, <1>10, <1>11 DEF s, e

(* A conversion keeps the invariant and gives every byte its new cell.      *)
LEMMA Conversion ==
  ASSUME IInv, NEW base \in Nat, NEW length \in Nat, base + length <= Modulus, length # 0,
         NEW se \in Segment(base, length),
         NEW cell, \A k \in se[1] .. se[2] : cell[k] \in GoodCells,
         NEW new, NewCells(new, base, base + length - 1, cell, Of)
  PROVE  LET list == Convert(base, length, se[1], se[2], cell) IN
         Tiles(list, 0, LastAddress + 1, GoodCells, new) /\ Merged(list)
  <1>1. Tiled
    BY LinkFacts
  <1> DEFINE s == se[1]  e == se[2]  hi == base + length - 1
  <1>2. /\ hi = LastByte(base, length)
        /\ base \in Addresses /\ hi \in Addresses
        /\ s \in Links /\ e \in Links /\ s <= e
        /\ map[s].base <= base /\ base <= map[s].end
        /\ map[e].base <= hi /\ hi <= map[e].end
    BY <1>1, SegmentFacts
  <1>3. hi \in Nat /\ base <= hi /\ LastAddress \in Nat
    BY WordFacts
  <1>4. /\ Tiles(map, 0, LastAddress + 1, GoodCells, Of) /\ Merged(map)
        /\ (\A k \in s .. e : cell[k] \in GoodCells) /\ NewCells(new, base, hi, cell, Of)
    BY DEF IInv
  <1> HIDE DEF s, e, hi
  <1>5. Converts(GoodCells, Of, new, base, hi, s, e, cell)
    BY <1>2, <1>3, <1>4 DEF Converts
  <1>6. /\ Tiles(Convert(base, length, s, e, cell), 0, LastAddress + 1, GoodCells, new)
        /\ Merged(map) => Merged(Convert(base, length, s, e, cell))
    BY <1>2, <1>5, ConvertTiles
  <1>7. QED
    BY <1>4, <1>6 DEF s, e

(* A list tiles the space only with the cells that it has.                  *)
LEMMA OwnCells ==
  ASSUME NEW L, NEW C, NEW of, Tiles(L, 0, LastAddress + 1, C, of), NEW a \in Addresses
  PROVE  L[CHOOSE j \in DOMAIN L : L[j].base <= a /\ a <= L[j].end].cell = of[a]
  <1>1. L \in Seq(Entries(C)) /\ Len(L) \in Nat /\ DOMAIN L = 1 .. Len(L)
    BY EntryTypes DEF Tiles
  <1>2. a \in 0 .. (LastAddress + 1) - 1 /\ a \in Nat
    BY WordFacts DEF Addresses
  <1>3. \E k \in DOMAIN L : L[k].base <= a /\ a <= L[k].end
    BY <1>1, <1>2 DEF Tiles, Complete, Covers
  <1> DEFINE k == CHOOSE j \in DOMAIN L : L[j].base <= a /\ a <= L[j].end
  <1>4. k \in DOMAIN L /\ L[k].base <= a /\ a <= L[k].end
    BY <1>3
  <1> HIDE DEF k
  <1>5. L[k].base \in Nat /\ L[k].end \in Nat
    BY <1>1, <1>4, EntryTypes
  <1>6. a \in L[k].base .. L[k].end
    BY <1>2, <1>4, <1>5
  <1>7. L[k].cell = of[a]
    BY <1>1, <1>4, <1>6 DEF Tiles, Exact
  <1>8. QED
    BY <1>7 DEF k

(* A service that fails changes nothing.                                    *)
LEMMA FailKeeps ==
  ASSUME IInv, map' = map, status' \in Statuses
  PROVE  IInv' /\ Of' = Of
  <1>1. Of' = Of
    BY DEF Of, CellAt, Links
  <1>2. QED
    BY <1>1 DEF IInv

(* One that succeeds turns the abstract space into the new one.             *)
LEMMA ConversionKeeps ==
  ASSUME IInv, NEW base \in Nat, NEW length \in Nat, base + length <= Modulus, length # 0,
         NEW se \in Segment(base, length),
         NEW cell, \A k \in se[1] .. se[2] : cell[k] \in GoodCells,
         NEW new, new = [a \in Addresses |-> new[a]],
         NewCells(new, base, base + length - 1, cell, Of),
         map' = Convert(base, length, se[1], se[2], cell), status' \in Statuses
  PROVE  IInv' /\ Of' = new
  <1>1. Tiles(map', 0, LastAddress + 1, GoodCells, new) /\ Merged(map')
    BY Conversion
  <1>2. \A a \in Addresses : CellAt(a)' = new[a]
    BY <1>1, OwnCells DEF CellAt, Links
  <1>3. Of' = new
    BY <1>2 DEF Of
  <1>4. IInv'
    BY <1>1, <1>3 DEF IInv
  <1>5. QED
    BY <1>3, <1>4


-----------------------------------------------------------------------------
(* The services, one by one.                                                *)

(* The ranges of the clients do not wrap.                                   *)
LEMMA RangeFacts ==
  ASSUME NEW bl \in Ranges
  PROVE  bl[1] \in Nat /\ bl[2] \in Nat /\ bl[1] + bl[2] <= Modulus
  BY RangesAssumption DEF Modulus

(* A service that refuses changes nothing, whatever link it is that it      *)
(* refuses.                                                                 *)
LEMMA RefuseKeeps ==
  ASSUME IInv, NEW base, NEW length, NEW verdict, \A k \in Links : verdict[k] \in Statuses,
         Refuse(base, length, verdict)
  PROVE  IInv' /\ Of' = Of
  <1>1. {"INVALID_PARAMETER", "UNSUPPORTED", "OUT_OF_RESOURCES"} \subseteq Statuses
    BY DEF Statuses
  <1>2. map' = map
    BY DEF Refuse, Fail
  <1>3. status' \in Statuses
    <2>1. ASSUME NEW se \in Segment(base, length),
                 { k \in se[1] .. se[2] : verdict[k] # "SUCCESS" } # {}
          PROVE  verdict[Min({ k \in se[1] .. se[2] : verdict[k] # "SUCCESS" })] \in Statuses
      <3> DEFINE refused == { k \in se[1] .. se[2] : verdict[k] # "SUCCESS" }
      <3>1. Links = 1 .. Len(map) /\ Len(map) \in Nat /\ se[1] \in Links /\ se[2] \in Links
        BY LinkFacts DEF Segment
      <3>2. refused \in SUBSET (1 .. Len(map))
        BY <3>1
      <3> HIDE DEF refused
      <3>3. refused # {} => Min(refused) \in refused
        BY <3>1, <3>2, LeastIndex, ZenonT(60)
      <3>4. QED
        BY <2>1, <3>1, <3>2, <3>3 DEF refused
    <2>2. CASE status' \in {"INVALID_PARAMETER", "UNSUPPORTED", "OUT_OF_RESOURCES"}
      BY <1>1, <2>2
    <2>3. QED
      BY <2>1, <2>2 DEF Refuse, Fail
  <1>4. QED
    BY <1>2, <1>3, FailKeeps

(* A range of addresses in the abstract space.                              *)
Span(base, length) == base .. base + length - 1

(* All links between two are links.                                         *)
LEMMA LinksBetween ==
  ASSUME IInv, NEW s \in Links, NEW e \in Links
  PROVE  \A k \in s .. e : k \in Links
  BY LinkFacts

(* The new cell of a link depends on its old one only, and is in order      *)
(* where the links are converted.                                           *)
Turns(se, g, cell) ==
  /\ \A k \in Links : cell[k] = g[map[k].cell]
  /\ \A k \in se[1] .. se[2] : g[map[k].cell] \in GoodCells

(* What such a conversion does.                                             *)
LEMMA ServiceStep ==
  ASSUME IInv, NEW base \in Nat, NEW length \in Nat, base + length <= Modulus, length # 0,
         NEW se \in Segment(base, length),
         NEW g, NEW cell, Turns(se, g, cell),
         map' = Convert(base, length, se[1], se[2], cell), status' \in Statuses
  PROVE  /\ IInv'
         /\ Of' = [ a \in Addresses |-> IF a \in Span(base, length) THEN g[Of[a]] ELSE Of[a] ]
         /\ Span(base, length) \in Abstract!Intervals
         /\ \A a \in Span(base, length) :
              a \in Addresses /\ \E k \in se[1] .. se[2] : k \in Links /\ Of[a] = map[k].cell
  <1> DEFINE hi  == base + length - 1
             new == [ a \in Addresses |-> IF a \in Span(base, length) THEN g[Of[a]] ELSE Of[a] ]
  <1>1. base \in Addresses /\ hi \in Addresses /\ se[1] \in Links /\ se[2] \in Links
    BY LinkFacts, SegmentFacts
  <1>2. /\ \A k \in Links : cell[k] = g[map[k].cell]
        /\ \A k \in se[1] .. se[2] : cell[k] \in GoodCells
    BY <1>1, LinksBetween DEF Turns
  <1>3. NewCells(new, base, hi, cell, Of)
    <2>1. SUFFICES ASSUME NEW k \in Links, NEW a \in map[k].base .. map[k].end
                   PROVE  new[a] = IF base <= a /\ a <= hi THEN cell[k] ELSE Of[a]
      BY DEF NewCells
    <2>2. a \in Addresses /\ Of[a] = map[k].cell
      BY LinkFacts DEF Of
    <2>3. a \in Span(base, length) <=> base <= a /\ a <= hi
      BY <2>2, WordFacts DEF Span, Addresses
    <2>4. QED
      BY <1>2, <2>2, <2>3
  <1>4. new = [a \in Addresses |-> new[a]]
    OBVIOUS
  <1> HIDE DEF new
  <1>5. IInv' /\ Of' = new
    BY <1>2, <1>3, <1>4, ConversionKeeps
  <1>6. Span(base, length) \in Abstract!Intervals
    <2>1. base \in Abstract!Addresses /\ hi \in Abstract!Addresses /\ base \in Span(base, length)
      BY <1>1, WordFacts DEF Abstract!Addresses, Addresses, Span
    <2>2. Span(base, length) # {}
      BY <2>1
    <2>3. QED
      BY <2>1, <2>2 DEF Abstract!Intervals, Span
  <1>7. ASSUME NEW a \in Span(base, length)
        PROVE  a \in Addresses /\ \E k \in se[1] .. se[2] : k \in Links /\ Of[a] = map[k].cell
    <2>1. a \in Addresses
      BY <1>1, WordFacts DEF Addresses, Span
    <2>2. a \in base .. base + length - 1
      BY DEF Span
    <2>3. PICK k \in se[1] .. se[2] : k \in Links /\ CellAt(a) = map[k].cell
      BY <2>2, HeldBy
    <2>4. QED
      BY <2>1, <2>3 DEF Of
  <1>8. QED
    BY <1>5, <1>6, <1>7 DEF new

(* What the type of a cell says of its fields.                              *)
LEMMA CellTypes ==
  ASSUME NEW c \in GoodCells
  PROVE  /\ c \in Abstract!Cells /\ Good(c)
         /\ c = [ type |-> c.type, image |-> c.image, device |-> c.device,
                  capabilities |-> c.capabilities, attributes |-> c.attributes ]
         /\ c.type \in Types /\ c.image \in Images \cup {NULL} /\ c.device \in Devices \cup {NULL}
         /\ c.capabilities \in SUBSET AttributeBits /\ c.attributes \in SUBSET AttributeBits
  BY DEF GoodCells, Abstract!Cells

(* AddMemorySpace and AddIoSpace. *)
LEMMA AddKeeps ==
  ASSUME IInv, NEW t \in Types, NEW bl \in Ranges, NEW caps \in SUBSET AttributeBits,
         Space = "Io" \/ caps \in AttributeSets,
         AddSpace(t, bl[1], bl[2], caps)
  PROVE  IInv' /\ Abstract!SpaceStep
  <1> DEFINE base == bl[1]  length == bl[2]
             verdict == [k \in Links |-> AddVerdict(k)]
             cell == [k \in Links |-> AddedCell(k, t, caps)]
  <1>1. base \in Nat /\ length \in Nat /\ base + length <= Modulus
    BY RangeFacts
  <1>2. CASE t = "NonExistent" /\ Fail("INVALID_PARAMETER")
    <2>1. map' = map /\ status' \in Statuses
      BY <1>2 DEF Fail, Statuses
    <2>2. QED
      BY <2>1, FailKeeps DEF Abstract!SpaceStep, Of
  <1>3. CASE t # "NonExistent" /\ Refuse(base, length, verdict)
    <2>1. \A k \in Links : verdict[k] \in Statuses
      BY DEF AddVerdict, Statuses
    <2> HIDE DEF verdict
    <2>2. QED
      BY <1>3, <2>1, RefuseKeeps DEF Abstract!SpaceStep, Of
  <1>4. CASE t # "NonExistent" /\ Change(base, length, verdict, cell) /\ status' = AddStatus(t)
    <2>1. PICK s \in Links, e \in Links :
            Permitted(base, length, verdict, s, e) /\ map' = Convert(base, length, s, e, cell)
      BY <1>4 DEF Change
    <2> DEFINE se == << s, e >>
               full == Capabilities(t, caps)
               g == [ c \in GoodCells |-> IF Space = "Io" THEN [c EXCEPT !.type = t]
                                          ELSE [c EXCEPT !.type = t, !.capabilities = full] ]
    <2>2. se \in Segment(base, length) /\ length # 0 /\ se[1] = s /\ se[2] = e
      BY <2>1 DEF Permitted
    <2>3. \A k \in Links : map[k].cell \in GoodCells
      BY LinkFacts
    <2>4. \A k \in Links : cell[k] = g[map[k].cell]
      BY <2>3 DEF AddedCell
    <2>5. full \in SUBSET AttributeBits /\ caps \cup {"RUNTIME"} \subseteq full
      BY SpaceAssumption DEF Capabilities
    <2>6. ASSUME NEW c \in GoodCells PROVE g[c] \in GoodCells
      <3>1. /\ g[c] \in Abstract!Cells /\ g[c].attributes = c.attributes
            /\ g[c].image = c.image /\ g[c].device = c.device /\ g[c].type = t
            /\ Space # "Io" => g[c].capabilities = full
        <4> HIDE DEF full
        <4>1. QED
          BY <2>5, CellTypes DEF Abstract!Cells
      <3> HIDE DEF g
      <3>3. QED
        BY <3>1, CellTypes DEF GoodCells, Good
    <2>7. \A k \in se[1] .. se[2] : g[map[k].cell] \in GoodCells
      <3> HIDE DEF g, se
      <3>1. \A k \in se[1] .. se[2] : k \in Links
        BY <2>2, LinksBetween
      <3>2. QED
        BY <2>3, <2>6, <3>1
    <2>8. status' \in Statuses
      BY <1>4 DEF AddStatus, Statuses
    <2>turns. Turns(se, g, cell)
      BY <2>4, <2>7 DEF Turns
    <2> HIDE DEF cell, g, se, full
    <2>9. /\ IInv'
          /\ Of' = [ a \in Addresses |-> IF a \in Span(base, length) THEN g[Of[a]] ELSE Of[a] ]
          /\ Span(base, length) \in Abstract!Intervals
          /\ \A a \in Span(base, length) :
               a \in Addresses /\ \E k \in se[1] .. se[2] : k \in Links /\ Of[a] = map[k].cell
      BY <1>1, <2>1, <2>2, <2>8, <2>turns, ServiceStep
    <2>10. \A a \in Span(base, length) :
             Of[a] \in GoodCells /\ Of[a].type = "NonExistent" /\ Of[a].image = NULL
      <3>1. \A k \in s .. e : k \in Links => map[k].cell.type = "NonExistent" /\ map[k].cell.image = NULL
        BY <2>1 DEF Permitted, AddVerdict, Type, Unowned
      <3>2. QED
        BY <2>2, <2>3, <2>9, <3>1
    <2>11. Abstract!Add(Span(base, length), t, full)
      <3>1. Of' = [ a \in Addresses |->
                      IF a \in Span(base, length)
                      THEN IF Space = "Io" THEN [Of[a] EXCEPT !.type = t]
                           ELSE [Of[a] EXCEPT !.type = t, !.capabilities = full]
                      ELSE Of[a] ]
        BY <2>9, <2>10 DEF g
      <3>2. QED
        BY <2>10, <3>1 DEF Abstract!Add, Abstract!Change, Abstract!Unowned, Abstract!Addresses, Of, Addresses
    <2>12. Abstract!SpaceNext
      BY <1>4, <2>5, <2>9, <2>11 DEF Abstract!SpaceNext
    <2>13. QED
      BY <2>9, <2>12 DEF Abstract!SpaceStep
  <1>5. QED
    BY <1>2, <1>3, <1>4 DEF AddSpace


(* RemoveMemorySpace and RemoveIoSpace. *)
LEMMA RemoveKeeps ==
  ASSUME IInv, NEW bl \in Ranges, RemoveSpace(bl[1], bl[2])
  PROVE  IInv' /\ Abstract!SpaceStep
  <1> DEFINE base == bl[1]  length == bl[2]
             verdict == [k \in Links |-> RemoveVerdict(k)]
             cell == [k \in Links |-> RemovedCell(k)]
  <1>1. base \in Nat /\ length \in Nat /\ base + length <= Modulus
    BY RangeFacts
  <1>2. CASE Refuse(base, length, verdict)
    <2>1. \A k \in Links : verdict[k] \in Statuses
      BY DEF RemoveVerdict, Statuses
    <2> HIDE DEF verdict
    <2>2. QED
      BY <1>2, <2>1, RefuseKeeps DEF Abstract!SpaceStep, Of
  <1>3. CASE Change(base, length, verdict, cell) /\ status' = "SUCCESS"
    <2>1. PICK s \in Links, e \in Links :
            Permitted(base, length, verdict, s, e) /\ map' = Convert(base, length, s, e, cell)
      BY <1>3 DEF Change
    <2> DEFINE se == << s, e >>
               g == [ c \in GoodCells |-> [c EXCEPT !.type = "NonExistent", !.capabilities = {}] ]
    <2>2. se \in Segment(base, length) /\ length # 0 /\ se[1] = s /\ se[2] = e
      BY <2>1 DEF Permitted
    <2>3. \A k \in Links : map[k].cell \in GoodCells
      BY LinkFacts
    <2>4. \A k \in Links : cell[k] = g[map[k].cell]
      BY <2>3 DEF RemovedCell
    <2>5. ASSUME NEW c \in GoodCells PROVE g[c] \in GoodCells
      <3>1. /\ g[c] \in Abstract!Cells /\ g[c].attributes = c.attributes
            /\ g[c].image = c.image /\ g[c].device = c.device /\ g[c].type = "NonExistent"
        BY CellTypes, SpaceAssumption, ZenonT(60) DEF Abstract!Cells
      <3> HIDE DEF g
      <3>2. QED
        BY <3>1, CellTypes DEF GoodCells, Good
    <2>6. \A k \in se[1] .. se[2] : g[map[k].cell] \in GoodCells
      <3> HIDE DEF g, se
      <3>1. \A k \in se[1] .. se[2] : k \in Links
        BY <2>2, LinksBetween
      <3>2. QED
        BY <2>3, <2>5, <3>1
    <2>7. status' \in Statuses
      BY <1>3 DEF Statuses
    <2>turns. Turns(se, g, cell)
      BY <2>4, <2>6 DEF Turns
    <2> HIDE DEF cell, g, se
    <2>8. /\ IInv'
          /\ Of' = [ a \in Addresses |-> IF a \in Span(base, length) THEN g[Of[a]] ELSE Of[a] ]
          /\ Span(base, length) \in Abstract!Intervals
          /\ \A a \in Span(base, length) :
               a \in Addresses /\ \E k \in se[1] .. se[2] : k \in Links /\ Of[a] = map[k].cell
      BY <1>1, <2>1, <2>2, <2>7, <2>turns, ServiceStep
    <2>9. \A a \in Span(base, length) :
            Of[a] \in GoodCells /\ Of[a].type # "NonExistent" /\ Of[a].image = NULL
      <3>1. \A k \in s .. e : k \in Links => RemoveVerdict(k) = "SUCCESS"
        BY <2>1 DEF Permitted
      <3>2. \A k \in s .. e : k \in Links => map[k].cell.type # "NonExistent" /\ map[k].cell.image = NULL
        BY <3>1 DEF RemoveVerdict, Type, Unowned
      <3>3. QED
        BY <2>2, <2>3, <2>8, <3>2
    <2>10. Abstract!Remove(Span(base, length))
      <3>1. Of' = [ a \in Addresses |->
                      IF a \in Span(base, length)
                      THEN [Of[a] EXCEPT !.type = "NonExistent", !.capabilities = {}] ELSE Of[a] ]
        BY <2>8, <2>9 DEF g
      <3>2. QED
        BY <2>9, <3>1 DEF Abstract!Remove, Abstract!Change, Abstract!Unowned, Abstract!Addresses, Of, Addresses
    <2>11. QED
      BY <2>8, <2>10 DEF Abstract!SpaceStep, Abstract!SpaceNext
  <1>4. QED
    BY <1>2, <1>3 DEF RemoveSpace

(* FreeMemorySpace and FreeIoSpace. *)
LEMMA FreeKeeps ==
  ASSUME IInv, NEW bl \in Ranges, FreeSpace(bl[1], bl[2])
  PROVE  IInv' /\ Abstract!SpaceStep
  <1> DEFINE base == bl[1]  length == bl[2]
             verdict == [k \in Links |-> FreeVerdict(k)]
             cell == [k \in Links |-> FreedCell(k)]
  <1>1. base \in Nat /\ length \in Nat /\ base + length <= Modulus
    BY RangeFacts
  <1>2. CASE Refuse(base, length, verdict)
    <2>1. \A k \in Links : verdict[k] \in Statuses
      BY DEF FreeVerdict, Statuses
    <2> HIDE DEF verdict
    <2>2. QED
      BY <1>2, <2>1, RefuseKeeps DEF Abstract!SpaceStep, Of
  <1>3. CASE Change(base, length, verdict, cell) /\ status' = "SUCCESS"
    <2>1. PICK s \in Links, e \in Links :
            Permitted(base, length, verdict, s, e) /\ map' = Convert(base, length, s, e, cell)
      BY <1>3 DEF Change
    <2> DEFINE se == << s, e >>
               g == [ c \in GoodCells |-> [c EXCEPT !.image = NULL, !.device = NULL] ]
    <2>2. se \in Segment(base, length) /\ length # 0 /\ se[1] = s /\ se[2] = e
      BY <2>1 DEF Permitted
    <2>3. \A k \in Links : map[k].cell \in GoodCells
      BY LinkFacts
    <2>4. \A k \in Links : cell[k] = g[map[k].cell]
      BY <2>3 DEF FreedCell
    <2>5. ASSUME NEW c \in GoodCells PROVE g[c] \in GoodCells
      <3>1. /\ g[c] \in Abstract!Cells /\ g[c].attributes = c.attributes
            /\ g[c].capabilities = c.capabilities
            /\ g[c].device = NULL /\ g[c].type = c.type
        BY CellTypes, ZenonT(60) DEF Abstract!Cells
      <3> HIDE DEF g
      <3>2. QED
        BY <3>1, CellTypes DEF GoodCells, Good
    <2>6. \A k \in se[1] .. se[2] : g[map[k].cell] \in GoodCells
      <3> HIDE DEF g, se
      <3>1. \A k \in se[1] .. se[2] : k \in Links
        BY <2>2, LinksBetween
      <3>2. QED
        BY <2>3, <2>5, <3>1
    <2>7. status' \in Statuses
      BY <1>3 DEF Statuses
    <2>turns. Turns(se, g, cell)
      BY <2>4, <2>6 DEF Turns
    <2> HIDE DEF cell, g, se
    <2>8. /\ IInv'
          /\ Of' = [ a \in Addresses |-> IF a \in Span(base, length) THEN g[Of[a]] ELSE Of[a] ]
          /\ Span(base, length) \in Abstract!Intervals
          /\ \A a \in Span(base, length) :
               a \in Addresses /\ \E k \in se[1] .. se[2] : k \in Links /\ Of[a] = map[k].cell
      BY <1>1, <2>1, <2>2, <2>7, <2>turns, ServiceStep
    <2>9. \A a \in Span(base, length) : Of[a] \in GoodCells /\ Of[a].image # NULL
      <3>1. \A k \in s .. e : k \in Links => FreeVerdict(k) = "SUCCESS"
        BY <2>1 DEF Permitted
      <3>2. \A k \in s .. e : k \in Links => map[k].cell.image # NULL
        BY <3>1 DEF FreeVerdict, Unowned
      <3>3. QED
        BY <2>2, <2>3, <2>8, <3>2
    <2>10. Abstract!Free(Span(base, length))
      <3>1. Of' = [ a \in Addresses |->
                      IF a \in Span(base, length)
                      THEN [Of[a] EXCEPT !.image = NULL, !.device = NULL] ELSE Of[a] ]
        BY <2>8, <2>9 DEF g
      <3>2. QED
        BY <2>9, <3>1 DEF Abstract!Free, Abstract!Change, Abstract!Unowned, Abstract!Addresses, Of, Addresses
    <2>11. QED
      BY <2>8, <2>10 DEF Abstract!SpaceStep, Abstract!SpaceNext
  <1>4. QED
    BY <1>2, <1>3 DEF FreeSpace

(* SetMemorySpaceAttributes: no link has attributes of the CPU, so that     *)
(* there are none to collect.                                               *)
LEMMA SetAttributesKeeps ==
  ASSUME IInv, NEW bl \in Ranges, NEW attrs \in AttributeSets, Space = "Memory",
         SetSpaceAttributes(bl[1], bl[2], attrs)
  PROVE  IInv' /\ Abstract!SpaceStep
  <1> DEFINE base == bl[1]  length == bl[2]
             verdict == [k \in Links |-> AttributesVerdict(k, base, length, attrs)]
             cell == [k \in Links |-> AttributedCell(base, k, attrs)]
  <1>1. base \in Nat /\ length \in Nat /\ base + length <= Modulus
    BY RangeFacts
  <1>2. CASE Refuse(base, length, verdict)
    <2>1. \A k \in Links : verdict[k] \in Statuses
      BY DEF AttributesVerdict, Statuses
    <2> HIDE DEF verdict
    <2>2. QED
      BY <1>2, <2>1, RefuseKeeps DEF Abstract!SpaceStep, Of
  <1>3. CASE Fail("NOT_AVAILABLE_YET")
    <2>1. map' = map /\ status' \in Statuses
      BY <1>3 DEF Fail, Statuses
    <2>2. QED
      BY <2>1, FailKeeps DEF Abstract!SpaceStep, Of
  <1>4. CASE attrs \cap CpuBits = {} /\ Change(base, length, verdict, cell) /\ status' = "SUCCESS"
    <2>1. PICK s \in Links, e \in Links :
            Permitted(base, length, verdict, s, e) /\ map' = Convert(base, length, s, e, cell)
      BY <1>4 DEF Change
    <2> DEFINE se == << s, e >>
               g == [ c \in GoodCells |-> [c EXCEPT !.attributes = attrs] ]
    <2>2. se \in Segment(base, length) /\ length # 0 /\ se[1] = s /\ se[2] = e
      BY <2>1 DEF Permitted
    <2>3. \A k \in Links : map[k].cell \in GoodCells
      BY LinkFacts
    <2>4. \A k \in Links : cell[k] = g[map[k].cell]
      <3>1. SUFFICES ASSUME NEW k \in Links PROVE AttributedCell(base, k, attrs) = g[map[k].cell]
        OBVIOUS
      <3> DEFINE kept == { map[j].cell.attributes \cap CpuBits : j \in { i \in 1 .. k : map[i].end >= base } }
      <3>2. \A j \in 1 .. k : j \in Links
        BY LinkFacts
      <3>3. \A x \in kept : x = {}
        BY <2>3, <3>2, CellTypes DEF Good
      <3>4. UNION kept = {}
        BY <3>3
      <3>5. attrs \cup UNION kept = attrs
        BY <3>4
      <3> HIDE DEF kept
      <3>6. [map[k].cell EXCEPT !.attributes = attrs \cup UNION kept] = g[map[k].cell]
        BY <2>3, <3>5
      <3>7. QED
        BY <3>6 DEF AttributedCell, kept
    <2>5. attrs \in SUBSET AttributeBits
      BY <1>4, RangesAssumption
    <2>6. ASSUME NEW c \in GoodCells, attrs \subseteq c.capabilities PROVE g[c] \in GoodCells
      <3>1. /\ g[c] \in Abstract!Cells /\ g[c].attributes = attrs
            /\ g[c].capabilities = c.capabilities
            /\ g[c].image = c.image /\ g[c].device = c.device
        BY <2>5, CellTypes DEF Abstract!Cells
      <3>2. c.image = NULL => c.device = NULL
        BY CellTypes DEF Good
      <3>3. Good(g[c])
        <4> HIDE DEF g
        <4>1. QED
          BY <1>4, <2>5, <2>6, <3>1, <3>2 DEF Good
      <3>4. QED
        BY <3>1, <3>3 DEF GoodCells
    <2>7. \A k \in s .. e : k \in Links /\ attrs \subseteq map[k].cell.capabilities
      <3>1. \A k \in s .. e : k \in Links
        BY LinksBetween
      <3>2. \A k \in s .. e : AttributesVerdict(k, base, length, attrs) = "SUCCESS"
        BY <2>1, <3>1 DEF Permitted
      <3>3. QED
        BY <3>1, <3>2 DEF AttributesVerdict
    <2>8. \A k \in se[1] .. se[2] : g[map[k].cell] \in GoodCells
      <3> HIDE DEF g, se
      <3>1. QED
        BY <2>2, <2>3, <2>6, <2>7
    <2>9. status' \in Statuses
      BY <1>4 DEF Statuses
    <2>turns. Turns(se, g, cell)
      BY <2>4, <2>8 DEF Turns
    <2> HIDE DEF cell, g, se
    <2>10. /\ IInv'
           /\ Of' = [ a \in Addresses |-> IF a \in Span(base, length) THEN g[Of[a]] ELSE Of[a] ]
           /\ Span(base, length) \in Abstract!Intervals
           /\ \A a \in Span(base, length) :
                a \in Addresses /\ \E k \in se[1] .. se[2] : k \in Links /\ Of[a] = map[k].cell
      BY <1>1, <2>1, <2>2, <2>9, <2>turns, ServiceStep
    <2>11. \A a \in Span(base, length) : Of[a] \in GoodCells /\ attrs \subseteq Of[a].capabilities
      BY <2>2, <2>3, <2>7, <2>10
    <2>12. Abstract!SetAttributes(Span(base, length), attrs)
      <3>1. Of' = [ a \in Addresses |->
                      IF a \in Span(base, length)
                      THEN [Of[a] EXCEPT !.attributes = attrs] ELSE Of[a] ]
        BY <2>10, <2>11 DEF g
      <3>2. QED
        BY <2>11, <3>1 DEF Abstract!SetAttributes, Abstract!Change, Abstract!Addresses, Of, Addresses
    <2>13. QED
      BY <2>5, <2>10, <2>12 DEF Abstract!SpaceStep, Abstract!SpaceNext
  <1>5. QED
    BY <1>2, <1>3, <1>4 DEF SetSpaceAttributes

(* SetMemorySpaceCapabilities. *)
LEMMA SetCapabilitiesKeeps ==
  ASSUME IInv, NEW bl \in Ranges, NEW caps \in AttributeSets, Space = "Memory",
         SetSpaceCapabilities(bl[1], bl[2], caps)
  PROVE  IInv' /\ Abstract!SpaceStep
  <1> DEFINE base == bl[1]  length == bl[2]
             verdict == [k \in Links |-> CapabilitiesVerdict(k, base, length, caps)]
             cell == [k \in Links |-> [map[k].cell EXCEPT !.capabilities = caps]]
  <1>1. base \in Nat /\ length \in Nat /\ base + length <= Modulus
    BY RangeFacts
  <1>2. CASE Refuse(base, length, verdict)
    <2>1. \A k \in Links : verdict[k] \in Statuses
      BY DEF CapabilitiesVerdict, Statuses
    <2> HIDE DEF verdict
    <2>2. QED
      BY <1>2, <2>1, RefuseKeeps DEF Abstract!SpaceStep, Of
  <1>3. CASE Change(base, length, verdict, cell) /\ status' = "ASSERT"
    <2>1. PICK s \in Links, e \in Links :
            Permitted(base, length, verdict, s, e) /\ map' = Convert(base, length, s, e, cell)
      BY <1>3 DEF Change
    <2> DEFINE se == << s, e >>
               g == [ c \in GoodCells |-> [c EXCEPT !.capabilities = caps] ]
    <2>2. se \in Segment(base, length) /\ length # 0 /\ se[1] = s /\ se[2] = e
      BY <2>1 DEF Permitted
    <2>3. \A k \in Links : map[k].cell \in GoodCells
      BY LinkFacts
    <2>4. \A k \in Links : cell[k] = g[map[k].cell]
      BY <2>3
    <2>5. caps \in SUBSET AttributeBits
      BY RangesAssumption
    <2>6. ASSUME NEW c \in GoodCells, c.attributes \subseteq caps PROVE g[c] \in GoodCells
      <3>1. /\ g[c] \in Abstract!Cells /\ g[c].attributes = c.attributes
            /\ g[c].capabilities = caps
            /\ g[c].image = c.image /\ g[c].device = c.device
        BY <2>5, CellTypes DEF Abstract!Cells
      <3>2. /\ c.image = NULL => c.device = NULL
            /\ c.attributes \cap CpuBits = {}
        BY CellTypes DEF Good
      <3>3. Good(g[c])
        <4> HIDE DEF g
        <4>1. QED
          BY <2>6, <3>1, <3>2 DEF Good
      <3>4. QED
        BY <3>1, <3>3 DEF GoodCells
    <2>7. \A k \in s .. e : k \in Links /\ map[k].cell.attributes \subseteq caps
      <3>1. \A k \in s .. e : k \in Links
        BY LinksBetween
      <3>2. \A k \in s .. e : CapabilitiesVerdict(k, base, length, caps) = "SUCCESS"
        BY <2>1, <3>1 DEF Permitted
      <3>3. QED
        BY <3>1, <3>2 DEF CapabilitiesVerdict
    <2>8. \A k \in se[1] .. se[2] : g[map[k].cell] \in GoodCells
      <3> HIDE DEF g, se
      <3>1. QED
        BY <2>2, <2>3, <2>6, <2>7
    <2>9. status' \in Statuses
      BY <1>3 DEF Statuses
    <2>turns. Turns(se, g, cell)
      BY <2>4, <2>8 DEF Turns
    <2> HIDE DEF cell, g, se
    <2>10. /\ IInv'
           /\ Of' = [ a \in Addresses |-> IF a \in Span(base, length) THEN g[Of[a]] ELSE Of[a] ]
           /\ Span(base, length) \in Abstract!Intervals
           /\ \A a \in Span(base, length) :
                a \in Addresses /\ \E k \in se[1] .. se[2] : k \in Links /\ Of[a] = map[k].cell
      BY <1>1, <2>1, <2>2, <2>9, <2>turns, ServiceStep
    <2>11. \A a \in Span(base, length) : Of[a] \in GoodCells /\ Of[a].attributes \subseteq caps
      BY <2>2, <2>3, <2>7, <2>10
    <2>12. Abstract!SetCapabilities(Span(base, length), caps)
      <3>1. Of' = [ a \in Addresses |->
                      IF a \in Span(base, length)
                      THEN [Of[a] EXCEPT !.capabilities = caps] ELSE Of[a] ]
        BY <2>10, <2>11 DEF g
      <3>2. QED
        BY <2>11, <3>1 DEF Abstract!SetCapabilities, Abstract!Change, Abstract!Addresses, Of, Addresses
    <2>13. QED
      BY <2>5, <2>10, <2>12 DEF Abstract!SpaceStep, Abstract!SpaceNext
  <1>4. QED
    BY <1>2, <1>3 DEF SetSpaceCapabilities


-----------------------------------------------------------------------------
(* The search.                                                              *)

(* What the type of a request says of its fields.                           *)
LEMMA RequestFacts ==
  ASSUME NEW r \in Requests
  PROVE  /\ r \in Request /\ r.length \in Nat /\ r.base \in Nat /\ r.alignment \in Nat
         /\ r.type \in Types
         /\ r.alignment < AddressBits => LastAddress + Boundary(r) + r.length <= Modulus
  BY RequestsAssumption DEF Request, Boundary

(* The address a search may end with: where every link of the range can be  *)
(* used.                                                                    *)
Fits(a, r) ==
  /\ a \in Nat
  /\ \E se \in Segment(a, r.length) : \A k \in se[1] .. se[2] : Usable(k, r)

(* Whatever wraps on the way, the search tries an address.                  *)
LEMMA CandidateType ==
  ASSUME IInv, NEW r \in Requests, r.alignment < AddressBits, NEW k \in Links
  PROVE  Candidate(k, r) \in Nat
  <1>1. /\ r.length \in Nat /\ r.base \in Nat /\ r \in Request
    BY RequestFacts
  <1>2. map[k].base \in Nat /\ map[k].end \in Nat
    BY LinkFacts
  <1>3. Last(map).end \in Nat
    <2>1. Len(map) \in Links /\ Last(map) = map[Len(map)]
      BY LinkFacts DEF Last
    <2>2. QED
      BY <2>1, LinkFacts
  <1>4. MaxAddress(r) \in Nat
    BY <1>1, <1>3 DEF MaxAddress
  <1>5. CASE r.how \in TopDown
    <2> DEFINE top == Min({MaxAddress(r), map[k].end})
               n == top + 1 + Modulus - r.length
    <2>1. top \in Nat
      BY <1>2, <1>4, LesserFacts
    <2> HIDE DEF top
    <2>2. n \in Int
      BY <1>1, <2>1, WordFacts
    <2> HIDE DEF n
    <2>3. Wrapped(n) \in Nat
      BY <2>2, WrappedType, WordFacts
    <2>4. RoundDown(Wrapped(n), r) \in Nat
      BY <1>1, <2>3, RoundDownFacts
    <2>5. QED
      BY <1>5, <2>4 DEF Candidate, n, top
  <1>6. CASE r.how \notin TopDown
    <2>1. r \in Request
      BY RequestFacts
    <2>2. Boundary(r) \in Nat
      BY <2>1, BoundaryType
    <2> DEFINE n == map[k].base + Boundary(r) - 1
    <2>3. n \in Int
      BY <1>2, <2>2
    <2> HIDE DEF n
    <2>4. Wrapped(n) \in Nat
      BY <2>3, WrappedType, WordFacts
    <2>5. RoundDown(Wrapped(n), r) \in Nat
      BY <1>1, <2>4, RoundDownFacts
    <2>6. QED
      BY <1>6, <2>5 DEF Candidate, RoundUp, n
  <1>7. QED
    BY <1>5, <1>6

(* The places the search can be at.                                         *)
Places(r) == { p \in [link : Int, found : Nat] : p.found = NotFound \/ Fits(p.found, r) }

(* The places a try can lead to.                                            *)
LEMMA PlaceTypes ==
  ASSUME NEW r
  PROVE  /\ \A k \in Int : Trying(k) \in Places(r)
         /\ Ended(NotFound) \in Places(r)
         /\ \A a \in Nat : Fits(a, r) => Ended(a) \in Places(r)
  <1>1. NotFound \in Nat
    BY WordFacts DEF NotFound
  <1> HIDE DEF NotFound
  <1>2. QED
    BY <1>1 DEF Places, Trying, Ended

(* A try that ends the search ends it with nothing, or where the range fits.*)
LEMMA TryFits ==
  ASSUME IInv, NEW r \in Requests, r.alignment < AddressBits, NEW place \in Places(r)
  PROVE  Try(place, r) \in Places(r)
  <1> DEFINE k == place.link
             a == Candidate(k, r)
             blocked == Blocked(a, r.length, r)
  <1>1. \A j \in Int : Onward(j, r) \in Int
    BY DEF Onward
  <1>2. CASE k \notin Links
    BY <1>2 DEF Try
  <1>3. CASE k \in Links /\ (~Usable(k, r) \/ TooSmall(k, r))
    <2>1. k \in Int
      BY <1>3, LinkFacts
    <2>2. Try(place, r) = Trying(Onward(k, r))
      BY <1>3 DEF Try
    <2>3. QED
      BY <1>1, <2>1, <2>2, PlaceTypes
  <1>4. CASE /\ k \in Links /\ ~(~Usable(k, r) \/ TooSmall(k, r))
             /\ Hopeless(k, r) \/ Segment(a, r.length) = {}
    <2>1. Try(place, r) = Ended(NotFound)
      BY <1>4 DEF Try
    <2>2. QED
      BY <2>1, PlaceTypes
  <1>5. CASE /\ k \in Links /\ ~(~Usable(k, r) \/ TooSmall(k, r))
             /\ ~(Hopeless(k, r) \/ Segment(a, r.length) = {})
    <2> DEFINE se == CHOOSE x \in Segment(a, r.length) : TRUE
    <2>1. se \in Segment(a, r.length)
      BY <1>5
    <2>2. blocked = { j \in se[1] .. se[2] : ~Usable(j, r) }
      BY DEF Blocked
    <2> HIDE DEF se
    <2>3. CASE blocked = {}
      <3>1. Try(place, r) = Ended(a)
        BY <1>5, <2>3 DEF Try
      <3>2. \A j \in se[1] .. se[2] : Usable(j, r)
        BY <2>2, <2>3
      <3>3. a \in Nat
        BY <1>5, CandidateType
      <3> HIDE DEF a
      <3>4. Fits(a, r)
        BY <2>1, <3>2, <3>3 DEF Fits
      <3>5. QED
        BY <3>1, <3>3, <3>4, PlaceTypes
    <2>4. CASE blocked # {}
      <3>1. Try(place, r) = Trying(Onward(Min(blocked), r))
        BY <1>5, <2>4 DEF Try
      <3>2. se[1] \in Links /\ se[2] \in Links
        BY <2>1 DEF Segment
      <3>3. Len(map) \in Nat /\ blocked \in SUBSET (1 .. Len(map))
        BY <2>2, <3>2, LinkFacts
      <3> HIDE DEF blocked
      <3>4. Min(blocked) \in blocked
        BY <2>4, <3>3, LeastIndex, ZenonT(60)
      <3>5. \A j \in blocked : j \in Int
        BY <3>3
      <3>6. Min(blocked) \in Int
        BY <3>4, <3>5
      <3>7. QED
        BY <1>1, <3>1, <3>6, PlaceTypes
    <2>5. QED
      BY <2>3, <2>4
  <1>6. QED
    BY <1>2, <1>3, <1>4, <1>5

(* The places of a search, one for each number of tries.                    *)
IsSearch(place, r) ==
  place = [i \in 0 .. Len(map) |->
             IF i = 0 THEN Trying(First(r)) ELSE Try(place[i - 1], r)]

(* There are such places, and the search ends with the last of them.        *)
LEMMA SearchSteps ==
  ASSUME IInv, NEW r \in Requests, r.alignment < AddressBits
  PROVE  \E place : IsSearch(place, r) /\ Search(r) = place[Len(map)].found
  <1> DEFINE n == Len(map)
             start == Trying(First(r))
             step == [p \in Places(r) |-> Try(p, r)]
             rec(f) == [i \in 0 .. n |-> IF i = 0 THEN start ELSE Try(f[i - 1], r)]
             place == CHOOSE f : f = rec(f)
  <1>1. n \in Nat
    BY LinkFacts
  <1>2. Search(r) = place[n].found
    BY DEF Search
  <1>3. start \in Places(r)
    <2>1. First(r) \in Int
      BY <1>1 DEF First
    <2>2. QED
      BY <2>1, PlaceTypes
  <1>4. step \in [Places(r) -> Places(r)]
    BY TryFits
  <1>5. \E f : f = rec(f)
    <2> HIDE DEF n, start, step
    <2>1. PICK f \in [0 .. n -> Places(r)] : IsIteration(f, start, n, step)
      BY <1>1, <1>3, <1>4, IterationExists
    <2>2. \A i \in 0 .. n : i # 0 => i - 1 \in 0 .. n /\ step[f[i - 1]] = Try(f[i - 1], r)
      BY <1>1, <2>1 DEF step
    <2>3. f = [i \in 0 .. n |-> IF i = 0 THEN start ELSE step[f[i - 1]]]
      BY <2>1 DEF IsIteration
    <2>4. f = rec(f)
      BY <2>2, <2>3
    <2>5. QED
      BY <2>4
  <1>6. place = rec(place)
    <2> HIDE DEF rec
    <2>1. QED
      BY <1>5
  <1>7. IsSearch(place, r)
    BY <1>6 DEF IsSearch
  <1>8. QED
    BY <1>2, <1>7

(* Induction over the tries: where each leads from P[n] to P[n + 1], the    *)
(* search ends in the last P.                                               *)
LEMMA SearchInduction ==
  ASSUME IInv, NEW r \in Requests, r.alignment < AddressBits, NEW P,
         Trying(First(r)) \in P[0],
         \A n \in 0 .. Len(map) - 1 : \A p \in P[n] : Try(p, r) \in P[n + 1]
  PROVE  \E p \in P[Len(map)] : Search(r) = p.found
  <1> DEFINE m == Len(map)
  <1>1. m \in Nat
    BY LinkFacts
  <1>2. PICK place : IsSearch(place, r) /\ Search(r) = place[m].found
    BY SearchSteps
  <1>3. place[0] = Trying(First(r))
    BY <1>1, <1>2 DEF IsSearch
  <1>4. ASSUME NEW i \in Nat, i < m
        PROVE  place[i + 1] = Try(place[i], r)
    <2>1. i + 1 \in 0 .. m /\ i + 1 # 0 /\ (i + 1) - 1 = i
      BY <1>1, <1>4
    <2>2. place[i + 1] = Try(place[(i + 1) - 1], r)
      BY <1>2, <2>1 DEF IsSearch
    <2>3. QED
      BY <2>1, <2>2
  <1> DEFINE F == { i \in Nat : i <= m => place[i] \in P[i] }
  <1>5. 0 \in F
    BY <1>3
  <1>6. ASSUME NEW i \in F PROVE i + 1 \in F
    <2>1. SUFFICES ASSUME i + 1 <= m PROVE place[i + 1] \in P[i + 1]
      OBVIOUS
    <2>2. i \in Nat /\ i < m /\ i \in 0 .. m - 1 /\ place[i] \in P[i]
      BY <1>1, <2>1
    <2>3. Try(place[i], r) \in P[i + 1]
      BY <2>2
    <2>4. QED
      BY <1>4, <2>2, <2>3
  <1>7. F \subseteq Nat
    OBVIOUS
  <1> HIDE DEF F
  <1>8. F = Nat
    BY <1>5, <1>6, <1>7, SetInduction
  <1>9. place[m] \in P[m]
    BY <1>1, <1>8 DEF F
  <1>10. QED
    BY <1>2, <1>9

(* The search ends with nothing, or where the range fits.                   *)
LEMMA SearchFits ==
  ASSUME IInv, NEW r \in Requests, r.alignment < AddressBits
  PROVE  Search(r) \in Nat /\ (Search(r) = NotFound \/ Fits(Search(r), r))
  <1> DEFINE P == [n \in Nat |-> Places(r)]
  <1>1. Len(map) \in Nat
    BY LinkFacts
  <1>2. Trying(First(r)) \in P[0]
    <2>1. First(r) \in Int
      BY <1>1 DEF First
    <2>2. QED
      BY <2>1, PlaceTypes
  <1>3. \A n \in 0 .. Len(map) - 1 : \A p \in P[n] : Try(p, r) \in P[n + 1]
    BY <1>1, TryFits
  <1>4. P[Len(map)] = Places(r)
    BY <1>1
  <1> HIDE DEF P
  <1>5. PICK p \in P[Len(map)] : Search(r) = p.found
    BY <1>2, <1>3, SearchInduction
  <1>6. QED
    BY <1>4, <1>5 DEF Places

(* Given or searched for, the address that is found is one where the range  *)
(* fits.                                                                    *)
LEMMA FoundFits ==
  ASSUME IInv, NEW r \in Requests, r.alignment < AddressBits
  PROVE  Found(r) = NotFound \/ Fits(Found(r), r)
  <1>1. r.base \in Nat
    BY RequestFacts
  <1>2. Given(r) = NotFound \/ Fits(Given(r), r)
    BY <1>1 DEF Given, Fits
  <1>3. Search(r) = NotFound \/ Fits(Search(r), r)
    BY SearchFits
  <1>4. QED
    BY <1>2, <1>3 DEF Found

(* AllocateMemorySpace and AllocateIoSpace: what the search has found is    *)
(* one range, and what is converted is that range.                          *)
LEMMA AllocateKeeps ==
  ASSUME IInv, NEW r \in Requests, NEW image \in Images \cup {NULL},
         NEW device \in Devices \cup {NULL}, AllocateSpace(r, image, device)
  PROVE  IInv' /\ Abstract!SpaceStep
  <1> DEFINE length == r.length
             cell == [k \in Links |-> AllocatedCell(k, image, device)]
  <1>1. CASE \E s \in {"INVALID_PARAMETER", "NOT_FOUND", "OUT_OF_RESOURCES"} : Fail(s)
    <2>1. map' = map /\ status' \in Statuses
      BY <1>1 DEF Fail, Statuses
    <2>2. QED
      BY <2>1, FailKeeps DEF Abstract!SpaceStep, Of
  <1>2. CASE /\ image # NULL /\ r.alignment < AddressBits
             /\ length # 0 /\ Found(r) # NotFound
             /\ \E se \in Segment(Found(r), length) :
                  map' = Convert(Found(r), length, se[1], se[2], cell)
             /\ status' = "SUCCESS"
    <2>0. PICK base : base = Found(r)
      OBVIOUS
    <2>1. PICK se \in Segment(base, length) : map' = Convert(base, length, se[1], se[2], cell)
      BY <1>2, <2>0
    <2>2. Fits(base, r)
      BY <1>2, <2>0, FoundFits
    <2>3. base \in Nat
      BY <2>2 DEF Fits
    <2>4. length \in Nat /\ r.type \in Types /\ LastAddress + length <= Modulus
      <3>1. /\ r \in Request /\ r.length \in Nat /\ r.type \in Types
            /\ LastAddress + Boundary(r) + r.length <= Modulus
        BY <1>2, RequestFacts
      <3>2. Boundary(r) \in Nat
        BY <1>2, <3>1, BoundaryType
      <3>3. QED
        BY <3>1, <3>2, WordFacts
    <2> HIDE DEF length
    <2>5. base + length <= Modulus
      <3>1. se[1] \in Links /\ base <= map[se[1]].end
        BY DEF Segment, Holds
      <3>2. map[se[1]].end \in Nat /\ map[se[1]].end <= LastAddress
        BY <3>1, LinkFacts
      <3>3. QED
        BY <2>3, <2>4, <3>1, <3>2, WordFacts
    <2>6. se[1] \in Links /\ se[2] \in Links
      BY DEF Segment
    <2>7. \A k \in se[1] .. se[2] :
            k \in Links /\ map[k].cell.type = r.type /\ map[k].cell.image = NULL
      <3>1. PICK x \in Segment(base, length) : \A k \in x[1] .. x[2] : Usable(k, r)
        BY <2>2 DEF Fits, length
      <3>2. x[1] = se[1] /\ x[2] = se[2]
        BY <1>2, <2>3, <2>4, <2>5, SegmentUnique, LinkFacts
      <3>3. \A k \in se[1] .. se[2] : Usable(k, r)
        BY <3>1, <3>2
      <3>4. QED
        BY <2>6, <3>3, LinksBetween DEF Usable, Type, Unowned
    <2> DEFINE g == [ c \in GoodCells |-> [c EXCEPT !.image = image, !.device = device] ]
    <2>8. \A k \in Links : map[k].cell \in GoodCells
      BY LinkFacts
    <2>9. \A k \in Links : cell[k] = g[map[k].cell]
      BY <2>8 DEF AllocatedCell
    <2>10. ASSUME NEW c \in GoodCells PROVE g[c] \in GoodCells
      <3>1. /\ g[c] \in Abstract!Cells /\ g[c].attributes = c.attributes
            /\ g[c].capabilities = c.capabilities
            /\ g[c].image = image /\ g[c].type = c.type
        BY CellTypes, ZenonT(60) DEF Abstract!Cells
      <3> HIDE DEF g
      <3>2. QED
        BY <1>2, <3>1, CellTypes DEF GoodCells, Good
    <2>11. \A k \in se[1] .. se[2] : g[map[k].cell] \in GoodCells
      <3> HIDE DEF g
      <3>1. QED
        BY <2>7, <2>8, <2>10
    <2>12. status' \in Statuses /\ length # 0
      BY <1>2 DEF Statuses
    <2>turns. Turns(se, g, cell)
      BY <2>9, <2>11 DEF Turns
    <2> HIDE DEF cell, g
    <2>13. /\ IInv'
           /\ Of' = [ a \in Addresses |-> IF a \in Span(base, length) THEN g[Of[a]] ELSE Of[a] ]
           /\ Span(base, length) \in Abstract!Intervals
           /\ \A a \in Span(base, length) :
                a \in Addresses /\ \E k \in se[1] .. se[2] : k \in Links /\ Of[a] = map[k].cell
      BY <2>1, <2>3, <2>4, <2>5, <2>12, <2>turns, ServiceStep
    <2>14. \A a \in Span(base, length) :
             Of[a] \in GoodCells /\ Of[a].type = r.type /\ Of[a].image = NULL
      BY <2>7, <2>8, <2>13
    <2>15. Abstract!Allocate(Span(base, length), r.type, image, device)
      <3>1. Of' = [ a \in Addresses |->
                      IF a \in Span(base, length)
                      THEN [Of[a] EXCEPT !.image = image, !.device = device] ELSE Of[a] ]
        BY <2>13, <2>14 DEF g
      <3>2. QED
        BY <2>14, <3>1 DEF Abstract!Allocate, Abstract!Change, Abstract!Unowned, Abstract!Addresses, Of, Addresses
    <2>16. image \in Images
      BY <1>2
    <2>17. Abstract!SpaceNext
      BY <2>4, <2>13, <2>15, <2>16 DEF Abstract!SpaceNext
    <2>18. QED
      BY <2>13, <2>17 DEF Abstract!SpaceStep
  <1>3. QED
    BY <1>1, <1>2 DEF AllocateSpace

-----------------------------------------------------------------------------
(* The theorems.                                                            *)

(* The map that CoreInitializeGcdServices leaves.                           *)
LEMMA InitMap ==
  ASSUME Init
  PROVE  IInv /\ Of = [a \in Addresses |-> Abstract!Untouched]
  <1> DEFINE c == Abstract!Untouched
             entry == [base |-> 0, end |-> LastAddress, cell |-> c]
             untouched == [a \in Addresses |-> c]
  <1>1. map = << entry >> /\ status = "SUCCESS"
    BY DEF Init
  <1>2. c \in GoodCells
    <2>1. c \in Abstract!Cells
      BY SpaceAssumption DEF Abstract!Untouched, Abstract!Cells
    <2>2. Good(c)
      BY DEF Abstract!Untouched, Good
    <2>3. QED
      BY <2>1, <2>2 DEF GoodCells
  <1> HIDE DEF c
  <1>3. entry \in Entries(GoodCells) /\ entry.base = 0 /\ entry.end = LastAddress /\ entry.cell = c
    BY <1>2, WordFacts DEF Entries
  <1>4. \A a \in entry.base .. entry.end : entry.cell = untouched[a]
    BY <1>3 DEF Addresses
  <1> HIDE DEF entry, untouched
  <1>5. Tiles(<< entry >>, 0, LastAddress + 1, GoodCells, untouched)
    BY <1>3, <1>4, TilesOne, WordFacts
  <1>6. Tiles(map, 0, LastAddress + 1, GoodCells, untouched) /\ Merged(map)
    BY <1>1, <1>5, MergedShort
  <1>7. \A a \in Addresses : CellAt(a) = untouched[a]
    BY <1>6, OwnCells DEF CellAt, Links
  <1>8. Of = untouched
    BY <1>7 DEF Of, untouched
  <1>9. IInv
    BY <1>1, <1>6, <1>8 DEF IInv, Statuses
  <1>10. QED
    BY <1>8, <1>9 DEF untouched, c

(* Every service keeps the invariant, and is an operation of the abstract   *)
(* space or leaves it alone.                                                *)
LEMMA StepKeeps ==
  ASSUME IInv, [Next]_vars
  PROVE  IInv' /\ Abstract!SpaceStep
  <1>1. CASE UNCHANGED vars
    <2>1. map' = map /\ status' \in Statuses
      BY <1>1 DEF vars, IInv
    <2>2. QED
      BY <2>1, FailKeeps DEF Abstract!SpaceStep, Of
  <1>2. ASSUME NEW t \in Types, NEW bl \in Ranges, NEW caps \in AttributeSets,
               AddSpace(t, bl[1], bl[2], caps)
        PROVE  IInv' /\ Abstract!SpaceStep
    BY <1>2, RangesAssumption, AddKeeps
  <1>3. ASSUME NEW bl \in Ranges, RemoveSpace(bl[1], bl[2])
        PROVE  IInv' /\ Abstract!SpaceStep
    BY <1>3, RemoveKeeps
  <1>4. ASSUME NEW bl \in Ranges, FreeSpace(bl[1], bl[2])
        PROVE  IInv' /\ Abstract!SpaceStep
    BY <1>4, FreeKeeps
  <1>5. ASSUME Space = "Memory", NEW bl \in Ranges, NEW attrs \in AttributeSets,
               SetSpaceAttributes(bl[1], bl[2], attrs)
        PROVE  IInv' /\ Abstract!SpaceStep
    BY <1>5, SetAttributesKeeps
  <1>6. ASSUME Space = "Memory", NEW bl \in Ranges, NEW caps \in AttributeSets,
               SetSpaceCapabilities(bl[1], bl[2], caps)
        PROVE  IInv' /\ Abstract!SpaceStep
    BY <1>6, SetCapabilitiesKeeps
  <1>7. ASSUME NEW r \in Requests, NEW i \in Images \cup {NULL}, NEW d \in Devices \cup {NULL},
               AllocateSpace(r, i, d)
        PROVE  IInv' /\ Abstract!SpaceStep
    BY <1>7, AllocateKeeps
  <1>8. QED
    BY <1>1, <1>2, <1>3, <1>4, <1>5, <1>6, <1>7 DEF Next

(* The inductive invariant holds of every reachable map.                    *)
LEMMA MapInductive == Spec => []IInv
  <1>1. Init => IInv
    BY InitMap
  <1>2. IInv /\ [Next]_vars => IInv'
    BY StepKeeps
  <1>3. QED
    BY <1>1, <1>2, PTL DEF Spec

(* The services of the map, splits, merges and searches and all, do to the  *)
(* bytes only what the space of cells allows.                               *)
THEOREM MapRefinesSpace == Spec => KeepsPromises
  <1>1. Init => Abstract!SpaceInit
    BY InitMap DEF Abstract!SpaceInit, Of, Addresses, Abstract!Addresses
  <1>2. IInv /\ [Next]_vars => [Abstract!SpaceNext]_[a \in Addresses |-> CellAt(a)]
    BY StepKeeps DEF Abstract!SpaceStep
  <1>3. QED
    BY <1>1, <1>2, MapInductive, PTL DEF Spec, KeepsPromises, Abstract!SpaceSpec


(* It has the properties of the list as consequences: the neighbours touch  *)
(* because nothing lies between two links that follow each other.           *)
LEMMA WellFormed ==
  ASSUME IInv
  PROVE  MapWellFormed
  <1>1. Tiles(map, 0, LastAddress + 1, GoodCells, Of) /\ Merged(map) /\ status \in Statuses
    BY DEF IInv
  <1>2. LastAddress + 1 \in Nat /\ 0 < LastAddress + 1 /\ (LastAddress + 1) - 1 = LastAddress
    BY WordFacts
  <1>3. /\ map[1].base = 0 /\ map[Len(map)].end = LastAddress
        /\ \A k \in 1 .. Len(map) - 1 : map[k + 1].base = map[k].end + 1
    BY <1>1, <1>2, TilesTouch
  <1>4. map # << >> /\ Last(map) = map[Len(map)]
    BY LinkFacts DEF Last
  <1>5. Partition
    BY <1>3, <1>4, LinkFacts DEF Partition
  <1>6. TypeOK
    <2>1. ASSUME NEW k \in 1 .. Len(map) PROVE map[k] \in GcdMapEntry
      <3>1. map[k] \in Entries(GoodCells)
        BY <1>1 DEF Tiles
      <3>2. map[k].base \in Addresses /\ map[k].end \in Addresses /\ map[k].cell \in Abstract!Cells
        BY LinkFacts, WordFacts DEF Addresses, GoodCells
      <3>3. map[k] = [base |-> map[k].base, end |-> map[k].end, cell |-> map[k].cell]
        BY <3>1 DEF Entries
      <3>4. QED
        BY <3>2, <3>3 DEF GcdMapEntry
    <2>2. map \in Seq(Entries(GoodCells)) /\ Len(map) \in Nat
      BY LinkFacts
    <2>3. map = [k \in 1 .. Len(map) |-> map[k]]
      BY <2>2
    <2>4. map \in Seq(GcdMapEntry)
      BY <2>1, <2>2, <2>3
    <2>5. QED
      BY <1>1, <2>4 DEF TypeOK
  <1>7. FullyMerged
    BY <1>1 DEF Merged, FullyMerged
  <1>8. \A k \in Links : Good(map[k].cell)
    BY LinkFacts DEF GoodCells
  <1>9. DevicesHaveOwners
    BY <1>8 DEF DevicesHaveOwners, Unowned, Good
  <1>10. QED
    BY <1>5, <1>6, <1>7, <1>9 DEF MapWellFormed

(* Whatever has been split and merged, the list is a list of ranges that    *)
(* cover the space once each, no two neighbours are equal, and no device    *)
(* has space that nobody owns (CoreInsertGcdMapEntry, CoreCleanupGcdMapEntry*)
(* and the services around them).                                           *)
THEOREM MapStaysPartitioned == Spec => []MapWellFormed
  BY WellFormed, MapInductive, PTL

(* A conversion changes the bytes it was asked for and no other, wherever   *)
(* the range lies among the links of a reachable list.                      *)
THEOREM ConversionsExact == Spec => []RangeExact
  <1>1. ASSUME IInv PROVE RangeExact
    <2>1. SUFFICES
            ASSUME NEW base \in Addresses, NEW length \in 1 .. LastAddress + 1 - base,
                   NEW se \in Segment(base, length)
            PROVE  LET new  == [k \in Links |-> [map[k].cell EXCEPT !.device = "changed"]]
                       list == Convert(base, length, se[1], se[2], new)
                   IN  \A k \in DOMAIN list : \A a \in list[k].base .. list[k].end :
                         list[k].cell = IF a \in base .. base + length - 1
                                        THEN [CellAt(a) EXCEPT !.device = "changed"]
                                        ELSE CellAt(a)
      BY DEF RangeExact
    <2> DEFINE cell == [k \in Links |-> [map[k].cell EXCEPT !.device = "changed"]]
               list == Convert(base, length, se[1], se[2], cell)
               hi   == base + length - 1
               C    == GoodCells \cup { [c EXCEPT !.device = "changed"] : c \in GoodCells }
               new  == [ a \in Addresses |->
                           IF a \in base .. hi THEN [CellAt(a) EXCEPT !.device = "changed"]
                           ELSE CellAt(a) ]
    <2>2. base \in Nat /\ length \in Nat /\ length # 0 /\ base + length <= Modulus
      BY WordFacts DEF Addresses
    <2>3. /\ hi = LastByte(base, length) /\ hi \in Addresses
          /\ se[1] \in Links /\ se[2] \in Links /\ se[1] <= se[2]
          /\ map[se[1]].base <= base /\ base <= map[se[1]].end
          /\ map[se[2]].base <= hi /\ hi <= map[se[2]].end
      BY <1>1, <2>2, SegmentFacts, LinkFacts
    <2>4. hi \in Nat /\ base <= hi /\ LastAddress \in Nat
      BY <2>2, WordFacts DEF Addresses
    <2>5. Tiles(map, 0, LastAddress + 1, C, Of)
      BY <1>1, LargerCells DEF IInv
    <2>6. \A k \in se[1] .. se[2] : cell[k] \in C
      <3>1. \A k \in se[1] .. se[2] : k \in Links
        BY <1>1, <2>3, LinksBetween
      <3>2. QED
        BY <1>1, <3>1, LinkFacts
    <2>7. NewCells(new, base, hi, cell, Of)
      <3>1. SUFFICES ASSUME NEW k \in Links, NEW a \in map[k].base .. map[k].end
                     PROVE  new[a] = IF base <= a /\ a <= hi THEN cell[k] ELSE Of[a]
        BY DEF NewCells
      <3>2. a \in Addresses /\ CellAt(a) = map[k].cell /\ Of[a] = map[k].cell
        BY <1>1, LinkFacts DEF Of
      <3>3. a \in base .. hi <=> base <= a /\ a <= hi
        BY <2>2, <2>4, <3>2, WordFacts DEF Addresses
      <3>4. QED
        BY <3>2, <3>3
    <2>8. Tiles(list, 0, LastAddress + 1, C, new)
      <3> HIDE DEF cell, hi, C, new
      <3>1. Converts(C, Of, new, base, hi, se[1], se[2], cell)
        BY <2>2, <2>3, <2>4, <2>5, <2>6, <2>7 DEF Converts
      <3>2. QED
        BY <2>3, <3>1, ConvertTiles
    <2>9. ASSUME NEW k \in DOMAIN list, NEW a \in list[k].base .. list[k].end
          PROVE  list[k].cell = IF a \in base .. base + length - 1
                                THEN [CellAt(a) EXCEPT !.device = "changed"] ELSE CellAt(a)
      <3> HIDE DEF list, C
      <3>1. list \in Seq(Entries(C)) /\ k \in 1 .. Len(list)
        BY <2>8 DEF Tiles
      <3>2. list[k].cell = new[a]
        BY <2>8, <3>1 DEF Tiles, Exact
      <3>3. list[k].base \in Nat /\ list[k].end \in Nat
        BY <3>1, EntryTypes
      <3>4. 0 <= list[k].base /\ list[k].end < LastAddress + 1
        BY <2>8, <3>1 DEF Tiles, Within
      <3>5. a \in Addresses
        BY <3>3, <3>4, WordFacts DEF Addresses
      <3>6. QED
        BY <3>2, <3>5
    <2>10. QED
      BY <2>9
  <1>2. IInv => RangeExact
    BY <1>1
  <1>3. QED
    BY <1>2, MapInductive, PTL

-----------------------------------------------------------------------------
(* What the searches find.                                                  *)

(* The least element of a set.                                              *)
LEMMA LeastOf ==
  ASSUME NEW S \in SUBSET Nat, NEW a \in S, \A b \in S : a <= b
  PROVE  Min(S) = a
  <1>1. \A b \in S : b \in Nat
    OBVIOUS
  <1>2. \A b \in S : (\A c \in S : b <= c) => b = a
    BY <1>1
  <1>3. QED
    BY <1>2 DEF Min

(* An address behind a link lies at or behind the next one.                 *)
LEMMA NextLink ==
  ASSUME IInv, NEW k \in Links, NEW a \in Addresses, map[k].end < a
  PROVE  k + 1 \in Links /\ map[k + 1].base <= a
  <1>1. Tiles(map, 0, LastAddress + 1, GoodCells, Of)
    BY DEF IInv
  <1>2. LastAddress + 1 \in Nat /\ 0 < LastAddress + 1 /\ (LastAddress + 1) - 1 = LastAddress
    BY WordFacts
  <1>3. /\ map[Len(map)].end = LastAddress
        /\ \A j \in 1 .. Len(map) - 1 : map[j + 1].base = map[j].end + 1
    BY <1>1, <1>2, TilesTouch
  <1>4. k \in Nat /\ Len(map) \in Nat /\ k \in 1 .. Len(map) /\ map[k].end \in Nat
    BY LinkFacts
  <1>5. a \in Nat /\ a <= LastAddress
    BY WordFacts DEF Addresses
  <1>6. k # Len(map)
    BY <1>3, <1>4, <1>5, WordFacts
  <1>7. k \in 1 .. Len(map) - 1 /\ k + 1 \in 1 .. Len(map)
    BY <1>4, <1>6
  <1>8. map[k + 1].base = map[k].end + 1
    BY <1>3, <1>7
  <1>9. map[k + 1].base <= a
    BY <1>4, <1>5, <1>8
  <1>10. QED
    BY <1>7, <1>9, LinkFacts

(* There are links that hold a range of addresses.                          *)
LEMMA SegmentExists ==
  ASSUME IInv, NEW a \in Nat, NEW length \in Nat, length # 0,
         a + length - 1 <= LastAddress
  PROVE  Segment(a, length) # {}
  <1> DEFINE hi == a + length - 1
  <1>1. hi \in Nat /\ a <= hi
    OBVIOUS
  <1>2. hi = LastByte(a, length)
    <2>1. hi \in 0 .. Modulus - 1
      BY <1>1, WordFacts
    <2>2. QED
      BY <2>1, WrappedSmall DEF LastByte
  <1> HIDE DEF hi
  <1>3. a \in 0 .. (LastAddress + 1) - 1 /\ hi \in 0 .. (LastAddress + 1) - 1
    BY <1>1, WordFacts DEF hi
  <1>4. PICK s \in Links : Holds(s, a)
    BY <1>3, LinkFacts DEF Tiled, Tiles, Complete, Covers, Holds
  <1>5. PICK e \in Links : Holds(e, hi)
    BY <1>3, LinkFacts DEF Tiled, Tiles, Complete, Covers, Holds
  <1>6. s <= e
    <2>1. /\ s \in Nat /\ e \in Nat /\ s \in 1 .. Len(map) /\ e \in 1 .. Len(map)
          /\ map[s].base \in Nat /\ map[e].end \in Nat
      BY LinkFacts
    <2>2. e < s => map[e].end < map[s].base
      BY <2>1, LinkFacts DEF Tiled, Tiles, Ordered
    <2>3. map[s].base <= a /\ hi <= map[e].end
      BY <1>4, <1>5 DEF Holds
    <2>4. QED
      BY <1>1, <2>1, <2>2, <2>3
  <1>7. << s, e >> \in Segment(a, length)
    BY <1>2, <1>4, <1>5, <1>6 DEF Segment
  <1>8. QED
    BY <1>7

(* The limit of a search.                                                   *)
LEMMA LimitFacts ==
  ASSUME IInv, NEW r \in Requests
  PROVE  /\ MaxAddress(r) \in Nat
         /\ Min({MaxAddress(r), LastAddress}) \in {MaxAddress(r), LastAddress}
         /\ Min({MaxAddress(r), LastAddress}) \in Nat
         /\ Min({MaxAddress(r), LastAddress}) <= MaxAddress(r)
         /\ Min({MaxAddress(r), LastAddress}) <= LastAddress
  <1>1. r.base \in Nat
    BY RequestFacts
  <1>2. Last(map).end \in Nat
    <2>1. Len(map) \in Links /\ Last(map) = map[Len(map)]
      BY LinkFacts DEF Last
    <2>2. QED
      BY <2>1, LinkFacts
  <1>3. MaxAddress(r) \in Nat
    BY <1>1, <1>2 DEF MaxAddress
  <1> HIDE DEF MaxAddress
  <1>4. QED
    BY <1>3, LesserFacts, WordFacts

(* What it means that an address is suitable: it is aligned, the range ends *)
(* within the limit, and every link the range touches can be used.          *)
LEMMA SuitableFacts ==
  ASSUME IInv, NEW r \in Requests, r.length # 0, NEW a \in Suitable(r)
  PROVE  /\ a \in Nat /\ a \in Addresses /\ a % Boundary(r) = 0
         /\ a + r.length - 1 <= MaxAddress(r) /\ a + r.length - 1 <= LastAddress
         /\ \A k \in Links :
              map[k].base <= a + r.length - 1 /\ a <= map[k].end => Usable(k, r)
  <1>1. /\ a \in Addresses /\ a % Boundary(r) = 0
        /\ a + r.length - 1 <= Min({MaxAddress(r), LastAddress})
        /\ \A b \in a .. a + r.length - 1 : CellAt(b).image = NULL /\ CellAt(b).type = r.type
    BY DEF Suitable
  <1>2. a \in Nat /\ r.length \in Nat
    BY <1>1, RequestFacts DEF Addresses
  <1> DEFINE limit == Min({MaxAddress(r), LastAddress})
  <1>3. a + r.length - 1 <= MaxAddress(r) /\ a + r.length - 1 <= LastAddress
    <2>1. /\ MaxAddress(r) \in Nat /\ limit \in Nat /\ limit <= MaxAddress(r) /\ limit <= LastAddress
          /\ LastAddress \in Nat
      BY LimitFacts, WordFacts
    <2>2. a + r.length - 1 <= limit
      BY <1>1
    <2> HIDE DEF limit
    <2>3. QED
      BY <1>2, <2>1, <2>2
  <1>4. ASSUME NEW k \in Links, map[k].base <= a + r.length - 1, a <= map[k].end
        PROVE  Usable(k, r)
    <2>1. map[k].base \in Nat /\ map[k].end \in Nat /\ map[k].base <= map[k].end
      BY LinkFacts
    <2>2. PICK b \in Nat : b \in a .. a + r.length - 1 /\ b \in map[k].base .. map[k].end
      <3>1. CASE map[k].base <= a
        BY <1>2, <1>4, <2>1, <3>1
      <3>2. CASE a <= map[k].base
        BY <1>2, <1>4, <2>1, <3>2
      <3>3. QED
        BY <1>2, <2>1, <3>1, <3>2
    <2>3. CellAt(b) = map[k].cell
      BY <2>2, LinkFacts
    <2>4. QED
      BY <1>1, <2>2, <2>3 DEF Usable, Unowned, Type
  <1>5. QED
    BY <1>1, <1>2, <1>3, <1>4

(* Conversely, an aligned range none of whose links is in the way is        *)
(* suitable when it ends within the limit.                                  *)
LEMMA FitsSuitably ==
  ASSUME IInv, NEW r \in Requests, r.alignment < AddressBits, r.length # 0, NEW a \in Nat,
         Segment(a, r.length) # {}, Blocked(a, r.length, r) = {},
         a % Boundary(r) = 0, a + r.length <= Modulus, a + r.length - 1 <= MaxAddress(r)
  PROVE  a \in Suitable(r) /\ a + r.length - 1 <= LastAddress
  <1> DEFINE se == CHOOSE x \in Segment(a, r.length) : TRUE
             length == r.length
  <1>1. se \in Segment(a, length)
    OBVIOUS
  <1>2. \A k \in se[1] .. se[2] : Usable(k, r)
    BY DEF Blocked
  <1>3. length \in Nat /\ length # 0 /\ a + length <= Modulus /\ a + length - 1 <= MaxAddress(r)
    BY RequestFacts
  <1> HIDE DEF se, length
  <1>4. a \in Addresses /\ a + length - 1 \in Addresses
    BY <1>1, <1>3, SegmentFacts, LinkFacts
  <1>5. a + length - 1 \in Nat /\ a + length - 1 <= LastAddress
    BY <1>4, WordFacts DEF Addresses
  <1>6. a + length - 1 <= Min({MaxAddress(r), LastAddress})
    <2>1. Min({MaxAddress(r), LastAddress}) \in {MaxAddress(r), LastAddress}
      BY LimitFacts
    <2>2. QED
      BY <1>3, <1>5, <2>1
  <1>7. ASSUME NEW b \in a .. a + length - 1
        PROVE  CellAt(b).image = NULL /\ CellAt(b).type = r.type
    <2>1. PICK k \in se[1] .. se[2] :
            k \in Links /\ b \in map[k].base .. map[k].end /\ CellAt(b) = map[k].cell
      BY ONLY IInv, a \in Nat, <1>1, <1>3, b \in a .. a + length - 1, HeldBy, Zenon
    <2>2. Usable(k, r)
      BY <1>2
    <2>3. QED
      BY <2>1, <2>2 DEF Usable, Unowned, Type
  <1>8. QED
    BY <1>4, <1>5, <1>6, <1>7 DEF Suitable, length

(* What the search from the bottom tries in a link: the first aligned       *)
(* address in or behind it.                                                 *)
LEMMA UpCandidate ==
  ASSUME IInv, NEW r \in Requests, r.alignment < AddressBits, r.how \in BottomUp,
         NEW k \in Links
  PROVE  LET a == Candidate(k, r) IN
         /\ a \in Nat /\ a % Boundary(r) = 0 /\ map[k].base <= a
         /\ a + r.length <= Modulus
         /\ \A b \in Suitable(r) : r.length # 0 /\ map[k].base <= b => a <= b
         /\ r.length # 0 =>
              /\ Hopeless(k, r) => a + r.length - 1 > MaxAddress(r)
              /\ ~Hopeless(k, r) => a + r.length - 1 <= MaxAddress(r)
  <1> DEFINE B == Boundary(r)  low == map[k].base  n == low + B - 1
             a == RoundDown(n, r)  length == r.length
  <1>1. r \in Request /\ length \in Nat /\ LastAddress + B + length <= Modulus
    BY RequestFacts
  <1>2. B \in Nat \ {0}
    BY <1>1, BoundaryType
  <1>3. low \in Nat /\ low <= LastAddress
    <2>1. /\ map[k].base \in Nat /\ map[k].end \in Nat /\ map[k].base <= map[k].end
          /\ map[k].end <= LastAddress
      BY LinkFacts
    <2>2. QED
      BY <2>1, WordFacts
  <1>4. r.how \notin TopDown
    BY DEF TopDown, BottomUp
  <1> HIDE DEF B, low, length
  <1>5. n \in Nat /\ n + length < Modulus /\ n \in 0 .. Modulus - 1
    BY <1>1, <1>2, <1>3, WordFacts
  <1>6. Wrapped(n) = n
    BY <1>5, WrappedSmall
  <1>7. RoundUp(low, r) = a
    BY <1>6 DEF RoundUp, B
  <1>8. Candidate(k, r) = a
    BY <1>4, <1>7 DEF Candidate, low
  <1>9. a \in Nat /\ a <= n /\ n < a + B /\ a % B = 0
    BY <1>1, <1>5, RoundDownFacts DEF B
  <1> HIDE DEF a
  <1>10. low <= a /\ a < low + B /\ a + length < Modulus
    BY <1>1, <1>2, <1>3, <1>5, <1>9, WordFacts
  <1>11. ASSUME NEW b \in Suitable(r), length # 0, low <= b PROVE a <= b
    <2>1. b \in Nat /\ b % B = 0
      BY <1>11, SuitableFacts DEF B, length
    <2>2. a < b + B
      BY <1>2, <1>3, <1>9, <1>10, <1>11, <2>1
    <2>3. QED
      BY <1>2, <1>9, <2>1, <2>2, NextMultiple
  <1>12. ASSUME length # 0
         PROVE  Hopeless(k, r) <=> a + length - 1 > MaxAddress(r)
    <2>1. a + length - 1 \in 0 .. Modulus - 1
      BY <1>1, <1>9, <1>10, <1>12, WordFacts
    <2>2. LastByte(a, length) = a + length - 1
      BY <2>1, WrappedSmall DEF LastByte
    <2>3. QED
      BY <1>4, <1>7, <2>2 DEF Hopeless, low, length
  <1>13. MaxAddress(r) \in Nat
    BY LimitFacts
  <1>14. a + length <= Modulus
    BY <1>1, <1>9, <1>10, WordFacts
  <1>15. length # 0 => (~Hopeless(k, r) => a + length - 1 <= MaxAddress(r))
    <2> DEFINE top == MaxAddress(r)
    <2>1. top \in Nat
      BY <1>13
    <2>2. length # 0 => (Hopeless(k, r) <=> a + length - 1 > top)
      BY <1>12
    <2> HIDE DEF top
    <2>3. length # 0 => (~Hopeless(k, r) => a + length - 1 <= top)
      BY <1>1, <1>9, <2>1, <2>2
    <2>4. QED
      BY <2>3 DEF top
  <1>16. QED
    BY <1>8, <1>9, <1>10, <1>11, <1>12, <1>14, <1>15 DEF B, low, length

(* What the search from the bottom should answer, and where it may be after *)
(* n tries: at the answer; or before it, with all that is suitable at or    *)
(* behind the link it has come to.                                          *)
Answer(r) == IF Suitable(r) = {} THEN NotFound ELSE Min(Suitable(r))

Ahead(k, r) == \A b \in Suitable(r) : k \in Links /\ map[k].base <= b

PlacesUp(n, r) ==
  {Ended(Answer(r))} \cup { Trying(k) : k \in { j \in n + 1 .. Len(map) + 1 : Ahead(j, r) } }

(* Behind a link that no suitable range begins in, it has missed nothing.   *)
LEMMA MissesNothing ==
  ASSUME IInv, NEW r \in Requests, r.how \in BottomUp, NEW k \in Links, NEW n \in Nat,
         n + 1 <= k, \A b \in Suitable(r) : map[k].end < b
  PROVE  Trying(Onward(k, r)) \in PlacesUp(n + 1, r)
  <1>1. Onward(k, r) = k + 1
    BY DEF Onward, TopDown, BottomUp
  <1>2. k \in 1 .. Len(map) /\ Len(map) \in Nat
    BY LinkFacts
  <1>3. k + 1 \in (n + 1) + 1 .. Len(map) + 1
    BY <1>2
  <1>4. Ahead(k + 1, r)
    <2>1. ASSUME NEW b \in Suitable(r) PROVE k + 1 \in Links /\ map[k + 1].base <= b
      <3>1. b \in Addresses
        BY DEF Suitable
      <3>2. QED
        BY <3>1, NextLink
    <2>2. QED
      BY <2>1 DEF Ahead
  <1>5. QED
    BY <1>1, <1>3, <1>4 DEF PlacesUp

(* One try of the search from the bottom.                                   *)
LEMMA TryUp ==
  ASSUME IInv, NEW r \in Requests, r.alignment < AddressBits, r.how \in BottomUp,
         r.length # 0, NEW n \in 0 .. Len(map) - 1, NEW place \in PlacesUp(n, r)
  PROVE  Try(place, r) \in PlacesUp(n + 1, r)
  <1>1. /\ Len(map) \in Nat /\ Links = 1 .. Len(map) /\ n \in Nat /\ n + 1 <= Len(map)
        /\ r.how \notin TopDown /\ r.length \in Nat
    BY LinkFacts, RequestFacts DEF TopDown, BottomUp
  <1>2. CASE place = Ended(Answer(r))
    <2>1. place.link = 0 /\ 0 \notin Links
      BY <1>1, <1>2 DEF Ended
    <2>2. Try(place, r) = place
      BY <2>1 DEF Try
    <2>3. QED
      BY <1>2, <2>2 DEF PlacesUp
  <1>3. ASSUME NEW k \in n + 1 .. Len(map) + 1, Ahead(k, r), place = Trying(k)
        PROVE  Try(place, r) \in PlacesUp(n + 1, r)
    <2> DEFINE a == Candidate(k, r)  length == r.length
               blocked == Blocked(a, length, r)
    <2>1. place.link = k
      BY <1>3 DEF Trying
    <2>2. CASE k \notin Links
      <3>1. Try(place, r) = place
        BY <2>1, <2>2 DEF Try
      <3>2. k \in (n + 1) + 1 .. Len(map) + 1
        BY <1>1, <2>2
      <3>3. QED
        BY <1>3, <3>1, <3>2 DEF PlacesUp
    <2>3. CASE k \in Links /\ ~Usable(k, r)
      <3>1. Try(place, r) = Trying(Onward(k, r))
        BY <2>1, <2>3 DEF Try
      <3>2. map[k].base \in Nat /\ map[k].end \in Nat
        BY <2>3, LinkFacts
      <3> HIDE DEF a, blocked
      <3>3. ASSUME NEW b \in Suitable(r) PROVE map[k].end < b
        <4>1. b \in Nat /\ (map[k].base <= b + r.length - 1 /\ b <= map[k].end => Usable(k, r))
          BY <2>3, SuitableFacts
        <4>6. b \in Nat /\ (map[k].base <= b + length - 1 /\ b <= map[k].end => Usable(k, r))
          BY <4>1
        <4>2. map[k].base <= b
          BY <1>3 DEF Ahead
        <4> HIDE DEF length
        <4>3. length \in Nat /\ length # 0
          BY <1>1 DEF length
        <4>4. map[k].base <= b + length - 1
          BY <3>2, <4>1, <4>2, <4>3
        <4>5. QED
          BY <2>3, <3>2, <4>4, <4>6
      <3>4. QED
        <4>1. k \in Int /\ n + 1 <= k
          BY <1>1, <1>3
        <4>2. QED
          BY <1>1, <2>3, <3>1, <3>3, <4>1, MissesNothing
    <2>4. CASE k \in Links /\ Usable(k, r)
      <3>1. ~TooSmall(k, r)
        BY <1>1 DEF TooSmall
      <3>2. /\ a \in Nat /\ a % Boundary(r) = 0 /\ map[k].base <= a /\ a + length <= Modulus
            /\ Hopeless(k, r) => a + length - 1 > MaxAddress(r)
            /\ ~Hopeless(k, r) => a + length - 1 <= MaxAddress(r)
        BY <2>4, UpCandidate
      <3>3. length \in Nat /\ length # 0
        BY <1>1
      <3>4. ASSUME NEW b \in Suitable(r)
            PROVE  /\ a <= b /\ b \in Nat
                   /\ b + length - 1 <= MaxAddress(r) /\ b + length - 1 <= LastAddress
                   /\ \A j \in Links :
                        map[j].base <= b + length - 1 /\ b <= map[j].end => Usable(j, r)
        <4>1. map[k].base <= b
          BY <1>3 DEF Ahead
        <4>2. QED
          BY <2>4, <4>1, UpCandidate, SuitableFacts
      <3>5. MaxAddress(r) \in Nat /\ LastAddress \in Nat
        BY LimitFacts, WordFacts
      <3>6. CASE Hopeless(k, r) \/ Segment(a, length) = {}
        <4>1. Try(place, r) = Ended(NotFound)
          BY <2>1, <2>4, <3>1, <3>6 DEF Try
        <4> HIDE DEF a, length
        <4>2. a + length - 1 > MaxAddress(r) \/ ~(a + length - 1 <= LastAddress)
          BY <3>2, <3>3, <3>6, SegmentExists
        <4>3. Suitable(r) = {}
          <5>1. ASSUME NEW b \in Suitable(r) PROVE FALSE
            <6> DEFINE top == MaxAddress(r)
            <6> HIDE DEF top
            <6>1. top \in Nat /\ b + length - 1 <= top
              BY <3>4, <3>5 DEF top
            <6>2. a + length - 1 > top \/ ~(a + length - 1 <= LastAddress)
              BY <4>2 DEF top
            <6>3. QED
              BY <3>2, <3>3, <3>4, <3>5, <6>1, <6>2
          <5>2. QED
            BY <5>1
        <4>4. QED
          BY <4>1, <4>3 DEF Answer, PlacesUp
      <3>7. CASE ~(Hopeless(k, r) \/ Segment(a, length) = {}) /\ blocked = {}
        <4>1. Try(place, r) = Ended(a)
          BY <2>1, <2>4, <3>1, <3>7 DEF Try
        <4>2. a \in Suitable(r)
          BY <3>2, <3>7, FitsSuitably
        <4> HIDE DEF a, length
        <4>3. \A b \in Suitable(r) : a <= b /\ b \in Nat
          BY <3>4
        <4>4. Min(Suitable(r)) = a
          <5>1. Suitable(r) \in SUBSET Nat
            BY <4>3
          <5>2. QED
            BY <4>2, <4>3, <5>1, LeastOf
        <4>5. QED
          BY <4>1, <4>2, <4>4 DEF Answer, PlacesUp
      <3>8. CASE ~(Hopeless(k, r) \/ Segment(a, length) = {}) /\ blocked # {}
        <4> DEFINE se == CHOOSE x \in Segment(a, length) : TRUE
                   m == Min(blocked)
        <4>1. Try(place, r) = Trying(Onward(m, r))
          BY <2>1, <2>4, <3>1, <3>8 DEF Try
        <4>2. se \in Segment(a, length)
          BY <3>8
        <4>3. blocked = { j \in se[1] .. se[2] : ~Usable(j, r) }
          BY DEF Blocked
        <4> HIDE DEF se, a, length
        <4>4. /\ se[1] \in Links /\ se[2] \in Links
              /\ map[se[1]].base <= a /\ a <= map[se[1]].end
              /\ map[se[2]].base <= a + length - 1 /\ a + length - 1 <= map[se[2]].end
          BY <3>2, <3>3, <4>2, SegmentFacts, LinkFacts
        <4>5. blocked \in SUBSET (1 .. Len(map))
          BY <4>3, <4>4, LinkFacts, SMTT(60)
        <4> HIDE DEF blocked
        <4>6. m \in blocked
          BY <1>1, <3>8, <4>5, LeastIndex, ZenonT(60)
        <4> HIDE DEF m
        <4>7. m \in se[1] .. se[2] /\ ~Usable(m, r) /\ m \in Links
          BY <1>1, <4>3, <4>5, <4>6
        <4> DEFINE s == se[1]  e == se[2]
        <4> HIDE DEF s, e
        <4>8. s \in Links /\ e \in Links /\ s \in Nat /\ e \in Nat /\ m \in Nat /\ k \in Nat /\ s <= m /\ m <= e
          BY <1>1, <2>4, <4>4, <4>7 DEF s, e
        <4>9. /\ map[s].base \in Nat /\ map[s].end \in Nat /\ map[e].base \in Nat
              /\ map[e].end \in Nat /\ map[m].base \in Nat /\ map[m].end \in Nat
              /\ map[k].base \in Nat /\ map[k].end \in Nat /\ map[m].base <= map[m].end
          BY <2>4, <4>7, <4>8, LinkFacts
        <4>10. (s < k => map[s].end < map[k].base) /\ (m < e => map[m].end < map[e].base)
          BY <1>1, <2>4, <4>7, <4>8, LinkFacts DEF Tiled, Tiles, Ordered
        <4>11. a <= map[s].end /\ map[e].base <= a + length - 1
          BY <4>4 DEF s, e
        <4>12. k <= m
          BY <3>2, <4>8, <4>9, <4>10, <4>11, SMTT(60)
        <4>13. map[m].base <= a + length - 1
          <5>1. a + length - 1 \in Int
            BY <3>2, <3>3
          <5> DEFINE last == a + length - 1
          <5> HIDE DEF last
          <5>2. last \in Int /\ map[e].base <= last
            BY <4>11, <5>1 DEF last
          <5>3. m = e => map[m].base <= last
            BY <5>2
          <5>4. m < e => map[m].base <= last
            BY <4>9, <4>10, <5>2, SMTT(60)
          <5>5. map[m].base <= last
            BY <4>8, <5>3, <5>4
          <5>6. QED
            BY <5>5 DEF last
        <4>14. ASSUME NEW b \in Suitable(r) PROVE map[m].end < b
          <5>1. /\ a <= b /\ b \in Nat
                /\ map[m].base <= b + length - 1 /\ b <= map[m].end => Usable(m, r)
            BY <3>4, <4>7
          <5>2. map[m].base <= b + length - 1
            BY <3>2, <3>3, <4>9, <4>13, <5>1
          <5>3. QED
            BY <4>7, <4>9, <5>1, <5>2
        <4>15. n + 1 <= m
          BY <1>1, <1>3, <4>8, <4>12
        <4>16. QED
          BY <1>1, <4>1, <4>7, <4>14, <4>15, MissesNothing
      <3>9. QED
        BY <3>6, <3>7, <3>8
    <2>5. QED
      BY <2>2, <2>3, <2>4
  <1>4. QED
    BY <1>2, <1>3 DEF PlacesUp

(* What the search from the top tries in a link, when it tries: an aligned  *)
(* address from which the range ends within the link and the limit.         *)
LEMMA DownCandidate ==
  ASSUME IInv, NEW r \in Requests, r.alignment < AddressBits, r.how \in TopDown,
         r.length # 0, NEW k \in Links, ~TooSmall(k, r), ~Hopeless(k, r)
  PROVE  LET a == Candidate(k, r) IN
         /\ a \in Nat /\ a % Boundary(r) = 0 /\ a + r.length <= Modulus
         /\ a + r.length - 1 <= MaxAddress(r)
  <1> DEFINE B == Boundary(r)  low == map[k].base  high == map[k].end  length == r.length
             limit == MaxAddress(r)
             top == Min({limit, high})
             free == top + 1 - length
             n == top + 1 + Modulus - length
             a == RoundDown(free, r)
  <1>1. r \in Request /\ length \in Nat /\ length # 0 /\ LastAddress + B + length <= Modulus
    BY RequestFacts
  <1>2. B \in Nat \ {0}
    BY <1>1, BoundaryType
  <1>3. /\ low \in Nat /\ high \in Nat /\ low <= high /\ high <= LastAddress
        /\ LastAddress \in Nat /\ Modulus \in Nat /\ LastAddress + 2 <= Modulus
    BY LinkFacts, WordFacts
  <1>4. limit \in Nat
    BY LimitFacts
  <1>5. ~(Wrapped(low + length) > limit) /\ ~(length > Wrapped(high + 1))
    BY DEF TooSmall, Hopeless
  <1>6. Candidate(k, r) = RoundDown(Wrapped(n), r)
    BY DEF Candidate
  <1>7. top \in {limit, high} /\ top <= limit /\ top <= high
    BY <1>3, <1>4, LesserFacts
  <1> HIDE DEF B, low, high, length, limit, top
  <1>8. low + length <= limit
    <2>1. low + length \in 0 .. Modulus - 1
      BY <1>1, <1>2, <1>3
    <2>2. QED
      BY <1>1, <1>3, <1>4, <1>5, <2>1, WrappedSmall
  <1>9. length <= high + 1
    <2>1. high + 1 \in 0 .. Modulus - 1
      BY <1>3
    <2>2. QED
      BY <1>1, <1>3, <1>5, <2>1, WrappedSmall
  <1>10. top \in Nat /\ free \in Nat /\ free <= LastAddress /\ free \in 0 .. Modulus - 1
    BY <1>1, <1>3, <1>4, <1>7, <1>8, <1>9
  <1>11. Wrapped(n) = free
    <2>1. n = free + Modulus
      BY <1>1, <1>3, <1>10
    <2>2. (free + Modulus) % Modulus = free
      <3> DEFINE d == free
      <3>1. d \in 0 .. Modulus - 1
        BY <1>10
      <3> HIDE DEF d
      <3>2. (d + Modulus) % Modulus = d
        BY <1>3, <3>1
      <3>3. QED
        BY <3>2 DEF d
    <2>3. QED
      BY <2>1, <2>2 DEF Wrapped
  <1>12. Candidate(k, r) = a
    BY <1>6, <1>11
  <1> HIDE DEF free, n
  <1>13. a \in Nat /\ a <= free /\ a % B = 0
    BY <1>1, <1>10, RoundDownFacts DEF B
  <1> HIDE DEF a
  <1>14. a + length - 1 <= top
    BY <1>1, <1>3, <1>10, <1>13 DEF free
  <1>15. a + length <= Modulus /\ a + length - 1 <= limit
    BY <1>1, <1>3, <1>4, <1>7, <1>10, <1>13, <1>14
  <1>16. QED
    BY <1>12, <1>13, <1>15 DEF B, length, limit

(* One try of the search from the top.                                      *)
PlacesDown(r) == { p \in Places(r) : p.found = NotFound \/ p.found \in Suitable(r) }

LEMMA TryDown ==
  ASSUME IInv, NEW r \in Requests, r.alignment < AddressBits, r.how \in TopDown,
         r.length # 0, NEW place \in PlacesDown(r)
  PROVE  Try(place, r) \in PlacesDown(r)
  <1> DEFINE k == place.link
             a == Candidate(k, r)
             next == Try(place, r)
  <1>1. next \in Places(r)
    BY TryFits DEF PlacesDown
  <1>2. next.found = NotFound \/ next.found \in Suitable(r)
    <2>1. CASE next = place
      BY <2>1 DEF PlacesDown
    <2>2. CASE \E j : next = Trying(j)
      BY <2>2 DEF Trying
    <2>3. CASE next = Ended(NotFound)
      BY <2>3 DEF Ended
    <2>4. CASE /\ k \in Links /\ ~TooSmall(k, r) /\ ~Hopeless(k, r)
               /\ Segment(a, r.length) # {} /\ Blocked(a, r.length, r) = {}
               /\ next = Ended(a)
      <3>1. /\ a \in Nat /\ a % Boundary(r) = 0 /\ a + r.length <= Modulus
            /\ a + r.length - 1 <= MaxAddress(r)
        BY <2>4, DownCandidate
      <3>2. a \in Suitable(r)
        BY <2>4, <3>1, FitsSuitably
      <3>3. QED
        BY <2>4, <3>2 DEF Ended
    <2>5. QED
      BY <2>1, <2>2, <2>3, <2>4 DEF Try
  <1>3. QED
    BY <1>1, <1>2 DEF PlacesDown

(* Whatever has been split and merged: the search from the bottom finds the *)
(* lowest suitable address, trying one address in a link, passing over links*)
(* and giving up early; what the search from the top finds is suitable.     *)
THEOREM SearchesAnswer == Spec => []SearchesExact
  <1>1. ASSUME IInv, NEW r \in ValidRequests(BottomUp)
        PROVE  Search(r) = Answer(r)
    <2> DEFINE P == [n \in Nat |-> PlacesUp(n, r)]
    <2>1. r \in Requests /\ r.how \in BottomUp /\ r.length # 0 /\ r.alignment < AddressBits
      BY DEF ValidRequests
    <2>2. Len(map) \in Nat \ {0} /\ Links = 1 .. Len(map)
      BY <1>1, LinkFacts
    <2>3. Trying(First(r)) \in P[0]
      <3>1. First(r) = 1
        BY <2>1 DEF First, TopDown, BottomUp
      <3>2. 1 \in 0 + 1 .. Len(map) + 1 /\ 1 \in Links
        BY <2>2
      <3>3. map[1].base = 0
        <4>1. Tiles(map, 0, LastAddress + 1, GoodCells, Of)
          BY <1>1 DEF IInv
        <4>2. LastAddress + 1 \in Nat /\ 0 < LastAddress + 1
          BY WordFacts
        <4>3. QED
          BY <4>1, <4>2, TilesTouch
      <3>4. \A b \in Suitable(r) : 0 <= b
        BY DEF Suitable, Addresses
      <3>5. Ahead(1, r)
        BY <3>2, <3>3, <3>4 DEF Ahead
      <3>6. QED
        BY <3>1, <3>2, <3>5 DEF PlacesUp
    <2>4. \A n \in 0 .. Len(map) - 1 : \A p \in P[n] : Try(p, r) \in P[n + 1]
      BY <1>1, <2>1, <2>2, TryUp
    <2>5. P[Len(map)] = PlacesUp(Len(map), r)
      BY <2>2
    <2> HIDE DEF P
    <2>6. PICK p \in PlacesUp(Len(map), r) : Search(r) = p.found
      BY <1>1, <2>1, <2>3, <2>4, <2>5, SearchInduction
    <2>7. CASE p = Ended(Answer(r))
      BY <2>6, <2>7 DEF Ended
    <2>8. ASSUME NEW k \in Len(map) + 1 .. Len(map) + 1, Ahead(k, r), p = Trying(k)
          PROVE  Search(r) = Answer(r)
      <3>1. k \notin Links
        BY <2>2
      <3>2. Suitable(r) = {}
        BY <2>8, <3>1 DEF Ahead
      <3>3. QED
        BY <2>6, <2>8, <3>2 DEF Answer, Trying
    <2>9. QED
      BY <2>7, <2>8 DEF PlacesUp
  <1>2. ASSUME IInv, NEW r \in ValidRequests(TopDown), Search(r) # NotFound
        PROVE  Search(r) \in Suitable(r)
    <2> DEFINE P == [n \in Nat |-> PlacesDown(r)]
    <2>1. r \in Requests /\ r.how \in TopDown /\ r.length # 0 /\ r.alignment < AddressBits
      BY DEF ValidRequests
    <2>2. Len(map) \in Nat
      BY <1>2, LinkFacts
    <2>3. Trying(First(r)) \in P[0]
      <3>1. First(r) \in Int
        BY <2>2 DEF First
      <3>2. Trying(First(r)) \in Places(r)
        BY <3>1, PlaceTypes
      <3>3. QED
        BY <3>2 DEF PlacesDown, Trying
    <2>4. \A n \in 0 .. Len(map) - 1 : \A p \in P[n] : Try(p, r) \in P[n + 1]
      BY <1>2, <2>1, <2>2, TryDown
    <2>5. P[Len(map)] = PlacesDown(r)
      BY <2>2
    <2> HIDE DEF P
    <2>6. PICK p \in PlacesDown(r) : Search(r) = p.found
      BY <1>2, <2>1, <2>3, <2>4, <2>5, SearchInduction
    <2>7. QED
      BY <1>2, <2>6 DEF PlacesDown
  <1>3. IInv => SearchesExact
    BY <1>1, <1>2 DEF SearchesExact, BottomUpFindsLowest, TopDownSound, Answer
  <1>4. QED
    BY <1>3, MapInductive, PTL
-----------------------------------------------------------------------------
(* The queries.                                                             *)

(* The one link that holds an address.                                      *)
LEMMA OneLink ==
  ASSUME IInv, NEW a \in Addresses
  PROVE  \E k \in Links : /\ Holds(k, a) /\ CellAt(a) = map[k].cell
                          /\ \A j \in Links : Holds(j, a) => j = k
  <1>1. a \in Nat /\ a \in 0 .. (LastAddress + 1) - 1
    BY WordFacts DEF Addresses
  <1>2. PICK k \in Links : Holds(k, a)
    BY <1>1, LinkFacts DEF Tiled, Tiles, Complete, Covers, Holds
  <1>3. map[k].base \in Nat /\ map[k].end \in Nat /\ k \in Nat /\ Len(map) \in Nat
    BY LinkFacts
  <1>4. a \in map[k].base .. map[k].end
    BY <1>1, <1>2, <1>3 DEF Holds
  <1>5. CellAt(a) = map[k].cell
    BY <1>4, LinkFacts
  <1>6. ASSUME NEW j \in Links, Holds(j, a) PROVE j = k
    <2>1. map[j].base \in Nat /\ map[j].end \in Nat /\ j \in Nat
      BY LinkFacts
    <2>2. (j < k => map[j].end < map[k].base) /\ (k < j => map[k].end < map[j].base)
      BY LinkFacts DEF Tiled, Tiles, Ordered
    <2>3. QED
      BY <1>1, <1>2, <1>3, <1>6, <2>1, <2>2 DEF Holds
  <1>7. QED
    BY <1>2, <1>5, <1>6

(* A descriptor has the range and the cell of its link: its length does not *)
(* wrap, because the space is smaller than its addresses.                   *)
LEMMA Described ==
  ASSUME IInv, NEW k \in Links
  PROVE  LET d == Build(map[k]) IN
         /\ \A a \in Addresses : (d.base <= a /\ a < d.base + d.length) <=> Holds(k, a)
         /\ d.type = map[k].cell.type
         /\ d.image = map[k].cell.image /\ d.device = map[k].cell.device
  <1> DEFINE d == Build(map[k])
             long == map[k].end - map[k].base + 1
  <1>1. /\ d.base = map[k].base /\ d.length = Wrapped(long + Modulus)
        /\ d.type = map[k].cell.type
        /\ d.image = map[k].cell.image /\ d.device = map[k].cell.device
    <2>1. CASE Space = "Memory"
      BY <2>1 DEF Build, BuildMemoryDescriptor
    <2>2. CASE Space # "Memory"
      BY <2>2 DEF Build, BuildIoDescriptor
    <2>3. QED
      BY <2>1, <2>2
  <1>2. /\ map[k].base \in Nat /\ map[k].end \in Nat
        /\ map[k].base <= map[k].end /\ map[k].end <= LastAddress
    BY LinkFacts
  <1>3. long \in 0 .. Modulus - 1
    BY <1>2, WordFacts
  <1> HIDE DEF long, d
  <1>4. Wrapped(long + Modulus) = long
    <2>1. (long + Modulus) % Modulus = long
      BY <1>3, WordFacts, SMTT(30)
    <2>2. QED
      BY <2>1 DEF Wrapped
  <1>5. ASSUME NEW a \in Addresses
        PROVE  (d.base <= a /\ a < d.base + d.length) <=> Holds(k, a)
    <2>1. a \in Nat /\ d.base = map[k].base /\ d.length = map[k].end - map[k].base + 1
      BY <1>1, <1>4, WordFacts DEF Addresses, long
    <2>2. QED
      BY <1>2, <2>1 DEF Holds
  <1>6. QED
    BY <1>1, <1>5 DEF d

(* An address is described once by a set of descriptors to which the link   *)
(* that holds it belongs.                                                   *)
OnceDescribed(descriptors, a) ==
  LET around == { d \in descriptors : d.base <= a /\ a < d.base + d.length } IN
    /\ Cardinality(around) = 1
    /\ \A d \in around :
         /\ d.type = CellAt(a).type
         /\ d.image = CellAt(a).image
         /\ d.device = CellAt(a).device

LEMMA DescribedOnce ==
  ASSUME IInv, NEW a \in Addresses, NEW K \in SUBSET Links, \E k \in K : Holds(k, a)
  PROVE  OnceDescribed({ Build(map[k]) : k \in K }, a)
  <1>1. PICK k \in Links : /\ Holds(k, a) /\ CellAt(a) = map[k].cell
                           /\ \A j \in Links : Holds(j, a) => j = k
    BY OneLink
  <1> DEFINE around == { d \in { Build(map[j]) : j \in K } : d.base <= a /\ a < d.base + d.length }
  <1>2. k \in K
    BY <1>1
  <1>3. \A j \in K : (Build(map[j]).base <= a /\ a < Build(map[j]).base + Build(map[j]).length)
                      <=> j = k
    BY <1>1, Described
  <1>4. around = { Build(map[k]) }
    BY <1>2, <1>3
  <1> HIDE DEF around
  <1>5. Cardinality(around) = 1
    BY <1>4, FS_Singleton
  <1>6. \A d \in around : /\ d.type = CellAt(a).type /\ d.image = CellAt(a).image
                          /\ d.device = CellAt(a).device
    BY <1>1, <1>4, Described
  <1>7. QED
    BY <1>5, <1>6 DEF OnceDescribed, around

(* The whole map describes every address.                                   *)
LEMMA MapDescribes ==
  ASSUME IInv, NEW a \in Addresses
  PROVE  OnceDescribed(ToSet([k \in Links |-> Build(map[k])]), a)
  <1>1. ToSet([k \in Links |-> Build(map[k])]) = { Build(map[k]) : k \in Links }
    BY DEF ToSet
  <1>2. \E k \in Links : Holds(k, a)
    BY OneLink
  <1>3. QED
    BY <1>1, <1>2, DescribedOnce

(* The descriptor of one address is that of the link that holds it, if it   *)
(* lies in the space.                                                       *)
LEMMA AddressDescribed ==
  ASSUME IInv, NEW address \in 0 .. Modulus - 1
  PROVE  /\ address \in Addresses => DescriptorAt(address) # {}
         /\ DescriptorAt(address) # {} =>
              /\ address \in Addresses
              /\ Len(SetToSeq(DescriptorAt(address))) = 1
              /\ OnceDescribed(ToSet(SetToSeq(DescriptorAt(address))), address)
  <1>1. address \in Nat /\ 1 \in Nat /\ address + 1 <= Modulus /\ 1 # 0
    BY WordFacts
  <1>2. address \in Addresses => Segment(address, 1) # {}
    <2>1. address \in Addresses => address + 1 - 1 <= LastAddress
      BY <1>1, WordFacts DEF Addresses
    <2>2. QED
      BY <1>1, <2>1, SegmentExists
  <1>3. ASSUME NEW se \in Segment(address, 1)
        PROVE  /\ address \in Addresses
               /\ Len(SetToSeq(DescriptorAt(address))) = 1
               /\ OnceDescribed(ToSet(SetToSeq(DescriptorAt(address))), address)
    <2>1. Tiled
      BY LinkFacts
    <2>2. address \in Addresses /\ se[1] \in Links /\ Holds(se[1], address)
      BY <1>1, <2>1, SegmentFacts DEF Holds
    <2>3. \A x \in Segment(address, 1) : x[1] = se[1]
      BY <1>1, <2>1, SegmentUnique
    <2>4. DescriptorAt(address) = { Build(map[se[1]]) }
      BY <2>3 DEF DescriptorAt
    <2> DEFINE K == { se[1] }
    <2>5. DescriptorAt(address) = { Build(map[k]) : k \in K } /\ K \in SUBSET Links
      BY <2>2, <2>4
    <2>6. OnceDescribed(DescriptorAt(address), address)
      BY <2>2, <2>5, DescribedOnce
    <2>7. IsFiniteSet(DescriptorAt(address)) /\ Cardinality(DescriptorAt(address)) = 1
      BY <2>4, FS_Singleton
    <2>8. /\ Len(SetToSeq(DescriptorAt(address))) = 1
          /\ ToSet(SetToSeq(DescriptorAt(address))) = DescriptorAt(address)
      BY <2>7, SetListed
    <2>9. QED
      BY <2>2, <2>6, <2>8
  <1>4. DescriptorAt(address) # {} => Segment(address, 1) # {}
    BY DEF DescriptorAt
  <1>5. Segment(address, 1) # {} => DescriptorAt(address) # {}
    BY DEF DescriptorAt
  <1>6. QED
    BY <1>2, <1>3, <1>4, <1>5

(* What is true of an answer.                                               *)
Answered(r) ==
  /\ r.status = "SUCCESS" =>
       /\ Len(r.descriptors) = r.room
       /\ \A a \in r.asked : OnceDescribed(ToSet(r.descriptors), a)
  /\ r.status = "NOT_FOUND" => r.asked \cap Addresses = {}

(* It stays true as long as the map stays the same.                         *)
LEMMA AnswerHolds ==
  ASSUME NEW r, Answered(r), map' = map, result' = r
  PROVE  QueriesExact'
  <1>1. \A a : CellAt(a)' = CellAt(a)
    BY DEF CellAt, Links
  <1>2. Addresses' = Addresses
    BY DEF Addresses
  <1>3. \A D, a : OnceDescribed(D, a)' <=> OnceDescribed(D, a)
    BY <1>1 DEF OnceDescribed
  <1>4. Answered(r)'
    BY <1>2, <1>3 DEF Answered
  <1>5. QED
    BY <1>4 DEF QueriesExact, Answered, OnceDescribed

(* The services of the I/O space are those of the map.                      *)
LEMMA IoServicesKeep ==
  ASSUME IInv, Space = "Io", IoServices
  PROVE  IInv'
  <1>1. ASSUME NEW t \in Types, NEW bl \in Ranges, CoreAddIoSpace(t, bl[1], bl[2])
        PROVE  IInv'
    BY <1>1, AddKeeps DEF CoreAddIoSpace
  <1>2. ASSUME NEW bl \in Ranges, CoreRemoveIoSpace(bl[1], bl[2]) PROVE IInv'
    BY <1>2, RemoveKeeps DEF CoreRemoveIoSpace
  <1>3. ASSUME NEW bl \in Ranges, CoreFreeIoSpace(bl[1], bl[2]) PROVE IInv'
    BY <1>3, FreeKeeps DEF CoreFreeIoSpace
  <1>4. ASSUME NEW r \in Requests, NEW i \in Images \cup {NULL}, NEW d \in Devices \cup {NULL},
               CoreAllocateIoSpace(r, i, d)
        PROVE  IInv'
    BY <1>4, AllocateKeeps DEF CoreAllocateIoSpace
  <1>5. QED
    BY <1>1, <1>2, <1>3, <1>4 DEF IoServices

(* A query leaves the map alone, and its answer is true of it; a service    *)
(* changes the map, and nobody has an answer then.                          *)
LEMMA QueryStep ==
  ASSUME IInv, QueriesExact, [QueryNext]_queryVars
  PROVE  IInv' /\ QueriesExact'
  <1>1. Answered(result)
    BY DEF QueriesExact, Answered, OnceDescribed
  <1>2. ASSUME map' = map, status' = status, NEW r, Answered(r), result' = r
        PROVE  IInv' /\ QueriesExact'
    BY <1>2, FailKeeps, AnswerHolds DEF IInv
  <1>3. CASE UNCHANGED << map, status, result >>
    BY <1>1, <1>2, <1>3
  <1>4. ASSUME NEW address \in 0 .. Modulus - 1, Describe(address)
        PROVE  IInv' /\ QueriesExact'
    <2>1. Answered(result')
      <3>1. /\ result'.asked = {address} /\ result'.room = 1
            /\ result'.descriptors = SetToSeq(DescriptorAt(address))
            /\ result'.status = IF DescriptorAt(address) = {} THEN "NOT_FOUND" ELSE "SUCCESS"
        BY <1>4 DEF Describe
      <3>2. QED
        BY <3>1, AddressDescribed DEF Answered
    <2>2. QED
      BY <1>2, <1>4, <2>1 DEF Describe
  <1>5. ASSUME UNCHANGED << map, status >>,
               result' = [status |-> "OUT_OF_RESOURCES", asked |-> {}, room |-> 0,
                          descriptors |-> << >>]
        PROVE  IInv' /\ QueriesExact'
    <2>1. Answered(result')
      BY <1>5 DEF Answered
    <2>2. QED
      BY <1>2, <1>5, <2>1
  <1>6. ASSUME UNCHANGED << map, status >>,
               result'.status = "SUCCESS", result'.asked = Addresses, result'.room = Len(map),
               result'.descriptors = [k \in Links |-> Build(map[k])]
        PROVE  IInv' /\ QueriesExact'
    <2>1. Len(result'.descriptors) = Len(map)
      <3>1. Links = 1 .. Len(map) /\ Len(map) \in Nat
        BY LinkFacts
      <3>2. QED
        BY <1>6, <3>1
    <2>2. Answered(result')
      BY <1>6, <2>1, MapDescribes DEF Answered
    <2>3. QED
      BY <1>2, <1>6, <2>2
  <1>7. CASE CoreGetIoSpaceMap
    BY <1>5, <1>6, <1>7 DEF CoreGetIoSpaceMap, CoreCountGcdMapEntry
  <1>8. CASE GetMapFill
    BY <1>6, <1>8 DEF GetMapFill, CountsAgree, CoreCountGcdMapEntry
  <1>9. CASE GetMapAllocate
    BY <1>3, <1>5, <1>9 DEF GetMapAllocate
  <1>10. CASE Service
    <2>1. IInv'
      <3>1. CASE Space = "Io"
        BY <1>10, <3>1, IoServicesKeep DEF Service
      <3>2. CASE Space # "Io"
        BY <1>10, <3>2, StepKeeps DEF Service
      <3>3. QED
        BY <3>1, <3>2
    <2>2. result'.status = "none"
      BY <1>10 DEF Service, Unasked
    <2>3. QED
      BY <2>1, <2>2 DEF QueriesExact
  <1>11. CASE GetMapBegin \/ GetMapRelease
    BY <1>3, <1>11 DEF GetMapBegin, GetMapRelease
  <1>12. CASE \E address \in 0 .. Modulus - 1 :
                CoreGetMemorySpaceDescriptor(address) \/ CoreGetIoSpaceDescriptor(address)
    BY <1>4, <1>12 DEF CoreGetMemorySpaceDescriptor, CoreGetIoSpaceDescriptor
  <1>13. CASE UNCHANGED queryVars
    BY <1>3, <1>13 DEF queryVars
  <1>14. QED
    BY <1>7, <1>8, <1>9, <1>10, <1>11, <1>12, <1>13 DEF QueryNext

(* Whatever services change the map between the count and the filling, and  *)
(* however often, what a query returns describes every byte it was asked    *)
(* about once, as the map has it when the query returns, in an array of     *)
(* just the size it was allocated with (CoreGetMemorySpaceMap).             *)
THEOREM QueriesCorrect == QuerySpec => []QueriesExact
  <1>1. QueryInit => IInv /\ QueriesExact
    BY InitMap DEF QueryInit, NoQueryYet, Unasked, QueriesExact
  <1>2. IInv /\ QueriesExact /\ [QueryNext]_queryVars => IInv' /\ QueriesExact'
    BY QueryStep
  <1>3. QED
    BY <1>1, <1>2, PTL DEF QuerySpec
===============================================================================
