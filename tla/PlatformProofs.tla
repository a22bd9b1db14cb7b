---------------------------- MODULE PlatformProofs ----------------------------
(* Proofs about the components of Platform: the PPI database, the PCDs,      *)
(* memory allocation and the HOB list.                                       *)
EXTENDS Platform, FiniteSets, FoldProofs, TLAPS

-----------------------------------------------------------------------------
(* A recursive function that takes the number it has come to into account.  *)
IsRecursion(f, b, n, step) ==
  \A i \in 0 .. n : f[i] = IF i = 0 THEN b ELSE step[<< f[i - 1], i >>]

LEMMA RecursionExists ==
  ASSUME NEW V, NEW b \in V, NEW n \in Nat, NEW step \in [V \X (1 .. n) -> V]
  PROVE  \E f \in [0 .. n -> V] : IsRecursion(f, b, n, step)
  <1>1. PICK it \in [SUBSET (1 .. n) -> V] : IsFold(it, b, n, step)
    BY FoldExists
  <1> DEFINE f == [i \in 0 .. n |-> it[1 .. i]]
  <1>2. f \in [0 .. n -> V]
    <2>1. \A i \in 0 .. n : 1 .. i \in SUBSET (1 .. n)
      OBVIOUS
    <2>2. QED
      BY <1>1, <2>1
  <1>3. ASSUME NEW i \in 0 .. n PROVE f[i] = IF i = 0 THEN b ELSE step[<< f[i - 1], i >>]
    <2>1. 1 .. i \in SUBSET (1 .. n) /\ (i = 0 => 1 .. i = {}) /\ i \in Nat
      OBVIOUS
    <2>2. CASE i = 0
      BY <1>1, <2>1, <2>2 DEF IsFold
    <2>3. CASE i # 0
      <3>1. i \in 1 .. i /\ i - 1 \in 0 .. n /\ (1 .. i) \ {i} = 1 .. i - 1 /\ 1 .. i # {}
        BY <2>1, <2>3
      <3>2. Max(1 .. i) \in 1 .. i /\ \A j \in 1 .. i : j <= Max(1 .. i)
        BY <2>1, <3>1, GreatestIndex, Zenon
      <3>3. Max(1 .. i) = i
        <4>1. PICK m : m = Max(1 .. i)
          OBVIOUS
        <4>2. m \in 1 .. i /\ i <= m
          BY <3>1, <3>2, <4>1
        <4>3. m = i
          BY <2>1, <4>2
        <4>4. QED
          BY <4>1, <4>3
      <3>4. it[1 .. i] = step[<< it[(1 .. i) \ {Max(1 .. i)}], Max(1 .. i) >>]
        BY <1>1, <2>1, <3>1 DEF IsFold
      <3>5. QED
        BY <2>3, <3>1, <3>3, <3>4
    <2>4. QED
      BY <2>2, <2>3
  <1> HIDE DEF f
  <1>4. IsRecursion(f, b, n, step)
    BY <1>3 DEF IsRecursion
  <1>5. QED
    BY <1>2, <1>4

-----------------------------------------------------------------------------
(* The PPI database.                                                       *)

Kinds == {"callback", "dispatch"}

WalkFrame ==
  [ is : {"walk"}, kind : Kinds, firstP : Nat \ {0}, lastP : Nat, lastN : Nat,
    n : Nat \ {0}, p : Nat ]
NotificationFrame == [is : {"notification"}]
DispatcherFrame == [is : {"dispatcher"}, loop : {"notifies", "ppis"}, count : Nat]
Frames == WalkFrame \cup NotificationFrame \cup DispatcherFrame

Calling == 1 .. Len(stack)

(* What a walk has not come to yet. *)
Ahead(f) ==
  { x \in (f.n .. f.lastN) \X (f.firstP .. f.lastP) : x[1] = f.n => x[2] >= f.p }

IsWalk(f, kind) == f.is = "walk" /\ f.kind = kind

Waits(kind, x) == \E i \in Calling : IsWalk(stack[i], kind) /\ x \in Ahead(stack[i])

(* How far the dispatcher is, the walk it is in included. *)
Dispatching(loop) == Len(stack) >= 2 /\ stack[1].is = "dispatcher" /\ stack[1].loop = loop
FarNotify == IF Dispatching("notifies") THEN stack[1].count ELSE lastNotify
FarPpi    == IF Dispatching("ppis") THEN stack[1].count ELSE lastPpi

Reached(kind, x) == kind = "dispatch" => x[1] <= FarNotify /\ x[2] <= FarPpi

PpiTypes(P, D) ==
  /\ ppis \in Seq(P) /\ Len(ppis) <= MaxPpis
  /\ notifies \in [Kinds -> Seq(D)] /\ \A k \in Kinds : Len(notifies[k]) <= MaxNotifies
  /\ lastPpi \in 0 .. Len(ppis) /\ lastNotify \in 0 .. Len(notifies["dispatch"])
  /\ stack \in Seq(Frames)
  /\ told \in [Peim!Slots -> 0 .. 2]
  /\ replaced \subseteq 1 .. Len(ppis)

DispatchWalk(f, d) ==
  IF d.loop = "notifies" THEN f.lastN = d.count /\ f.lastP = lastPpi
  ELSE f.lastN = lastNotify /\ f.lastP = d.count

FrameNests(i) ==
  /\ stack[i].is = "dispatcher" =>
       /\ i = 1
       /\ stack[i].count <= IF stack[i].loop = "notifies" THEN Len(notifies["dispatch"])
                            ELSE Len(ppis)
  /\ stack[i].is = "notification" => i > 1 /\ stack[i - 1].is = "walk"
  /\ stack[i].is = "walk" =>
       /\ stack[i].lastP <= Len(ppis) /\ stack[i].lastN <= Len(notifies[stack[i].kind])
       /\ stack[i].kind = "callback" => i = 1 \/ stack[i - 1].is = "notification"
       /\ stack[i].kind = "dispatch" =>
            i = 2 /\ stack[1].is = "dispatcher" /\ DispatchWalk(stack[2], stack[1])

FramesNest == \A i \in Calling : FrameNests(i)

Listed(kind, x) == x[1] <= Len(notifies[kind]) /\ x[2] <= Len(ppis)

Due(kind, x) == Peim!Matches(kind, x[1], x[2]) /\ Reached(kind, x) /\ ~Waits(kind, x)

Pairs == (1 .. MaxNotifies) \X (1 .. MaxPpis)

ToldOnce ==
  \A kind \in Kinds, x \in Pairs :
    /\ ~Listed(kind, x) => told[<< kind, x[1], x[2] >>] = 0
    /\ Listed(kind, x) /\ x[2] \notin replaced =>
         told[<< kind, x[1], x[2] >>] = IF Due(kind, x) THEN 1 ELSE 0

ToldAtAll ==
  \A x \in Pairs :
    Listed("callback", x) /\ Peim!Matches("callback", x[1], x[2]) =>
      told[<< "callback", x[1], x[2] >>] >= 1 \/ Waits("callback", x)

WalksApart ==
  \A kind \in Kinds, i, j \in Calling : IsWalk(stack[i], kind) /\ IsWalk(stack[j], kind) =>
    \A x \in Ahead(stack[i]) : x \in Ahead(stack[j]) /\ x[2] \notin replaced => i = j

PpiInv(P, D) ==
  PpiTypes(P, D) /\ FramesNest /\ ToldOnce /\ ToldAtAll /\ WalksApart

PeimConstants(P, D) ==
  /\ PpiLists \subseteq Seq(P) /\ NewPpis \subseteq P /\ NotifyLists \subseteq Seq(D)
  /\ MaxPpis \in Nat /\ MaxNotifies \in Nat

(* What the type of a frame says. *)
LEMMA FrameTypes ==
  ASSUME NEW f \in Frames
  PROVE  /\ f.is \in {"walk", "notification", "dispatcher"}
         /\ f.is = "walk" =>
              /\ f \in WalkFrame /\ f.kind \in Kinds /\ f.firstP \in Nat \ {0} /\ f.lastP \in Nat
              /\ f.lastN \in Nat /\ f.n \in Nat \ {0} /\ f.p \in Nat
         /\ f.is = "dispatcher" => f.loop \in {"notifies", "ppis"} /\ f.count \in Nat
  BY DEF Frames, WalkFrame, NotificationFrame, DispatcherFrame

LEMMA StackTypes ==
  ASSUME NEW P, NEW D, PpiInv(P, D)
  PROVE  /\ Len(stack) \in Nat /\ Calling = 1 .. Len(stack)
         /\ \A i \in Calling : stack[i] \in Frames
         /\ Len(ppis) \in Nat /\ Len(ppis) <= MaxPpis
         /\ \A k \in Kinds : Len(notifies[k]) \in Nat /\ Len(notifies[k]) <= MaxNotifies
         /\ Len(notifies["callback"]) \in Nat /\ Len(notifies["dispatch"]) \in Nat
         /\ stack # << >> <=> Len(stack) >= 1
         /\ lastPpi \in Nat /\ lastNotify \in Nat
  <1>1. stack \in Seq(Frames) /\ ppis \in Seq(P) /\ notifies \in [Kinds -> Seq(D)]
    BY DEF PpiInv, PpiTypes
  <1>2. Len(stack) \in Nat /\ Calling = 1 .. Len(stack) /\ \A i \in Calling : stack[i] \in Frames
    BY <1>1 DEF Calling
  <1>3. Len(ppis) \in Nat /\ Len(ppis) <= MaxPpis
    BY <1>1 DEF PpiInv, PpiTypes
  <1>4. \A k \in Kinds : Len(notifies[k]) \in Nat /\ Len(notifies[k]) <= MaxNotifies
    BY <1>1 DEF PpiInv, PpiTypes
  <1>5. "callback" \in Kinds /\ "dispatch" \in Kinds
    BY DEF Kinds
  <1>6. stack # << >> <=> Len(stack) >= 1
    BY <1>1
  <1>7. lastPpi \in Nat /\ lastNotify \in Nat
    BY <1>3, <1>4, <1>5 DEF PpiInv, PpiTypes
  <1>8. QED
    BY <1>2, <1>3, <1>4, <1>5, <1>6, <1>7

(* A walk that has not begun has everything ahead. *)
LEMMA NewWalk ==
  ASSUME NEW kind \in Kinds, NEW firstP \in Nat \ {0}, NEW lastP \in Nat,
         NEW firstN \in Nat \ {0}, NEW lastN \in Nat
  PROVE  LET w == Peim!Walk(kind, firstP, lastP, firstN, lastN) IN
         /\ w \in Frames /\ w.is = "walk" /\ w.kind = kind
         /\ w.lastP = lastP /\ w.lastN = lastN
         /\ Ahead(w) = (firstN .. lastN) \X (firstP .. lastP)
  <1> DEFINE w == Peim!Walk(kind, firstP, lastP, firstN, lastN)
  <1>1. /\ w \in WalkFrame /\ w.is = "walk" /\ w.kind = kind /\ w.lastP = lastP /\ w.lastN = lastN
        /\ w.n = firstN /\ w.p = firstP /\ w.firstP = firstP
    BY DEF Peim!Walk, WalkFrame
  <1> HIDE DEF w
  <1>2. \A x \in (firstN .. lastN) \X (firstP .. lastP) : x[2] >= firstP
    OBVIOUS
  <1>3. Ahead(w) = (firstN .. lastN) \X (firstP .. lastP)
    BY <1>1, <1>2 DEF Ahead
  <1>4. QED
    BY <1>1, <1>3 DEF Frames, w

(* What lies ahead of a walk is on the lists, and reached. *)
LEMMA AheadListed ==
  ASSUME NEW P, NEW D, PpiInv(P, D), PeimConstants(P, D),
         NEW i \in Calling, NEW kind \in Kinds, IsWalk(stack[i], kind),
         NEW x \in Ahead(stack[i])
  PROVE  x \in Pairs /\ Listed(kind, x) /\ Reached(kind, x)
  <1> DEFINE f == stack[i]
  <1>1. /\ f.is = "walk" /\ f.kind = kind /\ f \in Frames
    BY StackTypes DEF IsWalk
  <1>2. /\ f.firstP \in Nat \ {0} /\ f.lastP \in Nat /\ f.lastN \in Nat /\ f.n \in Nat \ {0}
    BY <1>1, FrameTypes
  <1>3. /\ x \in (f.n .. f.lastN) \X (f.firstP .. f.lastP)
    BY DEF Ahead
  <1>4. x = << x[1], x[2] >> /\ x[1] \in f.n .. f.lastN /\ x[2] \in f.firstP .. f.lastP
    BY <1>3
  <1>5. f.lastP <= Len(ppis) /\ f.lastN <= Len(notifies[kind])
    BY <1>1 DEF PpiInv, FramesNest, FrameNests
  <1>6. /\ x[1] \in Nat \ {0} /\ x[1] <= f.lastN /\ x[2] \in Nat \ {0} /\ x[2] <= f.lastP
    BY <1>2, <1>4
  <1>7. Listed(kind, x) /\ x[1] <= MaxNotifies /\ x[2] <= MaxPpis
    <2>1. /\ Len(ppis) \in Nat /\ Len(ppis) <= MaxPpis /\ Len(notifies[kind]) \in Nat
          /\ Len(notifies[kind]) <= MaxNotifies /\ MaxPpis \in Nat /\ MaxNotifies \in Nat
      BY StackTypes DEF PeimConstants
    <2>2. x[1] <= Len(notifies[kind]) /\ x[2] <= Len(ppis)
      BY <1>2, <1>5, <1>6, <2>1
    <2>3. QED
      BY <1>6, <2>1, <2>2 DEF Listed
  <1>8. x \in Pairs
    BY <1>4, <1>6, <1>7 DEF Pairs, PeimConstants
  <1>9. Reached(kind, x)
    <2>1. SUFFICES ASSUME kind = "dispatch" PROVE x[1] <= FarNotify /\ x[2] <= FarPpi
      BY DEF Reached
    <2>2. i = 2 /\ stack[1].is = "dispatcher" /\ DispatchWalk(f, stack[1])
      BY <1>1, <2>1 DEF PpiInv, FramesNest, FrameNests
    <2>3. Len(stack) >= 2 /\ 1 \in Calling
      BY <2>2, StackTypes
    <2>4. stack[1].loop \in {"notifies", "ppis"}
      BY <2>2, <2>3, StackTypes, FrameTypes
    <2>5. CASE stack[1].loop = "notifies"
      BY <1>6, <2>2, <2>3, <2>5 DEF DispatchWalk, FarNotify, FarPpi, Dispatching
    <2>6. CASE stack[1].loop = "ppis"
      BY <1>6, <2>2, <2>3, <2>6 DEF DispatchWalk, FarNotify, FarPpi, Dispatching
    <2>7. QED
      BY <2>4, <2>5, <2>6
  <1>10. QED
    BY <1>7, <1>8, <1>9

(* The dispatcher is no further than the lists are long. *)
LEMMA FarListed ==
  ASSUME NEW P, NEW D, PpiInv(P, D)
  PROVE  /\ FarNotify \in Nat /\ FarNotify <= Len(notifies["dispatch"])
         /\ FarPpi \in Nat /\ FarPpi <= Len(ppis)
  <1>1. /\ lastPpi \in 0 .. Len(ppis) /\ lastNotify \in 0 .. Len(notifies["dispatch"])
    BY DEF PpiInv, PpiTypes
  <1>2. ASSUME Len(stack) >= 2, stack[1].is = "dispatcher"
        PROVE  /\ stack[1].count \in Nat
               /\ stack[1].count <= IF stack[1].loop = "notifies" THEN Len(notifies["dispatch"])
                                    ELSE Len(ppis)
    <2>1. 1 \in Calling
      BY <1>2, StackTypes
    <2>2. QED
      BY <1>2, <2>1, StackTypes, FrameTypes DEF PpiInv, FramesNest, FrameNests
  <1>3. QED
    BY <1>1, <1>2, StackTypes DEF FarNotify, FarPpi, Dispatching

(* A frame on top of the others. *)
LEMMA Pushed ==
  ASSUME NEW P, NEW D, PpiInv(P, D), NEW w \in Frames, stack' = Append(stack, w)
  PROVE  /\ stack' \in Seq(Frames) /\ Len(stack') = Len(stack) + 1
         /\ Calling' = 1 .. Len(stack) + 1
         /\ \A i \in Calling : stack'[i] = stack[i]
         /\ stack'[Len(stack) + 1] = w
  BY StackTypes DEF PpiInv, PpiTypes, Calling

(* A service that begins a walk: the frames are nested, the dispatcher is   *)
(* where it was, and the walk is one more thing to wait for.                *)
LEMMA CallPushed ==
  ASSUME NEW P, NEW D, PpiInv(P, D),
         stack = << >> \/ Peim!Running("notification"),
         NEW firstP \in Nat \ {0}, NEW lastP \in Nat, NEW firstN \in Nat \ {0}, NEW lastN \in Nat,
         Peim!ProcessNotify("callback", firstP, lastP, firstN, lastN),
         Len(ppis') \in Nat, lastP <= Len(ppis'), Len(ppis) <= Len(ppis'),
         \A k \in Kinds : Len(notifies'[k]) \in Nat /\ Len(notifies[k]) <= Len(notifies'[k]),
         lastN <= Len(notifies'["callback"]),
         lastPpi' = lastPpi, lastNotify' = lastNotify
  PROVE  LET area == (firstN .. lastN) \X (firstP .. lastP) IN
         /\ stack' \in Seq(Frames) /\ FramesNest'
         /\ Calling' = 1 .. Len(stack) + 1 /\ \A i \in Calling : stack'[i] = stack[i]
         /\ IsWalk(stack'[Len(stack) + 1], "callback")
         /\ ~IsWalk(stack'[Len(stack) + 1], "dispatch")
         /\ Ahead(stack'[Len(stack) + 1]) = area
         /\ \A kind \in Kinds : \A x : Reached(kind, x)' <=> Reached(kind, x)
         /\ \A kind \in Kinds : \A x :
              Waits(kind, x)' <=> Waits(kind, x) \/ (kind = "callback" /\ x \in area)
  <1> DEFINE w == Peim!Walk("callback", firstP, lastP, firstN, lastN)
             area == (firstN .. lastN) \X (firstP .. lastP)
  <1>top. PICK top : top = Len(stack) + 1
    OBVIOUS
  <1>1. "callback" \in Kinds
    BY DEF Kinds
  <1>2. /\ w \in Frames /\ w.is = "walk" /\ w.kind = "callback" /\ w.lastP = lastP /\ w.lastN = lastN
        /\ Ahead(w) = area
    BY ONLY <1>1, firstP \in Nat \ {0}, lastP \in Nat, firstN \in Nat \ {0}, lastN \in Nat, NewWalk
  <1>3. stack' = Append(stack, w)
    BY DEF Peim!ProcessNotify
  <1> HIDE DEF w, area
  <1>4. /\ stack' \in Seq(Frames) /\ Len(stack') = Len(stack) + 1
        /\ Calling' = 1 .. Len(stack) + 1 /\ \A i \in Calling : stack'[i] = stack[i]
        /\ stack'[top] = w
    BY <1>2, <1>3, <1>top, Pushed
  <1>5. stack = << >> \/ (Len(stack) \in Calling /\ stack[Len(stack)].is = "notification")
    BY StackTypes DEF Peim!Running, Peim!Top
  <1>6. stack # << >> => Len(stack) >= 2
    BY <1>5, StackTypes DEF PpiInv, FramesNest, FrameNests
  <1>7. Len(stack) \in Nat /\ Calling = 1 .. Len(stack) /\ top \in Calling'
    BY <1>top, <1>4, StackTypes
  <1>8. FramesNest'
    <2>1. ASSUME NEW i \in Calling
          PROVE  FrameNests(i)'
      <3>1. i \in Nat /\ (i > 1 => i - 1 \in Calling /\ stack'[i - 1] = stack[i - 1])
        <4>1. i \in Nat /\ (i > 1 => i - 1 \in Calling)
          BY <1>7
        <4>2. QED
          BY <1>4, <4>1
      <3>2. CASE stack[i].is = "dispatcher"
        <4>1. i = 1 /\ stack[i].count \in Nat
          BY <3>2, StackTypes, FrameTypes DEF PpiInv, FramesNest, FrameNests
        <4>2. stack[i].count <= IF stack[i].loop = "notifies" THEN Len(notifies["dispatch"]) ELSE Len(ppis)
          BY <3>2 DEF PpiInv, FramesNest, FrameNests
        <4>3. Len(notifies'["dispatch"]) \in Nat /\ Len(notifies["dispatch"]) <= Len(notifies'["dispatch"])
          BY DEF Kinds
        <4>4. stack[i].count <= IF stack[i].loop = "notifies" THEN Len(notifies'["dispatch"])
                                ELSE Len(ppis')
          BY <4>1, <4>2, <4>3, StackTypes
        <4>5. QED
          BY <1>4, <3>2, <4>1, <4>4 DEF FrameNests
      <3>3. CASE stack[i].is = "notification"
        <4>1. i > 1 /\ stack[i - 1].is = "walk"
          BY <3>3 DEF PpiInv, FramesNest, FrameNests
        <4>2. QED
          BY <1>4, <3>1, <3>3, <4>1 DEF FrameNests
      <3>4. CASE stack[i].is = "walk"
        <4>1. stack[i].kind \in Kinds /\ stack[i].lastP \in Nat /\ stack[i].lastN \in Nat
          BY <3>4, StackTypes, FrameTypes
        <4>2. /\ stack[i].lastP <= Len(ppis) /\ stack[i].lastN <= Len(notifies[stack[i].kind])
              /\ stack[i].kind = "callback" => i = 1 \/ stack[i - 1].is = "notification"
              /\ stack[i].kind = "dispatch" =>
                   i = 2 /\ stack[1].is = "dispatcher" /\ DispatchWalk(stack[2], stack[1])
          BY <3>4 DEF PpiInv, FramesNest, FrameNests
        <4>3. stack[i].lastP <= Len(ppis') /\ stack[i].lastN <= Len(notifies'[stack[i].kind])
          <5>1. PICK kind \in Kinds : kind = stack[i].kind
            BY <4>1
          <5>2. Len(notifies'[kind]) \in Nat /\ Len(notifies[kind]) <= Len(notifies'[kind])
            OBVIOUS
          <5>3. Len(notifies[kind]) \in Nat /\ Len(ppis) \in Nat
            BY StackTypes
          <5>4. stack[i].lastP <= Len(ppis')
            BY <4>1, <4>2, <5>3
          <5>5. stack[i].lastN <= Len(notifies'[kind])
            <6>1. stack[i].lastN <= Len(notifies[kind]) /\ stack[i].lastN \in Nat
              BY <4>1, <4>2, <5>1
            <6>2. QED
              BY <5>2, <5>3, <6>1
          <5>6. QED
            BY <5>1, <5>4, <5>5
        <4>4. stack[i].kind = "callback" => i = 1 \/ stack'[i - 1].is = "notification"
          BY <3>1, <4>2, <1>7
        <4>5. stack[i].kind = "dispatch" =>
                /\ i = 2 /\ stack[1].is = "dispatcher" /\ DispatchWalk(stack[2], stack[1])
                /\ stack'[1] = stack[1] /\ stack'[2] = stack[2]
          BY <1>4, <1>7, <4>2
        <4>6. QED
          BY <1>4, <3>4, <4>3, <4>4, <4>5 DEF FrameNests, DispatchWalk
      <3>5. QED
        BY <3>2, <3>3, <3>4, StackTypes, FrameTypes
    <2>2. top = 1 \/ (top - 1 \in Calling /\ stack'[top - 1].is = "notification")
      BY <1>top, <1>4, <1>5, <1>7, StackTypes
    <2>3. ASSUME NEW i \in Calling' PROVE i \in Calling \/ i = top
      BY <1>top, <1>4, <1>7
    <2>4. FrameNests(top)'
      BY <1>2, <1>4, <2>2 DEF FrameNests
    <2>5. QED
      BY <2>1, <2>3, <2>4 DEF FramesNest
  <1>9. \A kind \in Kinds : \A x : Reached(kind, x)' <=> Reached(kind, x)
    <2>1. \A loop : Dispatching(loop)' <=> Dispatching(loop)
      BY <1>2, <1>4, <1>6, <1>7, StackTypes DEF Dispatching
    <2>2. Len(stack) >= 2 => stack'[1] = stack[1]
      BY <1>4, <1>7
    <2>3. FarNotify' = FarNotify /\ FarPpi' = FarPpi
      BY <2>1, <2>2 DEF FarNotify, FarPpi, Dispatching
    <2>4. QED
      BY <2>3 DEF Reached
  <1>10. ASSUME NEW kind \in Kinds, NEW x
         PROVE  Waits(kind, x)' <=> Waits(kind, x) \/ (kind = "callback" /\ x \in area)
    <2>1. \A i \in Calling' : i \in Calling \/ i = top
      BY <1>top, <1>4, <1>7
    <2>2. \A i \in Calling : i \in Calling'
      BY <1>4, <1>7
    <2>3. QED
      BY <1>2, <1>4, <1>7, <2>1, <2>2 DEF Waits, IsWalk
  <1>11. IsWalk(w, "callback") /\ ~IsWalk(w, "dispatch")
    BY <1>2 DEF IsWalk
  <1>12. QED
    BY <1>top, <1>2, <1>4, <1>8, <1>9, <1>10, <1>11 DEF area

(* Pairs that were on the lists match as before, and a walk is about those  *)
(* that are new.                                                            *)
OldMatchesStay ==
  \A kind \in Kinds, x \in Pairs :
    Listed(kind, x) => Listed(kind, x)' /\ (Peim!Matches(kind, x[1], x[2])' <=> Peim!Matches(kind, x[1], x[2]))
AreaIsNew(area) ==
  \A x \in Pairs : x \in area <=> Listed("callback", x)' /\ ~Listed("callback", x)

LEMMA PairTypes ==
  ASSUME NEW P, NEW D, PeimConstants(P, D), NEW x \in Pairs
  PROVE  x = << x[1], x[2] >> /\ x[1] \in Nat \ {0} /\ x[2] \in Nat \ {0}
         /\ x[1] \in 1 .. MaxNotifies /\ x[2] \in 1 .. MaxPpis
  BY DEF Pairs, PeimConstants

(* A service that appends to the lists and walks over what is new. *)
LEMMA GrowthKeeps ==
  ASSUME NEW P, NEW D, PpiInv(P, D), PeimConstants(P, D),
         NEW area,
         PpiTypes(P, D)', FramesNest',
         told' = told, replaced' = replaced,
         Calling' = 1 .. Len(stack) + 1, \A i \in Calling : stack'[i] = stack[i],
         IsWalk(stack'[Len(stack) + 1], "callback"),
         ~IsWalk(stack'[Len(stack) + 1], "dispatch"),
         Ahead(stack'[Len(stack) + 1]) = area,
         \A kind \in Kinds : \A x : Reached(kind, x)' <=> Reached(kind, x),
         \A kind \in Kinds : \A x :
           Waits(kind, x)' <=> Waits(kind, x) \/ (kind = "callback" /\ x \in area),
         OldMatchesStay, AreaIsNew(area)
  PROVE  PpiInv(P, D)'
  <1>1. ToldOnce /\ ToldAtAll /\ WalksApart
    BY DEF PpiInv
  <1>2. ASSUME NEW kind \in Kinds, NEW x \in Pairs, Listed(kind, x)
        PROVE  /\ Listed(kind, x)' /\ (Due(kind, x)' <=> Due(kind, x))
               /\ Waits(kind, x)' <=> Waits(kind, x)
               /\ Peim!Matches(kind, x[1], x[2])' <=> Peim!Matches(kind, x[1], x[2])
    <2>1. Listed(kind, x)' /\ (Peim!Matches(kind, x[1], x[2])' <=> Peim!Matches(kind, x[1], x[2]))
      BY <1>2 DEF OldMatchesStay
    <2>2. ~(kind = "callback" /\ x \in area)
      BY <1>2 DEF AreaIsNew
    <2>3. Waits(kind, x)' <=> Waits(kind, x)
      BY <2>2
    <2>4. Reached(kind, x)' <=> Reached(kind, x)
      OBVIOUS
    <2>5. Due(kind, x)' <=> Due(kind, x)
      BY <2>1, <2>3, <2>4 DEF Due
    <2>6. QED
      BY <2>1, <2>3, <2>5
  <1>3. ASSUME NEW kind \in Kinds, NEW x \in Pairs, ~Listed(kind, x), Listed(kind, x)'
        PROVE  ~Due(kind, x)' /\ (kind = "callback" => Waits(kind, x)')
    <2>1. CASE kind = "callback"
      <3>1. x \in area
        BY <1>3, <2>1 DEF AreaIsNew
      <3>2. Waits(kind, x)'
        BY <2>1, <3>1
      <3>3. QED
        BY <3>2 DEF Due
    <2>2. CASE kind = "dispatch"
      <3>1. ~Reached(kind, x)
        <4>1. x[1] \in Nat /\ x[2] \in Nat
          BY PairTypes
        <4>2. Reached(kind, x) => Listed(kind, x)
          BY <2>2, <4>1, FarListed, StackTypes DEF Reached, Listed
        <4>3. QED
          BY <1>3, <4>2
      <3>2. ~Reached(kind, x)'
        BY <3>1
      <3>3. QED
        BY <2>2, <3>2 DEF Due
    <2>3. QED
      BY <2>1, <2>2 DEF Kinds
  <1>4. ToldOnce'
    <2>1. ASSUME NEW kind \in Kinds, NEW x \in Pairs
          PROVE  /\ ~Listed(kind, x)' => told[<< kind, x[1], x[2] >>] = 0
                 /\ Listed(kind, x)' /\ x[2] \notin replaced =>
                      told[<< kind, x[1], x[2] >>] = IF Due(kind, x)' THEN 1 ELSE 0
      <3>1. CASE Listed(kind, x)
        BY <1>1, <1>2, <3>1 DEF ToldOnce
      <3>2. CASE ~Listed(kind, x)
        BY <1>1, <1>3, <3>2 DEF ToldOnce
      <3>3. QED
        BY <3>1, <3>2
    <2>2. Pairs' = Pairs
      BY DEF Pairs
    <2>3. QED
      BY <2>1, <2>2 DEF ToldOnce
  <1>5. ToldAtAll'
    <2>1. ASSUME NEW x \in Pairs, Listed("callback", x)', Peim!Matches("callback", x[1], x[2])'
          PROVE  told[<< "callback", x[1], x[2] >>] >= 1 \/ Waits("callback", x)'
      <3>1. "callback" \in Kinds
        BY DEF Kinds
      <3>2. CASE Listed("callback", x)
        <4>1. Peim!Matches("callback", x[1], x[2]) /\ (Waits("callback", x)' <=> Waits("callback", x))
          BY <1>2, <2>1, <3>1, <3>2
        <4>2. QED
          BY <1>1, <3>2, <4>1 DEF ToldAtAll
      <3>3. CASE ~Listed("callback", x)
        BY <1>3, <2>1, <3>1, <3>3
      <3>4. QED
        BY <3>2, <3>3
    <2>2. Pairs' = Pairs
      BY DEF Pairs
    <2>3. QED
      BY <2>1, <2>2 DEF ToldAtAll
  <1>6. WalksApart'
    <2> PICK top : top = Len(stack) + 1
      OBVIOUS
    <2>1. SUFFICES
            ASSUME NEW kind \in Kinds, NEW i \in Calling', NEW j \in Calling',
                   IsWalk(stack'[i], kind), IsWalk(stack'[j], kind),
                   NEW x, x \in Ahead(stack'[i]), x \in Ahead(stack'[j]), x[2] \notin replaced
            PROVE  i = j
      BY DEF WalksApart, IsWalk, Ahead
    <2>2. \A k \in Calling' : k \in Calling \/ k = top
      BY StackTypes
    <2>3. CASE i \in Calling /\ j \in Calling
      BY <1>1, <2>1, <2>3 DEF WalksApart
    <2>4. ASSUME NEW k \in Calling, IsWalk(stack'[k], kind), x \in Ahead(stack'[k]),
                 kind = "callback", x \in area
          PROVE  FALSE
      <3>1. stack'[k] = stack[k]
        OBVIOUS
      <3>2. IsWalk(stack[k], kind) /\ x \in Ahead(stack[k])
        BY <2>4, <3>1
      <3>3. x \in Pairs /\ Listed(kind, x)
        BY <3>2, AheadListed
      <3>4. QED
        BY <2>4, <3>3 DEF AreaIsNew
    <2>5. ASSUME NEW k \in Calling', k = top, IsWalk(stack'[k], kind), x \in Ahead(stack'[k])
          PROVE  kind = "callback" /\ x \in area
      BY <2>5 DEF Kinds
    <2>6. CASE i \in Calling /\ j = top
      BY ONLY <2>1, <2>4, <2>5, <2>6
    <2>7. CASE i = top /\ j \in Calling
      BY ONLY <2>1, <2>4, <2>5, <2>7
    <2>8. QED
      BY ONLY <2>1, <2>2, <2>3, <2>6, <2>7
  <1>7. QED
    BY <1>4, <1>5, <1>6 DEF PpiInv

(* Steps of other variables only. *)
LEMMA PpiUnchanged ==
  ASSUME NEW P, NEW D, PpiInv(P, D),
         UNCHANGED << ppis, notifies, lastPpi, lastNotify, stack, told, replaced >>
  PROVE  PpiInv(P, D)'
  <1>1. /\ ppis' = ppis /\ notifies' = notifies /\ lastPpi' = lastPpi /\ lastNotify' = lastNotify
        /\ stack' = stack /\ told' = told /\ replaced' = replaced
    OBVIOUS
  <1>2. PpiTypes(P, D)'
    BY <1>1, Zenon DEF PpiInv, PpiTypes, Peim!Slots
  <1>3. Calling' = Calling /\ Pairs' = Pairs
    BY <1>1 DEF Calling, Pairs
  <1>4. FramesNest'
    <2>1. ASSUME NEW i \in Calling PROVE FrameNests(i)'
      BY <1>1, Zenon DEF PpiInv, FramesNest, FrameNests, DispatchWalk
    <2>2. QED
      BY <1>3, <2>1 DEF FramesNest
  <1>5. FarNotify' = FarNotify /\ FarPpi' = FarPpi
    BY <1>1 DEF Dispatching, FarNotify, FarPpi
  <1>6. ASSUME NEW kind, NEW x
        PROVE  /\ Peim!Matches(kind, x[1], x[2])' = Peim!Matches(kind, x[1], x[2])
               /\ Listed(kind, x)' = Listed(kind, x) /\ Reached(kind, x)' = Reached(kind, x)
               /\ Waits(kind, x)' = Waits(kind, x)
    <2>1. Peim!Matches(kind, x[1], x[2])' = Peim!Matches(kind, x[1], x[2])
      BY <1>1 DEF Peim!Matches
    <2>2. Listed(kind, x)' = Listed(kind, x) /\ Reached(kind, x)' = Reached(kind, x)
      BY <1>1, <1>5 DEF Listed, Reached
    <2>3. Waits(kind, x)' = Waits(kind, x)
      BY <1>1, <1>3 DEF Waits
    <2>4. QED
      BY <2>1, <2>2, <2>3
  <1>7. ToldOnce'
    <2>1. ASSUME NEW kind \in Kinds, NEW x \in Pairs
          PROVE  /\ ~Listed(kind, x)' => told'[<< kind, x[1], x[2] >>] = 0
                 /\ Listed(kind, x)' /\ x[2] \notin replaced' =>
                      told'[<< kind, x[1], x[2] >>] = IF Due(kind, x)' THEN 1 ELSE 0
      BY <1>1, <1>6 DEF PpiInv, ToldOnce, Due
    <2>2. QED
      BY <1>3, <2>1 DEF ToldOnce
  <1>8. ToldAtAll'
    BY <1>1, <1>3, <1>6 DEF PpiInv, ToldAtAll
  <1>9. WalksApart'
    BY <1>1, <1>3 DEF PpiInv, WalksApart
  <1>10. QED
    BY <1>2, <1>4, <1>7, <1>8, <1>9 DEF PpiInv

(* PeiInstallPpi. *)
LEMMA InstallKeeps ==
  ASSUME NEW P, NEW D, PpiInv(P, D), PeimConstants(P, D), Peim!PeiInstallPpi
  PROVE  PpiInv(P, D)'
  <1>1. PICK list \in PpiLists :
          /\ Peim!MayCall /\ Len(ppis \o list) <= MaxPpis
          /\ IF \E i \in 1 .. Len(list) : ~list[i].valid
               THEN ppis' = SubSeq(ppis, 1, Len(ppis)) /\ stack' = stack
               ELSE /\ ppis' = ppis \o list
                    /\ Peim!ProcessNotify("callback", Len(ppis) + 1, Len(ppis \o list), 1,
                                          Len(notifies["callback"]))
          /\ UNCHANGED << notifies, lastPpi, lastNotify, told, replaced >>
    BY DEF Peim!PeiInstallPpi
  <1>2. list \in Seq(P) /\ ppis \in Seq(P) /\ Len(ppis) \in Nat /\ Len(list) \in Nat
    BY DEF PeimConstants, PpiInv, PpiTypes
  <1>3. CASE ppis' = SubSeq(ppis, 1, Len(ppis)) /\ stack' = stack
    <2>1. ppis' = ppis
      BY <1>2, <1>3
    <2>2. UNCHANGED << ppis, notifies, lastPpi, lastNotify, stack, told, replaced >>
      BY <1>1, <1>3, <2>1
    <2>3. QED
      BY <2>2, PpiUnchanged
  <1>4. CASE /\ ppis' = ppis \o list
             /\ Peim!ProcessNotify("callback", Len(ppis) + 1, Len(ppis \o list), 1,
                                   Len(notifies["callback"]))
    <2> DEFINE all == ppis \o list
               area == (1 .. Len(notifies["callback"])) \X (Len(ppis) + 1 .. Len(all))
    <2>1. /\ ppis' \in Seq(P) /\ Len(ppis') = Len(ppis) + Len(list) /\ Len(ppis') <= MaxPpis
          /\ \A k \in 1 .. Len(ppis) : ppis'[k] = ppis[k]
      BY <1>1, <1>2, <1>4
    <2>2. stack = << >> \/ Peim!Running("notification")
      BY <1>1 DEF Peim!MayCall
    <2>3. /\ Len(ppis) + 1 \in Nat \ {0} /\ Len(all) \in Nat /\ 1 \in Nat \ {0}
          /\ Len(notifies["callback"]) \in Nat /\ Len(all) <= Len(ppis') /\ Len(ppis') \in Nat
          /\ Len(ppis) <= Len(ppis') /\ notifies' = notifies
          /\ lastPpi' = lastPpi /\ lastNotify' = lastNotify /\ told' = told /\ replaced' = replaced
          /\ \A k \in Kinds : Len(notifies'[k]) \in Nat /\ Len(notifies[k]) <= Len(notifies'[k])
          /\ Len(notifies["callback"]) <= Len(notifies'["callback"])
      BY <1>1, <1>2, <1>4, <2>1, StackTypes
    <2>4. /\ stack' \in Seq(Frames) /\ FramesNest'
          /\ Calling' = 1 .. Len(stack) + 1 /\ \A i \in Calling : stack'[i] = stack[i]
          /\ IsWalk(stack'[Len(stack) + 1], "callback")
          /\ ~IsWalk(stack'[Len(stack) + 1], "dispatch")
          /\ Ahead(stack'[Len(stack) + 1]) = area
          /\ \A kind \in Kinds : \A x : Reached(kind, x)' <=> Reached(kind, x)
          /\ \A kind \in Kinds : \A x :
               Waits(kind, x)' <=> Waits(kind, x) \/ (kind = "callback" /\ x \in area)
      BY <1>4, <2>2, <2>3, CallPushed
    <2>5. PpiTypes(P, D)'
      <3>1. PpiTypes(P, D)
        BY DEF PpiInv
      <3>2. lastPpi' \in 0 .. Len(ppis') /\ replaced' \subseteq 1 .. Len(ppis')
        BY <1>2, <2>1, <2>3, <3>1 DEF PpiTypes
      <3>3. Peim!Slots' = Peim!Slots
        BY DEF Peim!Slots
      <3>4. QED
        BY <2>1, <2>3, <2>4, <3>1, <3>2, <3>3 DEF PpiTypes
    <2>6. OldMatchesStay
      <3>1. SUFFICES ASSUME NEW kind \in Kinds, NEW x \in Pairs, Listed(kind, x)
                     PROVE  /\ Listed(kind, x)'
                            /\ Peim!Matches(kind, x[1], x[2])' <=> Peim!Matches(kind, x[1], x[2])
        BY DEF OldMatchesStay
      <3>2. x[2] \in 1 .. Len(ppis)
        BY <1>2, <3>1, PairTypes DEF Listed
      <3>3. QED
        BY <1>2, <2>1, <2>3, <3>1, <3>2, PairTypes DEF Listed, Peim!Matches
    <2>7. AreaIsNew(area)
      BY <1>2, <1>4, <2>1, <2>3, PairTypes DEF AreaIsNew, Listed
    <2> HIDE DEF area, all
    <2>8. QED
      BY <2>3, <2>4, <2>5, <2>6, <2>7, GrowthKeeps
  <1>5. QED
    BY <1>1, <1>3, <1>4

(* The descriptors of one kind on a list of descriptors. *)
LEMMA OfKindType ==
  ASSUME NEW D, NEW list \in Seq(D), NEW kind
  PROVE  Peim!OfKind(list, kind) \in Seq(D)
  <1> DEFINE n == Len(list)
             Rec(f) == [ i \in 0 .. n |->
                           IF i = 0 THEN << >>
                           ELSE IF list[i].kind = kind THEN Append(f[i - 1], list[i]) ELSE f[i - 1] ]
             step == [ x \in Seq(D) \X (1 .. n) |->
                         IF list[x[2]].kind = kind THEN Append(x[1], list[x[2]]) ELSE x[1] ]
             g == CHOOSE f : f = Rec(f)
  <1>1. n \in Nat /\ << >> \in Seq(D) /\ \A i \in 1 .. n : list[i] \in D
    OBVIOUS
  <1>2. step \in [Seq(D) \X (1 .. n) -> Seq(D)]
    BY <1>1
  <1>3. PICK f \in [0 .. n -> Seq(D)] : IsRecursion(f, << >>, n, step)
    <2> DEFINE b == << >>
               V == Seq(D)
    <2>1. b \in V /\ n \in Nat /\ step \in [V \X (1 .. n) -> V]
      BY <1>1, <1>2
    <2> HIDE DEF n, step, b, V
    <2>2. \E f \in [0 .. n -> V] : IsRecursion(f, b, n, step)
      BY ONLY <2>1, RecursionExists
    <2>3. QED
      BY <2>2 DEF b, V
  <1>4. f = Rec(f)
    <2>1. \A i \in 0 .. n : i # 0 =>
            step[<< f[i - 1], i >>] = IF list[i].kind = kind THEN Append(f[i - 1], list[i]) ELSE f[i - 1]
      <3>1. \A i \in 0 .. n : i # 0 => i \in 1 .. n /\ i - 1 \in 0 .. n
        <4> HIDE DEF n
        <4>1. QED
          BY <1>1
      <3>2. \A i \in 0 .. n : f[i] \in Seq(D)
        BY <1>3
      <3>3. QED
        BY <3>1, <3>2
    <2>2. f = [i \in 0 .. n |-> f[i]]
      BY <1>3
    <2> HIDE DEF step, n
    <2>3. QED
      BY <1>3, <2>1, <2>2 DEF IsRecursion
  <1>5. g = Rec(g)
    <2> HIDE DEF Rec
    <2>1. QED
      BY <1>4
  <1>6. Peim!OfKind(list, kind) = g[n]
    BY DEF Peim!OfKind
  <1> HIDE DEF g
  <1> DEFINE Typed(m) == m <= n => g[m] \in Seq(D)
             F == { m \in Nat : Typed(m) }
  <1>7. 0 \in F
    BY <1>1, <1>5
  <1>8. ASSUME NEW m \in F PROVE m + 1 \in F
    <2>1. SUFFICES ASSUME m + 1 <= n PROVE g[m + 1] \in Seq(D)
      OBVIOUS
    <2>2. m \in Nat /\ m + 1 \in 0 .. n /\ m + 1 # 0 /\ (m + 1) - 1 = m /\ m + 1 \in 1 .. n
          /\ g[m] \in Seq(D) /\ list[m + 1] \in D
      BY <1>1, <2>1
    <2> HIDE DEF n
    <2>3. g[m + 1] = IF list[m + 1].kind = kind THEN Append(g[m], list[m + 1]) ELSE g[m]
      BY <1>5, <2>2
    <2>4. QED
      BY <2>2, <2>3
  <1>9. F \subseteq Nat
    OBVIOUS
  <1> HIDE DEF F
  <1>10. F = Nat
    BY <1>7, <1>8, <1>9, SetInduction
  <1>11. g[n] \in Seq(D)
    BY <1>1, <1>10 DEF F
  <1>12. QED
    BY <1>6, <1>11

(* PeiNotifyPpi. *)
LEMMA NotifyKeeps ==
  ASSUME NEW P, NEW D, PpiInv(P, D), PeimConstants(P, D), Peim!PeiNotifyPpi
  PROVE  PpiInv(P, D)'
  <1> DEFINE Asks(list, all) ==
               /\ all = [k \in Kinds |-> notifies[k] \o Peim!OfKind(list, k)]
               /\ Peim!MayCall /\ \A k \in Kinds : Len(all[k]) <= MaxNotifies
               /\ IF \E i \in 1 .. Len(list) : list[i].kind \notin Kinds
                    THEN notifies' = notifies /\ stack' = stack
                    ELSE /\ notifies' = all
                         /\ Peim!ProcessNotify("callback", 1, Len(ppis),
                                               Len(notifies["callback"]) + 1, Len(all["callback"]))
               /\ UNCHANGED << ppis, lastPpi, lastNotify, told, replaced >>
  <1>0. PICK list \in NotifyLists : \E all : Asks(list, all)
    BY DEF Peim!PeiNotifyPpi, Peim!Kinds, Kinds
  <1>1. PICK all : Asks(list, all)
    BY <1>0
  <1>2. CASE notifies' = notifies /\ stack' = stack
    BY <1>1, <1>2, PpiUnchanged
  <1>3. CASE /\ notifies' = all
             /\ Peim!ProcessNotify("callback", 1, Len(ppis), Len(notifies["callback"]) + 1,
                                   Len(all["callback"]))
    <2> DEFINE area == (Len(notifies["callback"]) + 1 .. Len(all["callback"])) \X (1 .. Len(ppis))
    <2>1. "callback" \in Kinds /\ "dispatch" \in Kinds
      BY DEF Kinds
    <2>2. ASSUME NEW k \in Kinds
          PROVE  /\ all[k] \in Seq(D) /\ Len(all[k]) \in Nat /\ Len(notifies[k]) \in Nat
                 /\ Len(notifies[k]) <= Len(all[k])
                 /\ \A i \in 1 .. Len(notifies[k]) : all[k][i] = notifies[k][i]
      <3>1. notifies[k] \in Seq(D) /\ list \in Seq(D)
        BY DEF PeimConstants, PpiInv, PpiTypes
      <3>2. Peim!OfKind(list, k) \in Seq(D)
        BY <3>1, OfKindType
      <3>3. all[k] = notifies[k] \o Peim!OfKind(list, k)
        BY <1>1
      <3>4. QED
        BY <3>1, <3>2, <3>3
    <2>3. stack = << >> \/ Peim!Running("notification")
      BY <1>1 DEF Peim!MayCall
    <2>4. /\ Len(notifies["callback"]) + 1 \in Nat \ {0} /\ Len(all["callback"]) \in Nat
          /\ 1 \in Nat \ {0} /\ Len(ppis) \in Nat /\ Len(ppis) <= Len(ppis') /\ Len(ppis') \in Nat
          /\ lastPpi' = lastPpi /\ lastNotify' = lastNotify /\ told' = told /\ replaced' = replaced
          /\ ppis' = ppis
          /\ \A k \in Kinds : Len(notifies'[k]) \in Nat /\ Len(notifies[k]) <= Len(notifies'[k])
          /\ Len(all["callback"]) <= Len(notifies'["callback"])
      BY <1>1, <1>3, <2>1, <2>2, StackTypes
    <2>5. /\ stack' \in Seq(Frames) /\ FramesNest'
          /\ Calling' = 1 .. Len(stack) + 1 /\ \A i \in Calling : stack'[i] = stack[i]
          /\ IsWalk(stack'[Len(stack) + 1], "callback")
          /\ ~IsWalk(stack'[Len(stack) + 1], "dispatch")
          /\ Ahead(stack'[Len(stack) + 1]) = area
          /\ \A kind \in Kinds : \A x : Reached(kind, x)' <=> Reached(kind, x)
          /\ \A kind \in Kinds : \A x :
               Waits(kind, x)' <=> Waits(kind, x) \/ (kind = "callback" /\ x \in area)
      BY <1>3, <2>3, <2>4, CallPushed
    <2>6. PpiTypes(P, D)'
      <3>1. PpiTypes(P, D)
        BY DEF PpiInv
      <3>2. notifies' \in [Kinds -> Seq(D)] /\ \A k \in Kinds : Len(notifies'[k]) <= MaxNotifies
        BY <1>1, <1>3, <2>2
      <3>3. lastNotify' \in 0 .. Len(notifies'["dispatch"])
        BY <2>1, <2>4, <3>1, StackTypes DEF PpiTypes
      <3>4. Peim!Slots' = Peim!Slots
        BY DEF Peim!Slots
      <3>5. QED
        BY <2>4, <2>5, <3>1, <3>2, <3>3, <3>4 DEF PpiTypes
    <2>7. OldMatchesStay
      <3>1. SUFFICES ASSUME NEW kind \in Kinds, NEW x \in Pairs, Listed(kind, x)
                     PROVE  /\ Listed(kind, x)'
                            /\ Peim!Matches(kind, x[1], x[2])' <=> Peim!Matches(kind, x[1], x[2])
        BY DEF OldMatchesStay
      <3>2. x[1] \in 1 .. Len(notifies[kind])
        BY <2>2, <3>1, PairTypes DEF Listed
      <3>3. notifies'[kind][x[1]] = notifies[kind][x[1]]
        BY <1>3, <2>2, <3>2
      <3>4. Listed(kind, x)'
        BY <2>4, <3>1, <3>2, StackTypes, PairTypes DEF Listed
      <3>5. QED
        BY <2>4, <3>3, <3>4 DEF Peim!Matches
    <2>8. AreaIsNew(area)
      <3>1. SUFFICES ASSUME NEW x \in Pairs
                     PROVE  x \in area <=> Listed("callback", x)' /\ ~Listed("callback", x)
        BY DEF AreaIsNew
      <3>2. QED
        BY <1>3, <2>1, <2>2, <2>4, PairTypes DEF Listed
    <2> HIDE DEF area
    <2>9. QED
      BY <2>4, <2>5, <2>6, <2>7, <2>8, GrowthKeeps
  <1>4. QED
    BY <1>1, <1>2, <1>3

(* PeiReInstallPpi: the slot that takes the new descriptor. *)
FirstSlot(found) ==
  LET slots == { i \in 1 .. Len(ppis) : ppis[i] = ppis[found] }
  IN  CHOOSE i \in slots : \A j \in slots : i <= j

LEMMA ReinstalledSlot ==
  ASSUME NEW P, NEW D, PpiInv(P, D), NEW guid, NEW instance, NEW found,
         found = Peim!PeiLocatePpi(guid, instance), found # 0
  PROVE  FirstSlot(found) \in 1 .. Len(ppis)
  <1> DEFINE hits  == { i \in 1 .. Len(ppis) : ppis[i].guid = guid }
             nth   == { i \in hits : Peim!Cardinality({ j \in hits : j < i }) = instance }
             slots == { i \in 1 .. Len(ppis) : ppis[i] = ppis[found] }
  <1>1. found = IF nth = {} THEN 0 ELSE CHOOSE i \in nth : TRUE
    BY Zenon DEF Peim!PeiLocatePpi
  <1>2. nth \subseteq 1 .. Len(ppis)
    OBVIOUS
  <1> HIDE DEF nth
  <1>3. found \in nth
    BY <1>1
  <1>4. found \in 1 .. Len(ppis)
    BY <1>2, <1>3
  <1> PICK m : m = Len(ppis)
    OBVIOUS
  <1>5. slots # {} /\ slots \in SUBSET (1 .. m) /\ m \in Nat
    BY <1>4, StackTypes
  <1> HIDE DEF slots
  <1>6. Min(slots) \in slots /\ \A x \in slots : Min(slots) <= x
    BY <1>5, LeastIndex, Zenon
  <1>7. (CHOOSE i \in slots : \A j \in slots : i <= j) \in slots
    BY <1>6
  <1>8. (CHOOSE i \in slots : \A j \in slots : i <= j) \in 1 .. m
    BY <1>5, <1>7
  <1>9. QED
    BY <1>8 DEF slots, FirstSlot

LEMMA ReinstallKeeps ==
  ASSUME NEW P, NEW D, PpiInv(P, D), PeimConstants(P, D), Peim!PeiReInstallPpi
  PROVE  PpiInv(P, D)'
  <1>1. PICK new \in NewPpis, old \in 1 .. Len(ppis) :
          /\ Peim!MayCall
          /\ ppis' = [ppis EXCEPT ![old] = new]
          /\ replaced' = replaced \cup {old}
          /\ told' = [s \in Peim!Slots |-> IF s[3] = old /\ s[1] = "callback" THEN 0 ELSE told[s]]
          /\ Peim!ProcessNotify("callback", old, old, 1, Len(notifies["callback"]))
          /\ UNCHANGED << notifies, lastPpi, lastNotify >>
    <2>1. PICK new \in NewPpis, instance \in 0 .. MaxPpis - 1 :
            \E found \in { Peim!PeiLocatePpi(d.guid, instance) :
                           d \in NewPpis \cup { ppis[i] : i \in 1 .. Len(ppis) } } :
              /\ Peim!MayCall
              /\ found # 0
              /\ new.valid
              /\ ppiCalls' = ppiCalls + 1
              /\ ppis' = [ppis EXCEPT ![FirstSlot(found)] = new]
              /\ replaced' = replaced \cup {FirstSlot(found)}
              /\ told' = [s \in Peim!Slots |->
                            IF s[3] = FirstSlot(found) /\ s[1] = "callback" THEN 0 ELSE told[s]]
              /\ Peim!ProcessNotify("callback", FirstSlot(found), FirstSlot(found), 1,
                                    Len(notifies["callback"]))
              /\ UNCHANGED << notifies, lastPpi, lastNotify >>
      BY Zenon DEF Peim!PeiReInstallPpi, FirstSlot
    <2>2. PICK found \in { Peim!PeiLocatePpi(d.guid, instance) :
                          d \in NewPpis \cup { ppis[i] : i \in 1 .. Len(ppis) } } :
              /\ Peim!MayCall
              /\ found # 0
              /\ new.valid
              /\ ppiCalls' = ppiCalls + 1
              /\ ppis' = [ppis EXCEPT ![FirstSlot(found)] = new]
              /\ replaced' = replaced \cup {FirstSlot(found)}
              /\ told' = [s \in Peim!Slots |->
                            IF s[3] = FirstSlot(found) /\ s[1] = "callback" THEN 0 ELSE told[s]]
              /\ Peim!ProcessNotify("callback", FirstSlot(found), FirstSlot(found), 1,
                                    Len(notifies["callback"]))
              /\ UNCHANGED << notifies, lastPpi, lastNotify >>
      BY <2>1, Zenon
    <2> PICK guid : found = Peim!PeiLocatePpi(guid, instance)
      BY <2>2
    <2>3. PICK old : old = FirstSlot(found)
      OBVIOUS
    <2>4. old \in 1 .. Len(ppis)
      <3>1. found = Peim!PeiLocatePpi(guid, instance) /\ found # 0
        BY <2>2
      <3>2. FirstSlot(found) \in 1 .. Len(ppis)
        BY <3>1, ReinstalledSlot, Zenon
      <3>3. QED
        BY <2>3, <3>2
    <2>5. QED
      BY <2>2, <2>3, <2>4
  <1> DEFINE area == (1 .. Len(notifies["callback"])) \X (old .. old)
  <1>2. PpiTypes(P, D) /\ ToldOnce /\ ToldAtAll /\ WalksApart
    BY DEF PpiInv
  <1>3. /\ ppis' \in Seq(P) /\ Len(ppis') = Len(ppis)
        /\ \A i \in 1 .. Len(ppis) : i # old => ppis'[i] = ppis[i]
    BY <1>1, <1>2 DEF PpiTypes, PeimConstants
  <1>4. stack = << >> \/ Peim!Running("notification")
    BY <1>1 DEF Peim!MayCall
  <1>5. /\ old \in Nat \ {0} /\ old \in Nat /\ 1 \in Nat \ {0} /\ Len(notifies["callback"]) \in Nat
        /\ Len(ppis') \in Nat /\ old <= Len(ppis') /\ Len(ppis) <= Len(ppis')
        /\ \A k \in Kinds : Len(notifies'[k]) \in Nat /\ Len(notifies[k]) <= Len(notifies'[k])
        /\ Len(notifies["callback"]) <= Len(notifies'["callback"])
        /\ lastPpi' = lastPpi /\ lastNotify' = lastNotify /\ notifies' = notifies
    BY <1>1, <1>3, StackTypes
  <1>6. /\ stack' \in Seq(Frames) /\ FramesNest'
        /\ Calling' = 1 .. Len(stack) + 1 /\ \A i \in Calling : stack'[i] = stack[i]
        /\ IsWalk(stack'[Len(stack) + 1], "callback")
        /\ ~IsWalk(stack'[Len(stack) + 1], "dispatch")
        /\ Ahead(stack'[Len(stack) + 1]) = area
        /\ \A kind \in Kinds : \A x : Reached(kind, x)' <=> Reached(kind, x)
        /\ \A kind \in Kinds : \A x :
             Waits(kind, x)' <=> Waits(kind, x) \/ (kind = "callback" /\ x \in area)
    BY <1>1, <1>4, <1>5, CallPushed
  <1>7. ASSUME NEW kind \in Kinds, NEW x \in Pairs
        PROVE  /\ Listed(kind, x)' <=> Listed(kind, x)
               /\ told'[<< kind, x[1], x[2] >>] =
                    IF x[2] = old /\ kind = "callback" THEN 0 ELSE told[<< kind, x[1], x[2] >>]
               /\ x \in area => x[2] = old
               /\ x[2] # old /\ Listed(kind, x) =>
                    (Peim!Matches(kind, x[1], x[2])' <=> Peim!Matches(kind, x[1], x[2]))
    <2>1. << kind, x[1], x[2] >> \in Peim!Slots
      BY PairTypes DEF Peim!Slots, Peim!Kinds, Kinds
    <2>2. Listed(kind, x)' <=> Listed(kind, x)
      BY <1>1, <1>3 DEF Listed
    <2>3. told'[<< kind, x[1], x[2] >>] =
            IF x[2] = old /\ kind = "callback" THEN 0 ELSE told[<< kind, x[1], x[2] >>]
      BY <1>1, <2>1
    <2>4. x \in area => x[2] = old
      BY <1>5, PairTypes
    <2>5. Listed(kind, x) => x[2] \in 1 .. Len(ppis)
      BY StackTypes, PairTypes DEF Listed
    <2>6. QED
      BY <1>1, <1>3, <2>2, <2>3, <2>4, <2>5 DEF Peim!Matches
  <1>8. PpiTypes(P, D)'
    <2>1. Len(ppis') <= MaxPpis /\ lastPpi' \in 0 .. Len(ppis') /\ replaced' \subseteq 1 .. Len(ppis')
      BY <1>1, <1>2, <1>3 DEF PpiTypes
    <2>2. told' \in [Peim!Slots' -> 0 .. 2]
      <3>1. told' = [s \in Peim!Slots |-> IF s[3] = old /\ s[1] = "callback" THEN 0 ELSE told[s]]
        BY <1>1
      <3>2. \A s \in Peim!Slots : told[s] \in 0 .. 2
        BY <1>2 DEF PpiTypes
      <3>3. Peim!Slots' = Peim!Slots
        BY DEF Peim!Slots
      <3>4. QED
        BY <3>1, <3>2, <3>3
    <2>3. QED
      BY <1>2, <1>3, <1>5, <1>6, <2>1, <2>2 DEF PpiTypes
  <1> HIDE DEF area
  <1>9. ASSUME NEW kind \in Kinds, NEW x \in Pairs, x[2] # old
        PROVE  /\ Waits(kind, x)' <=> Waits(kind, x)
               /\ Listed(kind, x) => (Due(kind, x)' <=> Due(kind, x))
    <2>1. Waits(kind, x)' <=> Waits(kind, x)
      BY <1>6, <1>7, <1>9
    <2>2. Listed(kind, x) => (Peim!Matches(kind, x[1], x[2])' <=> Peim!Matches(kind, x[1], x[2]))
      BY <1>7, <1>9
    <2>3. Reached(kind, x)' <=> Reached(kind, x)
      BY <1>6
    <2>4. QED
      BY <2>1, <2>2, <2>3 DEF Due
  <1>10. Pairs' = Pairs
    BY DEF Pairs
  <1>11. ToldOnce'
    <2>1. ASSUME NEW kind \in Kinds, NEW x \in Pairs
          PROVE  /\ ~Listed(kind, x)' => told'[<< kind, x[1], x[2] >>] = 0
                 /\ Listed(kind, x)' /\ x[2] \notin replaced' =>
                      told'[<< kind, x[1], x[2] >>] = IF Due(kind, x)' THEN 1 ELSE 0
      <3>1. CASE x[2] = old
        <4>1. x[2] \in replaced'
          BY <1>1, <3>1
        <4>2. ~Listed(kind, x) => told[<< kind, x[1], x[2] >>] = 0
          BY <1>2 DEF ToldOnce
        <4>3. QED
          BY <1>7, <4>1, <4>2
      <3>2. CASE x[2] # old
        <4>1. /\ ~Listed(kind, x) => told[<< kind, x[1], x[2] >>] = 0
              /\ Listed(kind, x) /\ x[2] \notin replaced =>
                   told[<< kind, x[1], x[2] >>] = IF Due(kind, x) THEN 1 ELSE 0
          BY <1>2 DEF ToldOnce
        <4>2. x[2] \notin replaced' => x[2] \notin replaced
          BY <1>1
        <4>3. QED
          BY <1>7, <1>9, <3>2, <4>1, <4>2
      <3>3. QED
        BY <3>1, <3>2
    <2>2. QED
      BY <1>10, <2>1 DEF ToldOnce
  <1>12. ToldAtAll'
    <2>1. ASSUME NEW x \in Pairs, Listed("callback", x)', Peim!Matches("callback", x[1], x[2])'
          PROVE  told'[<< "callback", x[1], x[2] >>] >= 1 \/ Waits("callback", x)'
      <3>0. "callback" \in Kinds
        BY DEF Kinds
      <3>1. CASE x[2] = old
        <4>1. x[1] <= Len(notifies["callback"])
          BY <1>7, <2>1, <3>0 DEF Listed
        <4>2. x \in area
          BY <1>5, <3>1, <4>1, PairTypes DEF area
        <4>3. QED
          BY <1>6, <3>0, <4>2
      <3>2. CASE x[2] # old
        <4>1. Listed("callback", x) /\ Peim!Matches("callback", x[1], x[2])
          BY <1>7, <2>1, <3>0, <3>2
        <4>2. told[<< "callback", x[1], x[2] >>] >= 1 \/ Waits("callback", x)
          BY <1>2, <4>1 DEF ToldAtAll
        <4>3. QED
          BY <1>7, <1>9, <3>0, <3>2, <4>2
      <3>3. QED
        BY <3>1, <3>2
    <2>2. QED
      BY <1>10, <2>1 DEF ToldAtAll
  <1>13. WalksApart'
    <2> PICK top : top = Len(stack) + 1
      OBVIOUS
    <2>1. SUFFICES
            ASSUME NEW kind \in Kinds, NEW i \in Calling', NEW j \in Calling',
                   IsWalk(stack'[i], kind), IsWalk(stack'[j], kind),
                   NEW x, x \in Ahead(stack'[i]), x \in Ahead(stack'[j]), x[2] \notin replaced'
            PROVE  i = j
      BY DEF WalksApart, IsWalk, Ahead
    <2>2. \A k \in Calling' : k \in Calling \/ k = top
      BY <1>6, StackTypes
    <2>3. x[2] # old /\ x[2] \notin replaced
      BY <1>1, <2>1
    <2>4. x \notin area
      BY <1>5, <2>3 DEF area
    <2>5. i # top /\ j # top
      BY <1>6, <2>1, <2>4
    <2>6. i \in Calling /\ j \in Calling
      BY <2>2, <2>5
    <2>7. QED
      BY <1>2, <1>6, <2>1, <2>3, <2>6 DEF WalksApart
  <1>14. QED
    BY <1>6, <1>8, <1>11, <1>12, <1>13 DEF PpiInv

-----------------------------------------------------------------------------
(* Steps of walks.                                                          *)

(* A pair about which nothing has changed. *)
Settled(kind, x) ==
  /\ told'[<< kind, x[1], x[2] >>] = told[<< kind, x[1], x[2] >>]
  /\ Due(kind, x)' <=> Due(kind, x)
  /\ kind = "callback" /\ Peim!Matches(kind, x[1], x[2]) /\ Waits(kind, x) => Waits(kind, x)'

(* A pair whose notification has been called. *)
CalledNow(kind, x) ==
  /\ Listed(kind, x) /\ ~Due(kind, x)
  /\ x[2] \notin replaced => Due(kind, x)'
  /\ told'[<< kind, x[1], x[2] >>] = IF told[<< kind, x[1], x[2] >>] = 2 THEN 2
                                     ELSE told[<< kind, x[1], x[2] >>] + 1

LEMMA CountsKept ==
  ASSUME NEW P, NEW D, PpiInv(P, D), PeimConstants(P, D),
         PpiTypes(P, D)', FramesNest', WalksApart',
         ppis' = ppis, notifies' = notifies, replaced' = replaced,
         \A kind \in Kinds, x \in Pairs : Settled(kind, x) \/ CalledNow(kind, x)
  PROVE  PpiInv(P, D)'
  <1>1. ToldOnce /\ ToldAtAll /\ PpiTypes(P, D)
    BY DEF PpiInv
  <1>2. Pairs' = Pairs /\ Kinds' = Kinds /\ "callback" \in Kinds
    BY DEF Pairs, Kinds
  <1>3. \A kind \in Kinds, x \in Pairs :
          /\ Listed(kind, x)' <=> Listed(kind, x)
          /\ Peim!Matches(kind, x[1], x[2])' <=> Peim!Matches(kind, x[1], x[2])
    BY DEF Listed, Peim!Matches
  <1>4. ASSUME NEW kind \in Kinds, NEW x \in Pairs
        PROVE  told[<< kind, x[1], x[2] >>] \in 0 .. 2
    <2>1. << kind, x[1], x[2] >> \in Peim!Slots
      BY PairTypes DEF Peim!Slots, Peim!Kinds, Kinds
    <2>2. QED
      BY <1>1, <2>1 DEF PpiTypes
  <1>5. ToldOnce'
    <2>1. ASSUME NEW kind \in Kinds, NEW x \in Pairs
          PROVE  /\ ~Listed(kind, x)' => told'[<< kind, x[1], x[2] >>] = 0
                 /\ Listed(kind, x)' /\ x[2] \notin replaced' =>
                      told'[<< kind, x[1], x[2] >>] = IF Due(kind, x)' THEN 1 ELSE 0
      <3>1. /\ ~Listed(kind, x) => told[<< kind, x[1], x[2] >>] = 0
            /\ Listed(kind, x) /\ x[2] \notin replaced =>
                 told[<< kind, x[1], x[2] >>] = IF Due(kind, x) THEN 1 ELSE 0
        BY <1>1 DEF ToldOnce
      <3>2. CASE Settled(kind, x)
        BY <1>3, <3>1, <3>2 DEF Settled
      <3>3. CASE CalledNow(kind, x)
        BY <1>3, <3>1, <3>3 DEF CalledNow
      <3>4. QED
        BY <3>2, <3>3
    <2>2. QED
      BY <1>2, <2>1 DEF ToldOnce
  <1>6. ToldAtAll'
    <2>1. ASSUME NEW x \in Pairs, Listed("callback", x)', Peim!Matches("callback", x[1], x[2])'
          PROVE  told'[<< "callback", x[1], x[2] >>] >= 1 \/ Waits("callback", x)'
      <3>1. Listed("callback", x) /\ Peim!Matches("callback", x[1], x[2])
        BY <1>2, <1>3, <2>1
      <3>2. told[<< "callback", x[1], x[2] >>] >= 1 \/ Waits("callback", x)
        BY <1>1, <3>1 DEF ToldAtAll
      <3>3. CASE Settled("callback", x)
        BY <3>1, <3>2, <3>3 DEF Settled
      <3>4. CASE CalledNow("callback", x)
        <4>1. told[<< "callback", x[1], x[2] >>] \in 0 .. 2
          BY <1>2, <1>4
        <4>2. QED
          BY <3>4, <4>1 DEF CalledNow
      <3>5. QED
        BY <1>2, <3>3, <3>4
    <2>2. QED
      BY <1>2, <2>1 DEF ToldAtAll
  <1>7. QED
    BY <1>5, <1>6 DEF PpiInv

(* The frames below the one that runs. *)
LEMMA BelowFrames ==
  ASSUME NEW P, NEW D, PpiInv(P, D), stack # << >>
  PROVE  /\ Peim!Below \in Seq(Frames) /\ Len(Peim!Below) = Len(stack) - 1
         /\ \A i \in 1 .. Len(stack) - 1 : Peim!Below[i] = stack[i]
         /\ Len(stack) \in Calling /\ Len(stack) \in Nat \ {0} /\ Peim!Top = stack[Len(stack)]
  <1> PICK m : m = Len(stack) - 1
    OBVIOUS
  <1>1. stack \in Seq(Frames) /\ m \in Nat /\ m <= Len(stack) /\ Len(stack) = m + 1
    BY StackTypes DEF PpiInv, PpiTypes
  <1>2. SubSeq(stack, 1, m) \in Seq(Frames) /\ Len(SubSeq(stack, 1, m)) = m
        /\ \A i \in 1 .. m : SubSeq(stack, 1, m)[i] = stack[i]
    BY <1>1
  <1>3. Peim!Below = SubSeq(stack, 1, m)
    BY DEF Peim!Below
  <1>4. Len(stack) \in Calling /\ Len(stack) \in Nat \ {0} /\ Peim!Top = stack[Len(stack)]
    BY StackTypes DEF Peim!Top
  <1>5. QED
    BY <1>1, <1>2, <1>3, <1>4

(* NotificationReturns: the walk that called it goes on. *)
LEMMA ReturnKeeps ==
  ASSUME NEW P, NEW D, PpiInv(P, D), PeimConstants(P, D), Peim!NotificationReturns
  PROVE  PpiInv(P, D)'
  <1>1. /\ stack # << >> /\ Peim!Top.is = "notification" /\ stack' = Peim!Below
        /\ UNCHANGED << ppis, notifies, lastPpi, lastNotify, told, replaced >>
    BY DEF Peim!NotificationReturns, Peim!Running
  <1> PICK m : m = Len(stack)
    OBVIOUS
  <1>2. /\ stack' \in Seq(Frames) /\ Len(stack') = m - 1 /\ m \in Calling /\ m \in Nat \ {0}
        /\ \A i \in 1 .. m - 1 : stack'[i] = stack[i]
        /\ stack[m].is = "notification"
    BY <1>1, BelowFrames
  <1>3. m > 1 /\ stack[m - 1].is = "walk"
    BY <1>2 DEF PpiInv, FramesNest, FrameNests
  <1>4. /\ Calling = 1 .. m /\ Calling' = 1 .. m - 1
        /\ \A i \in Calling' : i \in Calling /\ stack'[i] = stack[i]
        /\ \A i \in Calling : i \in Calling' \/ i = m
    BY <1>2, StackTypes DEF Calling
  <1>5. \A kind : ~IsWalk(stack[m], kind)
    BY <1>2 DEF IsWalk
  <1>6. \A kind, x : Waits(kind, x)' <=> Waits(kind, x)
    BY <1>4, <1>5 DEF Waits
  <1>7. FarNotify' = FarNotify /\ FarPpi' = FarPpi
    <2>1. CASE m = 2
      BY <1>1, <1>2, <1>3, <2>1 DEF FarNotify, FarPpi, Dispatching
    <2>2. CASE m # 2
      <3>1. m - 1 >= 2 /\ m >= 2 /\ stack'[1] = stack[1]
        BY <1>2, <1>3, <2>2
      <3>2. QED
        BY <1>1, <1>2, <3>1 DEF FarNotify, FarPpi, Dispatching
    <2>3. QED
      BY <2>1, <2>2
  <1>8. PpiTypes(P, D)'
    BY <1>1, <1>2 DEF PpiInv, PpiTypes, Peim!Slots
  <1>9. FramesNest'
    <2>1. ASSUME NEW i \in Calling' PROVE FrameNests(i)'
      <3>1. FrameNests(i) /\ i \in 1 .. m - 1 /\ i \in Nat
        BY <1>4 DEF PpiInv, FramesNest
      <3>2. /\ stack'[i] = stack[i] /\ (i > 1 => stack'[i - 1] = stack[i - 1])
            /\ (i = 2 => stack'[1] = stack[1] /\ stack'[2] = stack[2])
        BY <1>2, <3>1
      <3>3. i = 1 \/ i > 1
        BY <3>1
      <3>4. QED
        BY <1>1, <3>1, <3>2, <3>3 DEF FrameNests, DispatchWalk
    <2>2. QED
      BY <2>1 DEF FramesNest
  <1>10. WalksApart'
    BY <1>1, <1>4 DEF PpiInv, WalksApart
  <1>11. ASSUME NEW kind \in Kinds, NEW x \in Pairs PROVE Settled(kind, x)
    <2>1. Due(kind, x)' <=> Due(kind, x)
      BY <1>1, <1>6, <1>7 DEF Due, Reached, Peim!Matches
    <2>2. QED
      BY <1>1, <1>6, <2>1 DEF Settled
  <1>12. QED
    BY <1>1, <1>8, <1>9, <1>10, <1>11, CountsKept
(* ProcessNotify calls the least of the pairs that match, by rows. *)
LEMMA FirstPending ==
  ASSUME NEW m \in Nat, NEW k \in Nat, NEW S \in SUBSET ((1 .. m) \X (1 .. k)), S # {}
  PROVE  LET x == Peim!FirstOf(S) IN
         x \in S /\ \A y \in S : x[1] < y[1] \/ (x[1] = y[1] /\ x[2] <= y[2])
  <1> DEFINE rows == { i \in 1 .. m : \E y \in S : y[1] = i }
             row  == Min(rows)
             cols == { j \in 1 .. k : << row, j >> \in S }
             col  == Min(cols)
  <1>1. \A y \in S : y = << y[1], y[2] >> /\ y[1] \in 1 .. m /\ y[2] \in 1 .. k
    OBVIOUS
  <1>2. rows \in SUBSET (1 .. m) /\ rows # {}
    BY <1>1
  <1>3. row \in rows /\ \A i \in rows : row <= i
    <2> HIDE DEF rows
    <2>1. QED
      BY <1>2, LeastIndex, Zenon
  <1> HIDE DEF row
  <1>4. PICK z \in S : z[1] = row
    BY <1>3
  <1>5. cols \in SUBSET (1 .. k) /\ cols # {}
    BY <1>1, <1>4
  <1>6. col \in cols /\ \A j \in cols : col <= j
    <2> HIDE DEF cols
    <2>1. QED
      BY <1>5, LeastIndex, Zenon
  <1> HIDE DEF col
  <1> DEFINE x == << row, col >>
  <1>7. x \in S /\ x[1] = row /\ x[2] = col
    BY <1>6
  <1>8. ASSUME NEW y \in S
        PROVE  x[1] < y[1] \/ (x[1] = y[1] /\ x[2] <= y[2])
    <2>1. y[1] \in rows /\ y[1] \in 1 .. m /\ row \in 1 .. m
      BY <1>1, <1>3
    <2>2. row <= y[1]
      BY <1>3, <2>1
    <2>3. CASE row = y[1]
      <3>1. y[2] \in cols
        BY <1>1, <2>3
      <3>2. QED
        BY <1>6, <1>7, <2>3, <3>1
    <2>4. CASE row # y[1]
      BY <1>7, <2>1, <2>2, <2>4
    <2>5. QED
      BY <2>3, <2>4
  <1> HIDE DEF x
  <1>9. \E u \in S : \A y \in S : u[1] < y[1] \/ (u[1] = y[1] /\ u[2] <= y[2])
    BY <1>7, <1>8
  <1>10. QED
    BY <1>9, Zenon DEF Peim!FirstOf

(* What is pending is ahead, and the rest of what is ahead does not match. *)
LEMMA PendingAhead ==
  ASSUME NEW f
  PROVE  Peim!Pending(f) = { x \in Ahead(f) : Peim!Matches(f.kind, x[1], x[2]) }
  BY DEF Peim!Pending, Ahead, Peim!Matches

(* CallNotification: the pair whose notification is called is no longer     *)
(* ahead, and those skipped do not match.                                   *)
LEMMA CallKeeps ==
  ASSUME NEW P, NEW D, PpiInv(P, D), PeimConstants(P, D), Peim!CallNotification
  PROVE  PpiInv(P, D)'
  <1> DEFINE f == Peim!Top
  <1>1. PICK m, x0, g :
          /\ m = Len(stack) /\ x0 = Peim!FirstOf(Peim!Pending(f))
          /\ g = [f EXCEPT !.n = x0[1], !.p = x0[2] + 1]
          /\ stack # << >> /\ f.is = "walk" /\ Peim!Pending(f) # {}
          /\ stack' = Peim!Below \o << g, [is |-> "notification"] >>
          /\ told' = [told EXCEPT ![<< f.kind, x0[1], x0[2] >>] = IF @ = 2 THEN 2 ELSE @ + 1]
          /\ UNCHANGED << ppis, notifies, lastPpi, lastNotify, replaced >>
    BY DEF Peim!CallNotification, Peim!Running
  <1>2. PICK kind : kind = f.kind
    OBVIOUS
  <1>3. /\ Peim!Below \in Seq(Frames) /\ Len(Peim!Below) = m - 1
        /\ \A i \in 1 .. m - 1 : Peim!Below[i] = stack[i]
        /\ m \in Calling /\ m \in Nat \ {0} /\ f = stack[m] /\ Calling = 1 .. m
        /\ f \in Frames
    BY <1>1, BelowFrames, StackTypes
  <1>4. /\ f \in WalkFrame /\ kind \in Kinds /\ f.firstP \in Nat \ {0} /\ f.lastP \in Nat
        /\ f.lastN \in Nat /\ f.n \in Nat \ {0} /\ f.p \in Nat
        /\ IsWalk(f, kind) /\ IsWalk(stack[m], kind)
    BY <1>1, <1>2, <1>3, FrameTypes DEF IsWalk
  <1> HIDE DEF f
  <1>5. /\ x0 \in Ahead(f) /\ Peim!Matches(kind, x0[1], x0[2])
        /\ \A y \in Ahead(f) : Peim!Matches(kind, y[1], y[2]) =>
             x0[1] < y[1] \/ (x0[1] = y[1] /\ x0[2] <= y[2])
    <2>1. PICK S : S = Peim!Pending(f)
      OBVIOUS
    <2>2. Ahead(f) \subseteq (1 .. f.lastN) \X (1 .. f.lastP)
      BY <1>4 DEF Ahead
    <2>3. S \in SUBSET ((1 .. f.lastN) \X (1 .. f.lastP)) /\ S # {}
      BY <1>1, <2>1, <2>2, PendingAhead
    <2>4. x0 = Peim!FirstOf(S)
      BY <1>1, <2>1
    <2>5. x0 \in S /\ \A y \in S : x0[1] < y[1] \/ (x0[1] = y[1] /\ x0[2] <= y[2])
      <3>1. PICK rows, cols : rows = f.lastN /\ cols = f.lastP
        OBVIOUS
      <3>2. rows \in Nat /\ cols \in Nat /\ S \in SUBSET ((1 .. rows) \X (1 .. cols)) /\ S # {}
        BY <1>4, <2>3, <3>1
      <3>3. QED
        BY ONLY <2>4, <3>2, FirstPending
    <2>6. QED
      BY <1>2, <2>1, <2>5, PendingAhead
  <1>6. x0 \in Pairs /\ Listed(kind, x0) /\ Reached(kind, x0)
    BY <1>3, <1>4, <1>5, AheadListed
  <1>7. /\ x0[1] \in Nat \ {0} /\ x0[2] \in Nat \ {0} /\ x0 = << x0[1], x0[2] >>
        /\ x0[1] \in f.n .. f.lastN /\ x0[2] \in f.firstP .. f.lastP
    BY <1>5, <1>6, PairTypes DEF Ahead
  <1>8. /\ g \in WalkFrame /\ g.is = "walk" /\ g.kind = kind /\ g.firstP = f.firstP
        /\ g.lastP = f.lastP /\ g.lastN = f.lastN /\ g.n = x0[1] /\ g.p = x0[2] + 1
    <2>1. f = [ is |-> "walk", kind |-> f.kind, firstP |-> f.firstP, lastP |-> f.lastP,
                lastN |-> f.lastN, n |-> f.n, p |-> f.p ]
      BY <1>4 DEF WalkFrame
    <2>2. g = [ is |-> "walk", kind |-> f.kind, firstP |-> f.firstP, lastP |-> f.lastP,
                lastN |-> f.lastN, n |-> x0[1], p |-> x0[2] + 1 ]
      BY <1>1, <2>1
    <2>3. x0[2] + 1 \in Nat
      BY <1>7
    <2>4. QED
      BY <1>2, <1>4, <1>7, <2>2, <2>3 DEF WalkFrame
  <1>9. ASSUME NEW y, y \in Ahead(f)
        PROVE  y \in Ahead(g) <=> (x0[1] < y[1] \/ (x0[1] = y[1] /\ x0[2] < y[2]))
    <2>1. /\ y \in (f.n .. f.lastN) \X (f.firstP .. f.lastP)
          /\ y = << y[1], y[2] >> /\ y[1] \in f.n .. f.lastN /\ y[2] \in f.firstP .. f.lastP
      BY <1>9 DEF Ahead
    <2>2. y \in Ahead(g) <=> y[1] \in x0[1] .. f.lastN /\ (y[1] = x0[1] => y[2] >= x0[2] + 1)
      BY <1>8, <2>1 DEF Ahead
    <2>3. QED
      BY <1>4, <1>7, <2>1, <2>2
  <1>10. Ahead(g) \subseteq Ahead(f)
    <2>1. SUFFICES ASSUME NEW y \in Ahead(g) PROVE y \in Ahead(f)
      OBVIOUS
    <2>2. /\ y = << y[1], y[2] >> /\ y[1] \in x0[1] .. f.lastN /\ y[2] \in f.firstP .. f.lastP
          /\ y[1] = x0[1] => y[2] >= x0[2] + 1
      BY <1>8 DEF Ahead
    <2>3. y[1] \in f.n .. f.lastN
      BY <1>4, <1>7, <2>2
    <2>4. y[1] = f.n => y[2] >= f.p
      <3>1. y[1] = f.n => x0[1] = f.n
        BY <1>4, <1>7, <2>2
      <3>2. x0[1] = f.n => x0[2] >= f.p
        BY <1>5 DEF Ahead
      <3>3. QED
        BY <1>4, <1>7, <2>2, <3>1, <3>2
    <2>5. QED
      BY <2>2, <2>3, <2>4 DEF Ahead
  <1>11. x0 \notin Ahead(g)
    BY <1>5, <1>7, <1>9
  <1>12. ASSUME NEW y, y \in Ahead(f), y \notin Ahead(g), Peim!Matches(kind, y[1], y[2])
         PROVE  y = x0
    <2>1. y = << y[1], y[2] >> /\ y[1] \in Nat /\ y[2] \in Nat
      BY <1>4, <1>12 DEF Ahead
    <2>2. y[1] = x0[1] /\ y[2] = x0[2]
      BY <1>5, <1>7, <1>9, <1>12, <2>1
    <2>3. QED
      BY <1>7, <2>1, <2>2
  <1>13. /\ stack' \in Seq(Frames) /\ Len(stack') = m + 1 /\ Calling' = 1 .. m + 1
         /\ \A i \in 1 .. m - 1 : stack'[i] = stack[i]
         /\ stack'[m] = g /\ stack'[m + 1] = [is |-> "notification"]
    <2>1. PICK below : below = Peim!Below
      OBVIOUS
    <2>2. PICK note : note = [is |-> "notification"]
      OBVIOUS
    <2>3. g \in Frames /\ note \in Frames
      BY <1>8, <2>2 DEF Frames, NotificationFrame
    <2>4. below \in Seq(Frames) /\ Len(below) = m - 1
      BY <1>3, <2>1
    <2>5. stack' = below \o << g, note >>
      BY <1>1, <2>1, <2>2
    <2>6. /\ below \o << g, note >> \in Seq(Frames) /\ Len(below \o << g, note >>) = (m - 1) + 2
          /\ \A i \in 1 .. m - 1 : (below \o << g, note >>)[i] = below[i]
          /\ (below \o << g, note >>)[(m - 1) + 1] = g
          /\ (below \o << g, note >>)[(m - 1) + 2] = note
      BY <1>3, <2>3, <2>4
    <2>7. (m - 1) + 1 = m /\ (m - 1) + 2 = m + 1
      BY <1>3
    <2>8. QED
      BY <1>3, <2>1, <2>2, <2>5, <2>6, <2>7 DEF Calling
  <1>14. /\ \A i \in Calling' : i \in 1 .. m - 1 \/ i = m \/ i = m + 1
         /\ \A i \in Calling : i \in 1 .. m - 1 \/ i = m
         /\ \A i \in 1 .. m - 1 : i \in Calling /\ i \in Calling' /\ i # m /\ i \in Nat
         /\ m \in Calling' /\ m + 1 \in Calling'
    BY <1>3, <1>13
  <1>15. \A k : ~IsWalk(stack'[m + 1], k)
    BY <1>13 DEF IsWalk
  <1>16. \A k : IsWalk(g, k) <=> IsWalk(stack[m], k)
    BY <1>4, <1>8 DEF IsWalk
  <1>17. FarNotify' = FarNotify /\ FarPpi' = FarPpi
    <2>1. CASE m = 1
      <3>1. stack'[1].is = "walk" /\ Len(stack) = 1
        BY <1>1, <1>8, <1>13, <2>1
      <3>2. \A loop : ~Dispatching(loop) /\ ~Dispatching(loop)'
        BY <3>1 DEF Dispatching
      <3>3. QED
        BY <1>1, <3>2 DEF FarNotify, FarPpi
    <2>2. CASE m # 1
      <3>1. m >= 2 /\ m + 1 >= 2 /\ stack'[1] = stack[1]
        BY <1>3, <1>13, <2>2
      <3>2. QED
        BY <1>1, <1>13, <3>1 DEF FarNotify, FarPpi, Dispatching
    <2>3. QED
      BY <2>1, <2>2
  <1>18. PpiTypes(P, D)'
    <2>1. PpiTypes(P, D)
      BY DEF PpiInv
    <2>2. << kind, x0[1], x0[2] >> \in Peim!Slots
      BY <1>4, <1>6, PairTypes DEF Peim!Slots, Peim!Kinds, Kinds
    <2>3. told[<< kind, x0[1], x0[2] >>] \in 0 .. 2
      BY <2>1, <2>2 DEF PpiTypes
    <2>4. told' \in [Peim!Slots -> 0 .. 2]
      BY <1>1, <1>2, <2>1, <2>2, <2>3 DEF PpiTypes
    <2>5. Peim!Slots' = Peim!Slots
      BY DEF Peim!Slots
    <2>6. QED
      BY <1>1, <1>13, <2>1, <2>4, <2>5 DEF PpiTypes
  <1>19. FramesNest'
    <2>1. ASSUME NEW i \in 1 .. m - 1 PROVE FrameNests(i)'
      <3>1. FrameNests(i) /\ i \in Nat /\ i \in 1 .. m - 1
        BY <1>14 DEF PpiInv, FramesNest
      <3>2. /\ stack'[i] = stack[i] /\ (i > 1 => stack'[i - 1] = stack[i - 1])
            /\ (i = 2 => stack'[1] = stack[1] /\ stack'[2] = stack[2])
        BY <1>13, <3>1, <1>3
      <3>3. i = 1 \/ i > 1
        BY <3>1
      <3>4. stack'[i].is = "walk" /\ stack'[i].kind = "dispatch" =>
              i = 2 /\ stack'[1].is = "dispatcher" /\ DispatchWalk(stack[2], stack[1])'
        BY <1>1, <3>1, <3>2 DEF FrameNests, DispatchWalk
      <3>5. QED
        BY <1>1, <3>1, <3>2, <3>3, <3>4 DEF FrameNests
    <2>2. FrameNests(m)'
      <3>1. FrameNests(m) /\ stack[m].is = "walk" /\ stack[m].kind = kind
        BY <1>1, <1>2, <1>3 DEF PpiInv, FramesNest
      <3>2. (m > 1 => stack'[m - 1] = stack[m - 1]) /\ (m = 1 \/ m > 1)
            /\ (m = 2 => stack'[1] = stack[1])
        BY <1>3, <1>13
      <3>3. g.lastP <= Len(ppis') /\ g.lastN <= Len(notifies'[kind])
        BY <1>1, <1>3, <1>8, <3>1 DEF FrameNests
      <3>4. kind = "callback" => m = 1 \/ stack'[m - 1].is = "notification"
        BY <3>1, <3>2 DEF FrameNests
      <3>5. kind = "dispatch" =>
              m = 2 /\ stack'[1].is = "dispatcher" /\ DispatchWalk(g, stack[1])
        BY <1>3, <1>8, <3>1, <3>2 DEF FrameNests, DispatchWalk
      <3>6. kind = "dispatch" => DispatchWalk(stack[2], stack[1])'
        <4>1. SUFFICES ASSUME kind = "dispatch" PROVE DispatchWalk(stack[2], stack[1])'
          OBVIOUS
        <4>2. stack'[1] = stack[1] /\ stack'[2] = g /\ DispatchWalk(g, stack[1])
          BY <1>13, <3>2, <3>5, <4>1
        <4>3. QED
          BY <1>1, <4>2 DEF DispatchWalk
      <3>7. QED
        BY <1>8, <1>13, <3>3, <3>4, <3>5, <3>6 DEF FrameNests
    <2>3. FrameNests(m + 1)'
      <3>1. (m + 1) - 1 = m /\ m + 1 > 1
        BY <1>3
      <3>2. QED
        BY <1>8, <1>13, <3>1 DEF FrameNests
    <2>4. QED
      BY <1>14, <2>1, <2>2, <2>3 DEF FramesNest
  <1>20. WalksApart'
    <2>1. SUFFICES
            ASSUME NEW k \in Kinds, NEW i \in Calling', NEW j \in Calling',
                   IsWalk(stack'[i], k), IsWalk(stack'[j], k),
                   NEW x, x \in Ahead(stack'[i]), x \in Ahead(stack'[j]), x[2] \notin replaced'
            PROVE  i = j
      BY DEF WalksApart, IsWalk, Ahead
    <2>2. ASSUME NEW a \in Calling', IsWalk(stack'[a], k), x \in Ahead(stack'[a])
          PROVE  a \in Calling /\ IsWalk(stack[a], k) /\ x \in Ahead(stack[a])
      BY <1>3, <1>10, <1>13, <1>14, <1>15, <1>16, <2>2
    <2>3. x[2] \notin replaced
      BY <1>1, <2>1
    <2>4. /\ i \in Calling /\ IsWalk(stack[i], k) /\ x \in Ahead(stack[i])
          /\ j \in Calling /\ IsWalk(stack[j], k) /\ x \in Ahead(stack[j])
      BY <2>1, <2>2
    <2>5. QED
      BY <2>3, <2>4 DEF PpiInv, WalksApart
  <1>21. ASSUME NEW k \in Kinds, NEW x
         PROVE  /\ k # kind => (Waits(k, x)' <=> Waits(k, x))
                /\ ~(x \in Ahead(f) /\ x \notin Ahead(g)) => (Waits(k, x)' <=> Waits(k, x))
    <2>1. IsWalk(stack[m], k) <=> k = kind
      BY <1>4 DEF IsWalk
    <2>2. ASSUME Waits(k, x)' PROVE Waits(k, x)
      BY <1>3, <1>10, <1>13, <1>14, <1>15, <1>16, <2>2 DEF Waits
    <2>3. ASSUME Waits(k, x), k # kind \/ x \notin Ahead(f) \/ x \in Ahead(g)
          PROVE  Waits(k, x)'
      <3>1. PICK i \in Calling : IsWalk(stack[i], k) /\ x \in Ahead(stack[i])
        BY <2>3 DEF Waits
      <3>2. CASE i = m
        BY <1>3, <1>13, <1>14, <1>16, <2>1, <2>3, <3>1, <3>2 DEF Waits
      <3>3. CASE i \in 1 .. m - 1
        BY <1>13, <1>14, <3>1, <3>3 DEF Waits
      <3>4. QED
        BY <1>14, <3>2, <3>3
    <2>4. QED
      BY <2>2, <2>3
  <1>22. ASSUME NEW k \in Kinds, NEW x \in Pairs, << k, x >> # << kind, x0 >>
         PROVE  Settled(k, x)
    <2>1. << k, x[1], x[2] >> # << kind, x0[1], x0[2] >>
      BY <1>6, <1>22, PairTypes
    <2>2. told'[<< k, x[1], x[2] >>] = told[<< k, x[1], x[2] >>]
      BY <1>1, <1>2, <2>1 DEF PpiInv, PpiTypes
    <2>3. Peim!Matches(k, x[1], x[2]) => (Waits(k, x)' <=> Waits(k, x))
      BY <1>12, <1>21, <1>22
    <2>4. Due(k, x)' <=> Due(k, x)
      BY <1>1, <1>17, <2>3 DEF Due, Reached, Peim!Matches
    <2>5. QED
      BY <2>2, <2>3, <2>4 DEF Settled
  <1>23. CalledNow(kind, x0)
    <2>1. Waits(kind, x0)
      BY <1>3, <1>4, <1>5 DEF Waits
    <2>2. ASSUME x0[2] \notin replaced PROVE Due(kind, x0)'
      <3>1. ~Waits(kind, x0)'
        <4>1. SUFFICES ASSUME NEW i \in Calling', IsWalk(stack'[i], kind), x0 \in Ahead(stack'[i])
                       PROVE  FALSE
          BY DEF Waits
        <4>2. i \in 1 .. m - 1
          BY <1>11, <1>13, <1>14, <1>15, <4>1
        <4>3. IsWalk(stack[i], kind) /\ x0 \in Ahead(stack[i]) /\ i \in Calling /\ i # m
          BY <1>13, <1>14, <4>1, <4>2
        <4>4. i = m
          BY <1>3, <1>4, <1>5, <2>2, <4>3 DEF PpiInv, WalksApart
        <4>5. QED
          BY <4>3, <4>4
      <3>2. Reached(kind, x0)' /\ Peim!Matches(kind, x0[1], x0[2])'
        BY <1>1, <1>5, <1>6, <1>17 DEF Reached, Peim!Matches
      <3>3. QED
        BY <3>1, <3>2 DEF Due
    <2>3. << kind, x0[1], x0[2] >> \in Peim!Slots
      BY <1>4, <1>6, PairTypes DEF Peim!Slots, Peim!Kinds, Kinds
    <2>4. told'[<< kind, x0[1], x0[2] >>] = IF told[<< kind, x0[1], x0[2] >>] = 2 THEN 2
                                            ELSE told[<< kind, x0[1], x0[2] >>] + 1
      BY <1>1, <1>2, <2>3 DEF PpiInv, PpiTypes
    <2>5. QED
      BY <1>6, <2>1, <2>2, <2>4 DEF CalledNow, Due
  <1>24. \A k \in Kinds, x \in Pairs : Settled(k, x) \/ CalledNow(k, x)
    BY <1>22, <1>23
  <1>25. QED
    BY <1>1, <1>18, <1>19, <1>20, <1>24, CountsKept
(* WalkEnds: nothing that matches was ahead, and the dispatcher notes how   *)
(* far it got.                                                              *)
LEMMA EndKeeps ==
  ASSUME NEW P, NEW D, PpiInv(P, D), PeimConstants(P, D), Peim!WalkEnds
  PROVE  PpiInv(P, D)'
  <1> DEFINE f == Peim!Top
             caller == IF Peim!Below = << >> THEN [is |-> "module"]
                       ELSE Peim!Below[Len(Peim!Below)]
  <1> PICK m : m = Len(stack)
    OBVIOUS
  <1>1. /\ stack # << >> /\ f.is = "walk" /\ Peim!Pending(f) = {} /\ stack' = Peim!Below
        /\ lastNotify' = IF caller.is = "dispatcher" /\ caller.loop = "notifies"
                           THEN caller.count ELSE lastNotify
        /\ lastPpi' = IF caller.is = "dispatcher" /\ caller.loop = "ppis"
                        THEN caller.count ELSE lastPpi
        /\ UNCHANGED << ppis, notifies, told, replaced >>
    BY DEF Peim!WalkEnds, Peim!Running
  <1>2. PICK kind : kind = f.kind
    OBVIOUS
  <1>3. /\ stack' \in Seq(Frames) /\ Len(stack') = m - 1
        /\ \A i \in 1 .. m - 1 : stack'[i] = stack[i]
        /\ m \in Calling /\ m \in Nat \ {0} /\ f = stack[m] /\ Calling = 1 .. m
        /\ f \in Frames /\ Len(Peim!Below) = m - 1
        /\ m > 1 => Peim!Below # << >> /\ Peim!Below[m - 1] = stack[m - 1]
    <2>1. /\ Peim!Below \in Seq(Frames) /\ Len(Peim!Below) = m - 1
          /\ \A i \in 1 .. m - 1 : Peim!Below[i] = stack[i]
          /\ m \in Calling /\ m \in Nat \ {0} /\ f = stack[m]
      BY <1>1, BelowFrames
    <2>2. m > 1 => m - 1 \in 1 .. m - 1 /\ Peim!Below # << >>
      <3>1. PICK below : below = Peim!Below
        OBVIOUS
      <3>2. below \in Seq(Frames) /\ Len(below) = m - 1
        BY <2>1, <3>1
      <3>3. m > 1 => m - 1 \in 1 .. m - 1 /\ below # << >>
        BY <2>1, <3>2
      <3>4. QED
        BY <3>1, <3>3
    <2>3. QED
      BY <1>1, <2>1, <2>2, StackTypes
  <1>4. caller = IF m = 1 THEN [is |-> "module"] ELSE stack[m - 1]
    <2>1. m = 1 => Peim!Below = << >>
      BY <1>1, <1>3
    <2>2. QED
      BY <1>3, <2>1
  <1>5. f \in WalkFrame /\ kind \in Kinds /\ IsWalk(stack[m], kind)
    BY <1>1, <1>2, <1>3, FrameTypes DEF IsWalk
  <1>6. /\ kind = "callback" => m = 1 \/ stack[m - 1].is = "notification"
        /\ kind = "dispatch" => m = 2 /\ stack[1].is = "dispatcher"
    <2>1. FrameNests(m) /\ stack[m].is = "walk" /\ stack[m].kind = kind
      BY <1>1, <1>2, <1>3 DEF PpiInv, FramesNest
    <2>2. QED
      BY <2>1 DEF FrameNests
  <1> HIDE DEF f, caller
  <1>7. \A x \in Ahead(stack[m]) : ~Peim!Matches(kind, x[1], x[2])
    BY <1>1, <1>2, <1>3, PendingAhead
  <1>8. /\ Calling' = 1 .. m - 1
        /\ \A i \in Calling' : i \in Calling /\ stack'[i] = stack[i]
        /\ \A i \in Calling : i \in Calling' \/ i = m
    BY <1>3 DEF Calling
  <1>9. \A k \in Kinds, x \in Pairs :
          Peim!Matches(k, x[1], x[2]) => (Waits(k, x)' <=> Waits(k, x))
    <2>1. SUFFICES ASSUME NEW k \in Kinds, NEW x \in Pairs, Peim!Matches(k, x[1], x[2])
                   PROVE  Waits(k, x)' <=> Waits(k, x)
      OBVIOUS
    <2>2. ~(IsWalk(stack[m], k) /\ x \in Ahead(stack[m]))
      BY <1>5, <1>7, <2>1 DEF IsWalk
    <2>3. QED
      BY <1>8, <2>2 DEF Waits
  <1>10. FarNotify' = FarNotify /\ FarPpi' = FarPpi
    <2>1. CASE kind = "callback"
      <3>1. caller.is # "dispatcher"
        BY <1>4, <1>6, <2>1
      <3>2. lastNotify' = lastNotify /\ lastPpi' = lastPpi
        BY <1>1, <3>1
      <3>3. m = 1 \/ m >= 3
        <4>1. CASE m = 2
          <5>1. stack[1].is = "notification" /\ 1 \in Calling
            BY <1>3, <1>6, <2>1, <4>1
          <5>2. QED
            BY <5>1 DEF PpiInv, FramesNest, FrameNests
        <4>2. QED
          BY <1>3, <4>1
      <3>4. CASE m = 1
        BY <1>3, <3>2, <3>4 DEF FarNotify, FarPpi, Dispatching
      <3>5. CASE m >= 3
        <4>1. m >= 2 /\ m - 1 >= 2 /\ stack'[1] = stack[1]
          BY <1>3, <3>5
        <4>2. QED
          BY <1>3, <3>2, <4>1 DEF FarNotify, FarPpi, Dispatching
      <3>6. QED
        BY <3>3, <3>4, <3>5
    <2>2. CASE kind = "dispatch"
      <3>1. m = 2 /\ stack[1].is = "dispatcher" /\ caller = stack[1] /\ Len(stack') = 1
        <4>1. m = 2 /\ stack[1].is = "dispatcher"
          BY <1>6, <2>2
        <4>2. m - 1 = 1 /\ m # 1
          BY <4>1
        <4>3. QED
          BY <1>3, <1>4, <4>1, <4>2
      <3>2. FarNotify' = lastNotify' /\ FarPpi' = lastPpi'
        BY <3>1 DEF FarNotify, FarPpi, Dispatching
      <3>3. FarNotify = lastNotify' /\ FarPpi = lastPpi'
        BY <1>1, <3>1 DEF FarNotify, FarPpi, Dispatching
      <3>4. QED
        BY <3>2, <3>3
    <2>3. QED
      BY <1>5, <2>1, <2>2 DEF Kinds
  <1>11. /\ lastNotify' \in 0 .. Len(notifies["dispatch"]) /\ lastPpi' \in 0 .. Len(ppis)
         /\ kind = "callback" => lastNotify' = lastNotify /\ lastPpi' = lastPpi
    <2>1. PpiTypes(P, D)
      BY DEF PpiInv
    <2>2. CASE kind = "callback"
      <3>1. caller.is # "dispatcher"
        BY <1>4, <1>6, <2>2
      <3>2. QED
        BY <1>1, <2>1, <3>1 DEF PpiTypes
    <2>3. CASE kind = "dispatch"
      <3>1. m = 2 /\ stack[1].is = "dispatcher" /\ caller = stack[1] /\ 1 \in Calling
        <4>1. m = 2 /\ stack[1].is = "dispatcher"
          BY <1>6, <2>3
        <4>2. m - 1 = 1 /\ m # 1 /\ 1 \in 1 .. m
          BY <4>1
        <4>3. QED
          BY <1>3, <1>4, <4>1, <4>2
      <3>2. /\ stack[1].count \in Nat /\ stack[1].loop \in {"notifies", "ppis"}
            /\ stack[1].count <= IF stack[1].loop = "notifies" THEN Len(notifies["dispatch"])
                                 ELSE Len(ppis)
        BY <3>1, StackTypes, FrameTypes DEF PpiInv, FramesNest, FrameNests
      <3>3. QED
        BY <1>1, <2>1, <2>3, <3>1, <3>2, StackTypes DEF PpiTypes
    <2>4. QED
      BY <1>5, <2>2, <2>3 DEF Kinds
  <1>12. PpiTypes(P, D)'
    BY <1>1, <1>3, <1>11 DEF PpiInv, PpiTypes, Peim!Slots
  <1>13. FramesNest'
    <2>1. ASSUME NEW i \in Calling' PROVE FrameNests(i)'
      <3>1. FrameNests(i) /\ i \in 1 .. m - 1 /\ i \in Nat
        BY <1>8 DEF PpiInv, FramesNest
      <3>2. /\ stack'[i] = stack[i] /\ (i > 1 => stack'[i - 1] = stack[i - 1])
            /\ (i = 2 => stack'[1] = stack[1] /\ stack'[2] = stack[2])
        <4>1. /\ \A j \in 1 .. m - 1 : stack'[j] = stack[j]
              /\ m \in Nat
          BY <1>3
        <4>2. i > 1 => i - 1 \in 1 .. m - 1 /\ 1 \in 1 .. m - 1
          BY ONLY <3>1, <4>1
        <4>3. QED
          BY ONLY <3>1, <4>1, <4>2
      <3>3. i = 1 \/ i > 1
        BY <3>1
      <3>4. stack[i].is = "walk" /\ stack[i].kind = "dispatch" =>
              i = 2 /\ lastNotify' = lastNotify /\ lastPpi' = lastPpi
        <4>1. SUFFICES ASSUME stack[i].is = "walk" /\ stack[i].kind = "dispatch"
                       PROVE  i = 2 /\ lastNotify' = lastNotify /\ lastPpi' = lastPpi
          OBVIOUS
        <4>2. i = 2
          BY <3>1, <4>1 DEF FrameNests
        <4>3. m # 2
          BY <3>1, <4>2
        <4>4. QED
          BY <1>5, <1>6, <1>11, <4>2, <4>3 DEF Kinds
      <3>5. QED
        BY <1>1, <3>1, <3>2, <3>3, <3>4 DEF FrameNests, DispatchWalk
    <2>2. QED
      BY <2>1 DEF FramesNest
  <1>14. WalksApart'
    BY <1>1, <1>8 DEF PpiInv, WalksApart
  <1>15. ASSUME NEW k \in Kinds, NEW x \in Pairs PROVE Settled(k, x)
    <2>1. Due(k, x)' <=> Due(k, x)
      BY <1>1, <1>9, <1>10 DEF Due, Reached, Peim!Matches
    <2>2. QED
      BY <1>1, <1>9, <2>1 DEF Settled
  <1>16. QED
    BY <1>1, <1>12, <1>13, <1>14, <1>15, CountsKept

-----------------------------------------------------------------------------
(* Steps of the dispatcher.                                                 *)

(* A dispatcher runs alone. *)
LEMMA DispatcherAlone ==
  ASSUME NEW P, NEW D, PpiInv(P, D), Peim!Running("dispatcher")
  PROVE  /\ Len(stack) = 1 /\ Peim!Top = stack[1] /\ stack[1].is = "dispatcher"
         /\ FarNotify = lastNotify /\ FarPpi = lastPpi
         /\ \A kind, x : ~Waits(kind, x)
  <1>1. Len(stack) \in Calling /\ stack[Len(stack)].is = "dispatcher" /\ Peim!Top = stack[Len(stack)]
    BY StackTypes DEF Peim!Running, Peim!Top
  <1>2. Len(stack) = 1
    BY <1>1 DEF PpiInv, FramesNest, FrameNests
  <1>3. \A i \in Calling : i = 1
    BY <1>2, StackTypes
  <1>4. \A kind, x : ~Waits(kind, x)
    BY <1>1, <1>2, <1>3 DEF Waits, IsWalk
  <1>5. QED
    BY <1>1, <1>2, <1>4 DEF FarNotify, FarPpi, Dispatching

(* The dispatcher begins, or returns: no walk runs before or after. *)
LEMMA DispatcherKeeps ==
  ASSUME NEW P, NEW D, PpiInv(P, D), PeimConstants(P, D),
         stack = << >> \/ Peim!Running("dispatcher"),
         stack' = << >> \/ stack' = << Peim!Dispatcher("notifies", 0) >>,
         UNCHANGED << ppis, notifies, lastPpi, lastNotify, told, replaced >>
  PROVE  PpiInv(P, D)'
  <1>1. FarNotify = lastNotify /\ FarPpi = lastPpi /\ \A kind, x : ~Waits(kind, x)
    <2>1. CASE stack = << >>
      BY <2>1 DEF FarNotify, FarPpi, Dispatching, Waits, Calling
    <2>2. QED
      BY <2>1, DispatcherAlone
  <1>2. PICK d : d = Peim!Dispatcher("notifies", 0)
    OBVIOUS
  <1>3. d \in Frames /\ d.is = "dispatcher" /\ d.loop = "notifies" /\ d.count = 0
    BY <1>2 DEF Peim!Dispatcher, Frames, DispatcherFrame
  <1>4. /\ stack' \in Seq(Frames) /\ Len(stack') <= 1 /\ Len(stack') \in Nat
        /\ \A i \in Calling' : i = 1 /\ stack'[i] = d
    <2>1. CASE stack' = << >>
      BY <2>1 DEF Calling
    <2>2. CASE stack' = << d >>
      BY <1>3, <2>2 DEF Calling
    <2>3. QED
      BY <1>2, <2>1, <2>2
  <1>5. FarNotify' = lastNotify /\ FarPpi' = lastPpi /\ \A kind, x : ~Waits(kind, x)'
    <2>1. ~(Len(stack') >= 2)
      BY <1>4
    <2>2. QED
      BY <1>3, <1>4, <2>1 DEF FarNotify, FarPpi, Dispatching, Waits, IsWalk
  <1>6. PpiTypes(P, D)'
    BY <1>4 DEF PpiInv, PpiTypes, Peim!Slots
  <1>7. FramesNest'
    BY <1>3, <1>4, StackTypes DEF FramesNest, FrameNests
  <1>8. WalksApart'
    BY <1>3, <1>4 DEF WalksApart, IsWalk
  <1>9. ASSUME NEW kind \in Kinds, NEW x \in Pairs PROVE Settled(kind, x)
    <2>1. Due(kind, x)' <=> Due(kind, x)
      BY <1>1, <1>5 DEF Due, Reached, Peim!Matches
    <2>2. QED
      BY <1>1, <1>5, <2>1 DEF Settled
  <1>10. QED
    BY <1>6, <1>7, <1>8, <1>9, CountsKept
(* The walks of the dispatcher: what it now counts as reached lies ahead. *)
LEMMA DispatchKeeps ==
  ASSUME NEW P, NEW D, PpiInv(P, D), PeimConstants(P, D), Peim!Running("dispatcher"),
         NEW loop, NEW count, NEW firstP, NEW lastP, NEW firstN, NEW lastN,
         \/ /\ loop = "notifies" /\ count = Len(notifies["dispatch"])
            /\ firstP = 1 /\ lastP = lastPpi /\ firstN = lastNotify + 1 /\ lastN = count
         \/ /\ loop = "ppis" /\ count = Len(ppis)
            /\ firstP = lastPpi + 1 /\ lastP = count /\ firstN = 1 /\ lastN = lastNotify,
         stack' = << Peim!Dispatcher(loop, count),
                     Peim!Walk("dispatch", firstP, lastP, firstN, lastN) >>,
         UNCHANGED << ppis, notifies, lastPpi, lastNotify, told, replaced >>
  PROVE  PpiInv(P, D)'
  <1> DEFINE area == (firstN .. lastN) \X (firstP .. lastP)
  <1>1. /\ FarNotify = lastNotify /\ FarPpi = lastPpi /\ \A kind, x : ~Waits(kind, x)
    BY DispatcherAlone
  <1>2. /\ lastNotify \in Nat /\ lastNotify <= Len(notifies["dispatch"])
        /\ lastPpi \in Nat /\ lastPpi <= Len(ppis)
        /\ Len(notifies["dispatch"]) \in Nat /\ Len(ppis) \in Nat
    BY StackTypes, FarListed, <1>1
  <1>3. PICK d, w : /\ d = Peim!Dispatcher(loop, count)
                    /\ w = Peim!Walk("dispatch", firstP, lastP, firstN, lastN)
    OBVIOUS
  <1>4. /\ firstP \in Nat \ {0} /\ lastP \in Nat /\ firstN \in Nat \ {0} /\ lastN \in Nat
        /\ count \in Nat /\ loop \in {"notifies", "ppis"}
        /\ lastP <= Len(ppis) /\ lastN <= Len(notifies["dispatch"])
        /\ count <= IF loop = "notifies" THEN Len(notifies["dispatch"]) ELSE Len(ppis)
    BY <1>2
  <1>5. d \in Frames /\ d.is = "dispatcher" /\ d.loop = loop /\ d.count = count
    BY <1>3, <1>4 DEF Peim!Dispatcher, Frames, DispatcherFrame
  <1>6. /\ w \in Frames /\ w.is = "walk" /\ w.kind = "dispatch" /\ w.lastP = lastP /\ w.lastN = lastN
        /\ Ahead(w) = area
    <2>1. "dispatch" \in Kinds
      BY DEF Kinds
    <2> DEFINE v == Peim!Walk("dispatch", firstP, lastP, firstN, lastN)
    <2>2. /\ v \in Frames /\ v.is = "walk" /\ v.kind = "dispatch" /\ v.lastP = lastP
          /\ v.lastN = lastN /\ Ahead(v) = area
      <3>1. firstP \in Nat \ {0} /\ lastP \in Nat /\ firstN \in Nat \ {0} /\ lastN \in Nat
        BY <1>4
      <3>2. QED
        BY ONLY <2>1, <3>1, NewWalk
    <2>3. v = w
      BY <1>3
    <2> HIDE DEF v
    <2>4. QED
      BY <2>2, <2>3
  <1>7. /\ stack' \in Seq(Frames) /\ Len(stack') = 2 /\ Calling' = 1 .. 2
        /\ stack'[1] = d /\ stack'[2] = w
        /\ \A i \in Calling' : i = 1 \/ i = 2
    <2>1. stack' = << d, w >>
      BY <1>3
    <2>2. QED
      BY <1>5, <1>6, <2>1 DEF Calling
  <1> HIDE DEF area
  <1>8. \A kind \in Kinds : \A x : Waits(kind, x)' <=> kind = "dispatch" /\ x \in area
    <2>1. 2 \in Calling'
      BY <1>7
    <2>2. ~IsWalk(d, "dispatch") /\ ~IsWalk(d, "callback")
          /\ IsWalk(w, "dispatch") /\ ~IsWalk(w, "callback")
      BY <1>5, <1>6 DEF IsWalk
    <2>3. QED
      BY <1>6, <1>7, <2>1, <2>2 DEF Waits, Kinds
  <1>9. /\ FarNotify' = IF loop = "notifies" THEN count ELSE lastNotify
        /\ FarPpi' = IF loop = "ppis" THEN count ELSE lastPpi
    <2>1. \A l : Dispatching(l)' <=> l = loop
      BY <1>5, <1>7 DEF Dispatching
    <2>2. QED
      BY <1>5, <1>7, <2>1 DEF FarNotify, FarPpi, Dispatching
  <1>10. ASSUME NEW x \in Pairs
         PROVE  /\ Reached("dispatch", x)' <=> Reached("dispatch", x) \/ x \in area
                /\ ~(Reached("dispatch", x) /\ x \in area)
    <2>1. x = << x[1], x[2] >> /\ x[1] \in Nat \ {0} /\ x[2] \in Nat \ {0}
      BY PairTypes
    <2>2. x \in area <=> /\ firstN <= x[1] /\ x[1] <= lastN
                         /\ firstP <= x[2] /\ x[2] <= lastP
      BY <1>4, <2>1 DEF area
    <2>3. Reached("dispatch", x) <=> x[1] <= lastNotify /\ x[2] <= lastPpi
      BY <1>1 DEF Reached
    <2>4. Reached("dispatch", x)' <=> /\ x[1] <= IF loop = "notifies" THEN count ELSE lastNotify
                                      /\ x[2] <= IF loop = "ppis" THEN count ELSE lastPpi
      BY <1>9 DEF Reached
    <2>5. CASE loop = "notifies"
      BY <1>2, <1>4, <2>1, <2>2, <2>3, <2>4, <2>5
    <2>6. CASE loop = "ppis"
      BY <1>2, <1>4, <2>1, <2>2, <2>3, <2>4, <2>6
    <2>7. QED
      BY <1>4, <2>5, <2>6
  <1>11. PpiTypes(P, D)'
    BY <1>7 DEF PpiInv, PpiTypes, Peim!Slots
  <1>12. FramesNest'
    <2>1. FrameNests(1)'
      BY <1>4, <1>5, <1>7 DEF FrameNests
    <2>2. DispatchWalk(stack[2], stack[1])'
      <3>1. /\ loop = "notifies" => lastN = count /\ lastP = lastPpi
            /\ loop # "notifies" => lastN = lastNotify /\ lastP = count
        OBVIOUS
      <3>2. QED
        BY <1>5, <1>6, <1>7, <3>1 DEF DispatchWalk
    <2>3. FrameNests(2)'
      BY <1>4, <1>5, <1>6, <1>7, <2>2 DEF FrameNests
    <2>4. QED
      BY <1>7, <2>1, <2>3 DEF FramesNest
  <1>13. WalksApart'
    BY <1>5, <1>7 DEF WalksApart, IsWalk
  <1>14. ASSUME NEW kind \in Kinds, NEW x \in Pairs PROVE Settled(kind, x)
    <2>1. Due(kind, x)' <=> Due(kind, x)
      <3>1. CASE kind = "dispatch"
        BY <1>1, <1>8, <1>10, <3>1 DEF Due, Peim!Matches
      <3>2. CASE kind = "callback"
        BY <1>1, <1>8, <3>2 DEF Due, Reached, Peim!Matches
      <3>3. QED
        BY <3>1, <3>2 DEF Kinds
    <2>2. QED
      BY <1>1, <2>1 DEF Settled
  <1>15. QED
    BY <1>11, <1>12, <1>13, <1>14, CountsKept

-----------------------------------------------------------------------------
LEMMA PpiInitially ==
  ASSUME NEW P, NEW D, PeimConstants(P, D), Peim!Init
  PROVE  PpiInv(P, D)
  <1>1. /\ ppis = << >> /\ notifies = [k \in Peim!Kinds |-> << >>] /\ lastPpi = 0 /\ lastNotify = 0
        /\ stack = << >> /\ told = [s \in Peim!Slots |-> 0] /\ replaced = {}
    BY DEF Peim!Init
  <1>2. Len(ppis) = 0 /\ Calling = {} /\ \A k \in Kinds : Len(notifies[k]) = 0
    BY <1>1 DEF Calling, Peim!Kinds, Kinds
  <1>3. PpiTypes(P, D)
    <2>1. notifies \in [Kinds -> Seq(D)]
      BY <1>1 DEF Peim!Kinds, Kinds
    <2>2. "dispatch" \in Kinds /\ 0 <= MaxPpis /\ 0 <= MaxNotifies
      BY DEF Kinds, PeimConstants
    <2>3. QED
      BY <1>1, <1>2, <2>1, <2>2 DEF PpiTypes
  <1>4. \A kind \in Kinds, x \in Pairs : ~Listed(kind, x) /\ told[<< kind, x[1], x[2] >>] = 0
    <2>1. SUFFICES ASSUME NEW kind \in Kinds, NEW x \in Pairs
                   PROVE  ~Listed(kind, x) /\ told[<< kind, x[1], x[2] >>] = 0
      OBVIOUS
    <2>2. << kind, x[1], x[2] >> \in Peim!Slots
      BY PairTypes DEF Peim!Slots, Peim!Kinds, Kinds
    <2>3. ~Listed(kind, x)
      BY <1>2, PairTypes DEF Listed
    <2>4. QED
      BY <1>1, <2>2, <2>3
  <1>5. ToldOnce /\ ToldAtAll /\ FramesNest /\ WalksApart
    BY <1>2, <1>4 DEF ToldOnce, ToldAtAll, FramesNest, WalksApart, Kinds
  <1>6. QED
    BY <1>3, <1>5 DEF PpiInv

(* Every step keeps the invariant. *)
LEMMA PpiStep ==
  ASSUME NEW P, NEW D, PpiInv(P, D), PeimConstants(P, D), [Peim!Next]_(Peim!vars)
  PROVE  PpiInv(P, D)'
  <1>1. CASE Peim!PeiInstallPpi
    BY <1>1, InstallKeeps
  <1>2. CASE Peim!PeiNotifyPpi
    BY <1>2, NotifyKeeps
  <1>3. CASE Peim!PeiReInstallPpi
    BY <1>3, ReinstallKeeps
  <1>4. CASE Peim!CallNotification
    BY <1>4, CallKeeps
  <1>5. CASE Peim!NotificationReturns
    BY <1>5, ReturnKeeps
  <1>6. CASE Peim!WalkEnds
    BY <1>6, EndKeeps
  <1>7. CASE Peim!ProcessDispatchNotifyList
    BY <1>7, DispatcherKeeps DEF Peim!ProcessDispatchNotifyList
  <1>8. CASE Peim!DispatchNotifies
    <2>1. PICK count, lastP, firstN :
            count = Len(notifies["dispatch"]) /\ lastP = lastPpi /\ firstN = lastNotify + 1
      OBVIOUS
    <2>2. /\ Peim!Running("dispatcher")
          /\ stack' = << Peim!Dispatcher("notifies", count),
                         Peim!Walk("dispatch", 1, lastP, firstN, count) >>
          /\ UNCHANGED << ppis, notifies, lastPpi, lastNotify, told, replaced >>
      BY <1>8, <2>1 DEF Peim!DispatchNotifies
    <2>3. QED
      BY <2>1, <2>2, DispatchKeeps
  <1>9. CASE Peim!DispatchPpis
    <2>1. PICK count, firstP, lastN :
            count = Len(ppis) /\ firstP = lastPpi + 1 /\ lastN = lastNotify
      OBVIOUS
    <2>2. /\ Peim!Running("dispatcher")
          /\ stack' = << Peim!Dispatcher("ppis", count),
                         Peim!Walk("dispatch", firstP, count, 1, lastN) >>
          /\ UNCHANGED << ppis, notifies, lastPpi, lastNotify, told, replaced >>
      BY <1>9, <2>1 DEF Peim!DispatchPpis
    <2>3. QED
      BY <2>1, <2>2, DispatchKeeps
  <1>10. CASE Peim!DispatcherReturns
    BY <1>10, DispatcherKeeps DEF Peim!DispatcherReturns
  <1>11. CASE UNCHANGED Peim!vars
    BY <1>11, PpiUnchanged DEF Peim!vars
  <1>12. QED
    BY <1>1, <1>2, <1>3, <1>4, <1>5, <1>6, <1>7, <1>8, <1>9, <1>10, <1>11 DEF Peim!Next

LEMMA PpiImplies ==
  ASSUME NEW P, NEW D, PpiInv(P, D), PeimConstants(P, D)
  PROVE  Peim!NotificationsMade
  <1>1. /\ PpiTypes(P, D) /\ ToldOnce /\ ToldAtAll /\ "callback" \in Kinds /\ "dispatch" \in Kinds
    BY DEF PpiInv, Kinds
  <1>2. stack = << >> => \A kind, x : ~Waits(kind, x)
    BY DEF Waits, Calling
  <1>3. ASSUME NEW kind \in Kinds, NEW n, NEW p, n \in 1 .. Len(notifies[kind]), p \in 1 .. Len(ppis)
        PROVE  /\ << n, p >> \in Pairs /\ << n, p >>[1] = n /\ << n, p >>[2] = p
               /\ Listed(kind, << n, p >>)
    <2>1. Len(notifies[kind]) <= MaxNotifies /\ Len(ppis) <= MaxPpis
      BY StackTypes
    <2>2. n \in 1 .. MaxNotifies /\ p \in 1 .. MaxPpis
      BY <1>3, <2>1, StackTypes DEF PeimConstants
    <2>3. QED
      BY <1>3, <2>2, StackTypes DEF Pairs, Listed
  <1>4. Peim!CallbacksMade
    <2>1. ASSUME NEW n \in 1 .. Len(notifies["callback"]), NEW p \in 1 .. Len(ppis),
                 stack = << >>, Peim!Matches("callback", n, p)
          PROVE  told[<< "callback", n, p >>] >= 1
      <3>1. PICK x : x = << n, p >>
        OBVIOUS
      <3>2. x \in Pairs /\ x[1] = n /\ x[2] = p /\ Listed("callback", x)
        BY <1>1, <1>3, <3>1
      <3>3. QED
        BY <1>1, <1>2, <2>1, <3>2 DEF ToldAtAll
    <2>2. ASSUME NEW s \in Peim!Slots, s[3] \notin replaced
          PROVE  told[s] <= 1
      <3>1. PICK kind, x : kind = s[1] /\ x = << s[2], s[3] >>
        OBVIOUS
      <3>2. kind \in Kinds /\ x \in Pairs /\ x[1] = s[2] /\ x[2] = s[3]
            /\ s = << kind, x[1], x[2] >>
        BY <3>1 DEF Peim!Slots, Peim!Kinds, Kinds, Pairs
      <3>3. told[<< kind, x[1], x[2] >>] \in {0, 1}
        BY <1>1, <2>2, <3>2 DEF ToldOnce
      <3>4. QED
        BY <3>2, <3>3
    <2>3. QED
      BY <2>1, <2>2 DEF Peim!CallbacksMade
  <1>5. Peim!DispatchesMade
    <2>1. ASSUME NEW n \in 1 .. lastNotify, NEW p \in 1 .. lastPpi, stack = << >>, p \notin replaced
          PROVE  told[<< "dispatch", n, p >>] = IF Peim!Matches("dispatch", n, p) THEN 1 ELSE 0
      <3>1. PICK x : x = << n, p >>
        OBVIOUS
      <3>2. n \in 1 .. Len(notifies["dispatch"]) /\ p \in 1 .. Len(ppis)
        BY <1>1, StackTypes DEF PpiTypes
      <3>3. x \in Pairs /\ x[1] = n /\ x[2] = p /\ Listed("dispatch", x)
        BY <1>1, <1>3, <3>1, <3>2
      <3>4. FarNotify = lastNotify /\ FarPpi = lastPpi
        BY <2>1 DEF FarNotify, FarPpi, Dispatching
      <3>5. Reached("dispatch", x)
        BY <3>3, <3>4, StackTypes DEF Reached
      <3>6. Due("dispatch", x) <=> Peim!Matches("dispatch", n, p)
        BY <1>2, <2>1, <3>3, <3>5 DEF Due
      <3>7. QED
        BY <1>1, <2>1, <3>3, <3>6 DEF ToldOnce
    <2>2. QED
      BY <2>1 DEF Peim!DispatchesMade
  <1>6. QED
    BY <1>4, <1>5 DEF Peim!NotificationsMade

(* Whatever notifications and PPIs modules and notifications ask for, in    *)
(* the middle of each other's walks and to any depth, every callback        *)
(* notification was called for every PPI with its GUID when no call is      *)
(* running, once unless the PPI was reinstalled; and every dispatch         *)
(* notification, once, for every PPI the dispatcher has come to             *)
(* (Ppi.c:113, 211, 422, 472 to 518).                                       *)
THEOREM NotificationsCorrect ==
  ASSUME NEW P, NEW D, PeimConstants(P, D)
  PROVE  Peim!Spec => []NotificationsMade
  <1>1. Peim!Init => PpiInv(P, D)
    BY PpiInitially
  <1>2. PpiInv(P, D) /\ [Peim!Next]_(Peim!vars) => PpiInv(P, D)'
    BY PpiStep
  <1>3. PpiInv(P, D) => NotificationsMade
    BY PpiImplies DEF NotificationsMade
  <1>4. QED
    BY <1>1, <1>2, <1>3, PTL DEF Peim!Spec

-----------------------------------------------------------------------------
(* The PCDs.                                                               *)

PcdSizes == BufferSizes \cup {1, 2, 4, 8}
Keys == (Guids \cup {Absent}) \X Tokens
PcdEntry ==
  [guid : Guids \cup {Absent}, token : Tokens, type : Pcds!Types, size : PcdSizes, buffer : Nat]
Pointer == [key : Keys, buffer : Nat, current : BOOLEAN]

KeyOf(e) == Pcds!Key(e.guid, e.token)
ElementsOf(list) == { list[i] : i \in 1 .. Len(list) }

(* A list of entries with the GUIDs, each PCD once. *)
IsPcdList(list, guids) ==
  /\ list \in Seq(PcdEntry)
  /\ \A i \in 1 .. Len(list) : list[i].guid \in guids
  /\ \A i, j \in 1 .. Len(list) : KeyOf(list[i]) = KeyOf(list[j]) => i = j

PcdTypes ==
  /\ IsPcdList(mPcdListEntry, {Absent}) /\ IsPcdList(mPcdExListEntry, Guids)
  /\ heap \in Seq(Values \cup {"freed"})
  /\ \A e \in Pcds!Entries : e.buffer \in 1 .. Len(heap)
  /\ handed \subseteq Pointer /\ \A h \in handed : h.buffer \in 1 .. Len(heap)
  /\ patch = [max |-> patch.max, size |-> patch.size, data |-> patch.data]
  /\ patch.max \in Nat /\ patch.size \in Nat /\ Len(patch.data) \in Nat
  /\ DOMAIN patch.data = 1 .. Len(patch.data)

(* No two PCDs share a buffer. *)
BuffersApart == \A e, f \in Pcds!Entries : e.buffer = f.buffer => e = f

PcdInv == PcdTypes /\ BuffersApart /\ IsFiniteSet(latest) /\ Pcds!PcdsExact

PcdConstants ==
  Absent \notin Guids /\ "freed" \notin Values /\ DatumSizes \subseteq Nat /\ MAX_ADDRESS \in Nat

LEMMA PcdCardinality == ASSUME NEW S PROVE Pcds!Cardinality(S) = Cardinality(S)
  BY Zenon DEF Pcds!Cardinality, Cardinality

LEMMA EntriesOfLists == Pcds!Entries = ElementsOf(mPcdListEntry) \cup ElementsOf(mPcdExListEntry)
  BY DEF Pcds!Entries, ElementsOf

(* The search for a PCD finds the one entry it has. *)
LEMMA FindsEntry ==
  ASSUME NEW list, NEW guids, IsPcdList(list, guids), NEW guid, NEW token,
         guid = Absent => guids = {Absent}
  PROVE  LET at == Pcds!FindPcdList(list, guid, token) IN
         /\ at = 0 => \A e \in ElementsOf(list) : KeyOf(e) # << guid, token >>
         /\ at # 0 => at \in 1 .. Len(list) /\ KeyOf(list[at]) = << guid, token >>
  <1> DEFINE hits == { i \in 1 .. Len(list) : /\ list[i].token = token
                                              /\ guid = Absent \/ list[i].guid = guid }
             at == Pcds!FindPcdList(list, guid, token)
  <1>1. at = IF hits = {} THEN 0 ELSE CHOOSE i \in hits : \A j \in hits : i <= j
    BY DEF Pcds!FindPcdList
  <1>2. \A i \in 1 .. Len(list) : i \in hits <=> KeyOf(list[i]) = << guid, token >>
    BY DEF IsPcdList, KeyOf, Pcds!Key
  <1>3. hits \subseteq 1 .. Len(list)
    OBVIOUS
  <1> HIDE DEF hits, at
  <1>4. CASE hits = {}
    BY <1>1, <1>2, <1>4 DEF ElementsOf, at
  <1>5. CASE hits # {}
    <2>1. PICK n \in hits : TRUE
      BY <1>5
    <2>2. \A i \in hits : i = n
      BY <1>2, <1>3, <2>1 DEF IsPcdList
    <2>3. n \in 1 .. Len(list) /\ Len(list) \in Nat
      BY <1>3, <2>1 DEF IsPcdList
    <2>4. n \in hits /\ \A j \in hits : n <= j
      BY <2>1, <2>2, <2>3
    <2>5. at \in hits
      BY <1>1, <1>5, <2>4
    <2>6. at = n /\ at # 0
      BY <2>2, <2>3, <2>5
    <2>7. QED
      BY <1>2, <2>1, <2>3, <2>6 DEF at
  <1>6. QED
    BY <1>4, <1>5

LEMMA ListGrows ==
  ASSUME NEW list, NEW guids, IsPcdList(list, guids), NEW e \in PcdEntry, e.guid \in guids,
         \A f \in ElementsOf(list) : KeyOf(f) # KeyOf(e)
  PROVE  /\ IsPcdList(Append(list, e), guids)
         /\ ElementsOf(Append(list, e)) = ElementsOf(list) \cup {e}
         /\ Len(Append(list, e)) = Len(list) + 1
  <1>1. list \in Seq(PcdEntry) /\ Len(list) \in Nat
    BY DEF IsPcdList
  <1> DEFINE new == Append(list, e)
  <1>2. /\ new \in Seq(PcdEntry) /\ Len(new) = Len(list) + 1 /\ new[Len(list) + 1] = e
        /\ \A i \in 1 .. Len(list) : new[i] = list[i]
    BY <1>1
  <1>3. \A i \in 1 .. Len(new) : i \in 1 .. Len(list) \/ i = Len(list) + 1
    BY <1>1, <1>2
  <1>4. \A i \in 1 .. Len(list) : i \in 1 .. Len(new)
    BY <1>1, <1>2
  <1>5. Len(list) + 1 \in 1 .. Len(new)
    BY <1>1, <1>2
  <1>6. \A i \in 1 .. Len(list) : KeyOf(list[i]) # KeyOf(e)
    BY DEF ElementsOf
  <1> HIDE DEF new
  <1>7. ElementsOf(new) = ElementsOf(list) \cup {e}
    BY <1>2, <1>3, <1>4, <1>5 DEF ElementsOf
  <1>8. \A i, j \in 1 .. Len(new) : KeyOf(new[i]) = KeyOf(new[j]) => i = j
    BY <1>2, <1>3, <1>6 DEF IsPcdList
  <1>9. \A i \in 1 .. Len(new) : new[i].guid \in guids
    BY <1>2, <1>3 DEF IsPcdList
  <1>10. QED
    BY <1>2, <1>7, <1>8, <1>9 DEF IsPcdList, new

LEMMA ListChanges ==
  ASSUME NEW list, NEW guids, IsPcdList(list, guids), NEW at \in 1 .. Len(list),
         NEW e \in PcdEntry, KeyOf(e) = KeyOf(list[at]), e.guid = list[at].guid
  PROVE  /\ IsPcdList([list EXCEPT ![at] = e], guids)
         /\ \A f : f \in ElementsOf([list EXCEPT ![at] = e]) <=>
                     (f \in ElementsOf(list) /\ KeyOf(f) # KeyOf(e)) \/ f = e
         /\ Len([list EXCEPT ![at] = e]) = Len(list)
  <1> DEFINE new == [list EXCEPT ![at] = e]
  <1>1. list \in Seq(PcdEntry) /\ Len(list) \in Nat
    BY DEF IsPcdList
  <1>2. /\ new \in Seq(PcdEntry) /\ Len(new) = Len(list) /\ new[at] = e
        /\ \A i \in 1 .. Len(list) : i # at => new[i] = list[i]
    BY <1>1
  <1> HIDE DEF new
  <1>3. \A i \in 1 .. Len(list) : i # at => KeyOf(list[i]) # KeyOf(e)
    BY DEF IsPcdList
  <1>4. \A f : f \in ElementsOf(new) <=> (f \in ElementsOf(list) /\ KeyOf(f) # KeyOf(e)) \/ f = e
    BY <1>2, <1>3 DEF ElementsOf
  <1>5. \A i \in 1 .. Len(new) : KeyOf(new[i]) = KeyOf(list[i]) /\ new[i].guid \in guids
    BY <1>2 DEF IsPcdList
  <1>6. \A i, j \in 1 .. Len(new) : KeyOf(new[i]) = KeyOf(new[j]) => i = j
    BY <1>2, <1>5 DEF IsPcdList
  <1>7. QED
    BY <1>2, <1>4, <1>5, <1>6 DEF IsPcdList, new

(* A PCD has one entry, in one list. *)
LEMMA OneEntry ==
  ASSUME PcdInv, PcdConstants
  PROVE  /\ Pcds!Entries \subseteq PcdEntry
         /\ \A e, f \in Pcds!Entries : KeyOf(e) = KeyOf(f) => e = f
         /\ \A e \in ElementsOf(mPcdListEntry) : e.guid = Absent
         /\ \A e \in ElementsOf(mPcdExListEntry) : e.guid \in Guids
  <1>1. IsPcdList(mPcdListEntry, {Absent}) /\ IsPcdList(mPcdExListEntry, Guids)
    BY DEF PcdInv, PcdTypes
  <1>2. /\ \A e \in ElementsOf(mPcdListEntry) : e.guid = Absent /\ e \in PcdEntry
        /\ \A e \in ElementsOf(mPcdExListEntry) : e.guid \in Guids /\ e \in PcdEntry
    BY <1>1 DEF IsPcdList, ElementsOf
  <1>3. /\ \A e, f \in ElementsOf(mPcdListEntry) : KeyOf(e) = KeyOf(f) => e = f
        /\ \A e, f \in ElementsOf(mPcdExListEntry) : KeyOf(e) = KeyOf(f) => e = f
    BY <1>1 DEF IsPcdList, ElementsOf
  <1>4. \A e, f : KeyOf(e) = KeyOf(f) => e.guid = f.guid
    BY DEF KeyOf, Pcds!Key
  <1>5. QED
    BY <1>2, <1>3, <1>4, EntriesOfLists DEF PcdConstants

(* What latest says of a PCD. *)
Described(e, memory) ==
  [key |-> KeyOf(e), type |-> e.type, size |-> e.size, contents |-> memory[e.buffer]]

(* A PCD is set: its entry is new, or has a new buffer, or the buffer it had. *)
IsSet(e, contents) ==
  /\ \A f : f \in Pcds!Entries' <=> (f \in Pcds!Entries /\ KeyOf(f) # KeyOf(e)) \/ f = e
  /\ heap' \in Seq(Values \cup {"freed"}) /\ Len(heap) <= Len(heap')
  /\ e.buffer \in 1 .. Len(heap') /\ heap'[e.buffer] = contents
  /\ \A f \in Pcds!Entries : KeyOf(f) # KeyOf(e) =>
       f.buffer # e.buffer /\ heap'[f.buffer] = heap[f.buffer]
  /\ e.type = "Ptr" => e.buffer > Len(heap)
  /\ e \in Pcds!Entries \/ e.buffer > Len(heap)
  /\ e.type # "Ptr" /\ e \notin Pcds!Entries => \A f \in Pcds!Entries : KeyOf(f) # KeyOf(e)

LatestOf(e, contents) ==
  { p \in latest : p.key # KeyOf(e) }
    \cup {[key |-> KeyOf(e), type |-> e.type, size |-> e.size, contents |-> contents]}
HandedOf(e) ==
  LET held == { h \in handed : h.key = KeyOf(e) /\ e.type = "Ptr" }
  IN  (handed \ held) \cup { [h EXCEPT !.current = FALSE] : h \in held }

LEMMA SetLatest ==
  ASSUME PcdInv, PcdConstants, NEW e \in PcdEntry, NEW contents \in Values, IsSet(e, contents),
         latest' = LatestOf(e, contents)
  PROVE  /\ latest' = { Described(f, heap') : f \in Pcds!Entries' }
         /\ IsFiniteSet(latest')
         /\ Cardinality(latest') = IF \E f \in Pcds!Entries : KeyOf(f) = KeyOf(e)
                                   THEN Cardinality(latest) ELSE Cardinality(latest) + 1
  <1> DEFINE this == [key |-> KeyOf(e), type |-> e.type, size |-> e.size, contents |-> contents]
             rest == { p \in latest : p.key # KeyOf(e) }
  <1>1. latest = { Described(f, heap) : f \in Pcds!Entries } /\ IsFiniteSet(latest)
    BY DEF PcdInv, Pcds!PcdsExact, Pcds!LatestRead, Described, KeyOf
  <1>2. Described(e, heap') = this
    BY DEF Described, IsSet
  <1>3. \A f, memory : Described(f, memory).key = KeyOf(f)
    BY DEF Described
  <1>4. rest = { Described(f, heap) : f \in { g \in Pcds!Entries : KeyOf(g) # KeyOf(e) } }
    BY <1>1, <1>3
  <1>5. \A f \in Pcds!Entries : KeyOf(f) # KeyOf(e) => Described(f, heap') = Described(f, heap)
    BY DEF Described, IsSet
  <1>6. latest' = rest \cup {this}
    BY DEF LatestOf
  <1>7. this \notin rest /\ this.key = KeyOf(e)
    OBVIOUS
  <1> HIDE DEF rest, this
  <1>8. latest' = { Described(f, heap') : f \in Pcds!Entries' }
    BY <1>2, <1>4, <1>5, <1>6 DEF IsSet
  <1>9. rest \subseteq latest /\ IsFiniteSet(rest)
    <2>1. rest \subseteq latest
      BY DEF rest
    <2>2. QED
      BY <1>1, <2>1, FS_Subset
  <1>10. IsFiniteSet(latest') /\ Cardinality(latest') = Cardinality(rest) + 1
    BY <1>6, <1>7, <1>9, FS_AddElement
  <1>11. CASE \E f \in Pcds!Entries : KeyOf(f) = KeyOf(e)
    <2>1. PICK f \in Pcds!Entries : KeyOf(f) = KeyOf(e)
      BY <1>11
    <2>2. \A p \in latest : p.key = KeyOf(e) => p = Described(f, heap)
      BY <1>1, <1>3, <2>1, OneEntry
    <2>3. Described(f, heap) \in latest /\ Described(f, heap) \notin rest
      BY <1>1, <1>3, <2>1 DEF rest
    <2>4. latest = rest \cup {Described(f, heap)}
      BY <1>9, <2>2, <2>3 DEF rest
    <2>5. Cardinality(latest) = Cardinality(rest) + 1
      BY <1>9, <2>3, <2>4, FS_AddElement
    <2>6. QED
      BY <1>8, <1>10, <1>11, <2>5
  <1>12. CASE ~\E f \in Pcds!Entries : KeyOf(f) = KeyOf(e)
    <2>1. rest = latest
      BY <1>1, <1>3, <1>12 DEF rest
    <2>2. QED
      BY <1>8, <1>10, <1>12, <2>1
  <1>13. QED
    BY <1>11, <1>12

LEMMA SetPointers ==
  ASSUME PcdInv, PcdConstants, NEW e \in PcdEntry, NEW contents \in Values, IsSet(e, contents),
         handed' = HandedOf(e)
  PROVE  /\ Pcds!PointersCurrent' /\ BuffersApart'
         /\ \A f \in Pcds!Entries' : f.buffer \in 1 .. Len(heap')
         /\ handed' \subseteq Pointer /\ \A h \in handed' : h.buffer \in 1 .. Len(heap')
  <1> DEFINE held == { h \in handed : h.key = KeyOf(e) /\ e.type = "Ptr" }
  <1>1. /\ handed \subseteq Pointer /\ \A h \in handed : h.buffer \in 1 .. Len(heap)
        /\ \A f \in Pcds!Entries : f.buffer \in 1 .. Len(heap)
        /\ heap \in Seq(Values \cup {"freed"}) /\ Len(heap) \in Nat
    BY DEF PcdInv, PcdTypes
  <1>2. /\ \A h \in handed : h.current <=> \E f \in Pcds!Entries : KeyOf(f) = h.key /\ f.buffer = h.buffer
        /\ \A f \in Pcds!Entries : heap[f.buffer] # "freed"
    BY DEF PcdInv, Pcds!PcdsExact, Pcds!PointersCurrent, KeyOf
  <1>3. Len(heap') \in Nat /\ Len(heap) <= Len(heap') /\ e.buffer \in 1 .. Len(heap')
    BY DEF IsSet
  <1>4. \A n \in 1 .. Len(heap) : n \in 1 .. Len(heap')
    BY <1>1, <1>3
  <1>5. \A f \in Pcds!Entries' : f.buffer \in 1 .. Len(heap')
    BY <1>1, <1>3, <1>4 DEF IsSet
  <1>6. ASSUME NEW h \in handed'
        PROVE  /\ h \in Pointer /\ h.buffer \in 1 .. Len(heap)
               /\ \/ h \in handed /\ ~(h.key = KeyOf(e) /\ e.type = "Ptr")
                  \/ h.key = KeyOf(e) /\ e.type = "Ptr" /\ h.current = FALSE
    <2>1. CASE h \in handed \ held
      BY <1>1, <2>1
    <2>2. CASE h \in { [g EXCEPT !.current = FALSE] : g \in held }
      <3>1. PICK g \in held : h = [g EXCEPT !.current = FALSE]
        BY <2>2
      <3>2. g \in Pointer /\ g.buffer \in 1 .. Len(heap) /\ g.key = KeyOf(e) /\ e.type = "Ptr"
        BY <1>1
      <3>3. h \in Pointer /\ h.key = g.key /\ h.buffer = g.buffer /\ h.current = FALSE
        BY <3>1, <3>2 DEF Pointer
      <3>4. QED
        BY <3>2, <3>3
    <2>3. QED
      BY <2>1, <2>2 DEF HandedOf
  <1>7. ASSUME NEW h \in handed'
        PROVE  h.current <=> \E f \in Pcds!Entries' : KeyOf(f) = h.key /\ f.buffer = h.buffer
    <2>1. CASE h \in handed /\ h.key # KeyOf(e)
      BY <1>2, <2>1 DEF IsSet
    <2>2. CASE h \in handed /\ h.key = KeyOf(e) /\ e.type # "Ptr"
      <3>1. CASE e \in Pcds!Entries
        <4>1. \A f \in Pcds!Entries : KeyOf(f) = KeyOf(e) => f = e
          BY <3>1, OneEntry
        <4>2. QED
          BY <1>2, <2>2, <3>1, <4>1 DEF IsSet
      <3>2. CASE e \notin Pcds!Entries
        <4>1. \A f \in Pcds!Entries : KeyOf(f) # KeyOf(e)
          BY <2>2, <3>2 DEF IsSet
        <4>2. ~h.current
          BY <1>2, <2>2, <4>1
        <4>3. e.buffer # h.buffer
          <5>1. e.buffer > Len(heap) /\ e.buffer \in Nat
            BY <1>3, <3>2 DEF IsSet
          <5>2. h.buffer \in Nat /\ h.buffer <= Len(heap)
            BY <1>1, <2>2
          <5>3. QED
            BY <1>1, <5>1, <5>2
        <4>4. QED
          BY <2>2, <4>1, <4>2, <4>3 DEF IsSet
      <3>3. QED
        BY <3>1, <3>2
    <2>3. CASE h.key = KeyOf(e) /\ e.type = "Ptr" /\ h.current = FALSE
      <3>1. e.buffer # h.buffer
        <4>1. e.buffer > Len(heap) /\ e.buffer \in Nat
          BY <1>3, <2>3 DEF IsSet
        <4>2. h.buffer \in Nat /\ h.buffer <= Len(heap)
          <5>1. h.buffer \in 1 .. Len(heap)
            BY <1>6
          <5>2. QED
            BY <1>1, <5>1
        <4>3. QED
          BY <1>1, <4>1, <4>2
      <3>2. QED
        BY <2>3, <3>1 DEF IsSet
    <2>4. QED
      BY <1>6, <2>1, <2>2, <2>3
  <1>8. \A f \in Pcds!Entries' : heap'[f.buffer] # "freed"
    BY <1>2 DEF IsSet, PcdConstants
  <1>9. Pcds!PointersCurrent'
    BY <1>7, <1>8 DEF Pcds!PointersCurrent, KeyOf
  <1>10. BuffersApart'
    BY DEF BuffersApart, IsSet, PcdInv
  <1>11. QED
    BY <1>4, <1>5, <1>6, <1>9, <1>10


LEMMA SetKeeps ==
  ASSUME PcdInv, PcdConstants, NEW e \in PcdEntry, NEW contents \in Values, IsSet(e, contents),
         latest' = LatestOf(e, contents), handed' = HandedOf(e), patch' = patch,
         pcdCall' = [is |-> "set"],
         IsPcdList(mPcdListEntry, {Absent})', IsPcdList(mPcdExListEntry, Guids)',
         Len(mPcdListEntry') + Len(mPcdExListEntry')
           = IF \E f \in Pcds!Entries : KeyOf(f) = KeyOf(e)
             THEN Len(mPcdListEntry) + Len(mPcdExListEntry)
             ELSE Len(mPcdListEntry) + Len(mPcdExListEntry) + 1
  PROVE  PcdInv'
  <1>1. /\ latest' = { Described(f, heap') : f \in Pcds!Entries' } /\ IsFiniteSet(latest')
        /\ Cardinality(latest') = IF \E f \in Pcds!Entries : KeyOf(f) = KeyOf(e)
                                  THEN Cardinality(latest) ELSE Cardinality(latest) + 1
    BY SetLatest
  <1>2. Cardinality(latest) = Len(mPcdListEntry) + Len(mPcdExListEntry)
    BY PcdCardinality DEF PcdInv, Pcds!PcdsExact, Pcds!LatestRead
  <1>3. Pcds!Cardinality(latest') = Cardinality(latest')
    BY Zenon DEF Pcds!Cardinality, Cardinality
  <1>4. Pcds!LatestRead'
    <2>1. Cardinality(latest') = Len(mPcdListEntry') + Len(mPcdExListEntry')
      BY <1>1, <1>2
    <2>2. pcdCall'.is # "get"
      OBVIOUS
    <2>3. QED
      BY <1>1, <1>3, <2>1, <2>2 DEF Pcds!LatestRead, Described, KeyOf
  <1>5. /\ Pcds!PointersCurrent' /\ BuffersApart'
        /\ \A f \in Pcds!Entries' : f.buffer \in 1 .. Len(heap')
        /\ handed' \subseteq Pointer /\ \A h \in handed' : h.buffer \in 1 .. Len(heap')
    BY SetPointers
  <1>6. Pcds!PatchesFit'
    BY DEF PcdInv, Pcds!PcdsExact, Pcds!PatchesFit
  <1>7. PcdTypes'
    BY <1>5 DEF PcdTypes, PcdInv, IsSet
  <1>8. QED
    BY <1>1, <1>4, <1>5, <1>6, <1>7 DEF PcdInv, Pcds!PcdsExact

(* A step that changes neither the PCDs nor what was handed out. *)
LEMMA FailedCall ==
  ASSUME PcdInv, pcdCall' = Pcds!Failed,
         UNCHANGED << mPcdListEntry, mPcdExListEntry, heap, patch, latest, handed >>
  PROVE  PcdInv'
  <1>1. Pcds!Entries' = Pcds!Entries
    BY DEF Pcds!Entries
  <1>2. pcdCall'.is # "get" /\ pcdCall'.is # "patch"
    BY DEF Pcds!Failed
  <1>3. PcdTypes' /\ BuffersApart' /\ IsFiniteSet(latest')
    BY <1>1 DEF PcdInv, PcdTypes, BuffersApart
  <1>4. Pcds!Cardinality(latest') = Pcds!Cardinality(latest)
    OBVIOUS
  <1>5. Pcds!LatestRead'
    BY <1>1, <1>2, <1>4 DEF PcdInv, Pcds!PcdsExact, Pcds!LatestRead
  <1>6. Pcds!PointersCurrent' /\ Pcds!PatchesFit'
    BY <1>1, <1>2 DEF PcdInv, Pcds!PcdsExact, Pcds!PointersCurrent, Pcds!PatchesFit
  <1>7. QED
    BY <1>3, <1>5, <1>6 DEF PcdInv, Pcds!PcdsExact

GuidsOf(guid) == IF guid = Absent THEN {Absent} ELSE Guids

(* The list an Insert changes, and the one it leaves. *)
LEMMA ListsOf ==
  ASSUME PcdInv, PcdConstants, NEW guid \in Guids \cup {Absent}, NEW token \in Tokens,
         NEW list, NEW other, list = Pcds!ListOf(guid),
         other = IF guid = Absent THEN mPcdExListEntry ELSE mPcdListEntry
  PROVE  /\ IsPcdList(list, GuidsOf(guid)) /\ guid \in GuidsOf(guid)
         /\ guid = Absent => GuidsOf(guid) = {Absent}
         /\ \A f \in ElementsOf(other) : KeyOf(f) # << guid, token >>
         /\ Pcds!Entries = ElementsOf(list) \cup ElementsOf(other)
         /\ Len(list) \in Nat /\ Len(other) \in Nat
         /\ Len(mPcdListEntry) + Len(mPcdExListEntry) = Len(list) + Len(other)
  <1>1. IsPcdList(mPcdListEntry, {Absent}) /\ IsPcdList(mPcdExListEntry, Guids)
    BY DEF PcdInv, PcdTypes
  <1>2. /\ \A e \in ElementsOf(mPcdListEntry) : e.guid = Absent
        /\ \A e \in ElementsOf(mPcdExListEntry) : e.guid \in Guids
    BY OneEntry
  <1>3. Len(mPcdListEntry) \in Nat /\ Len(mPcdExListEntry) \in Nat
    BY <1>1 DEF IsPcdList
  <1>4. CASE guid = Absent
    <2>1. list = mPcdListEntry /\ other = mPcdExListEntry /\ GuidsOf(guid) = {Absent}
      BY <1>4 DEF Pcds!ListOf, GuidsOf
    <2>2. \A f \in ElementsOf(other) : KeyOf(f) # << guid, token >>
      BY <1>2, <1>4, <2>1 DEF KeyOf, Pcds!Key, PcdConstants
    <2>3. QED
      BY <1>1, <1>3, <1>4, <2>1, <2>2, EntriesOfLists
  <1>5. CASE guid # Absent
    <2>1. list = mPcdExListEntry /\ other = mPcdListEntry /\ GuidsOf(guid) = Guids
      BY <1>5 DEF Pcds!ListOf, GuidsOf
    <2>2. \A f \in ElementsOf(other) : KeyOf(f) # << guid, token >>
      BY <1>2, <1>5, <2>1 DEF KeyOf, Pcds!Key
    <2>3. QED
      BY <1>1, <1>3, <1>5, <2>1, <2>2, EntriesOfLists
  <1>6. QED
    BY <1>4, <1>5

LEMMA InsertKeeps ==
  ASSUME PcdInv, PcdConstants, NEW guid \in Guids \cup {Absent}, NEW token \in Tokens,
         NEW type \in Pcds!Types, NEW contents \in Values, NEW size \in PcdSizes,
         Pcds!Insert(guid, token, type, contents, size)
  PROVE  PcdInv'
  <1>1. PICK list, other, at, made :
          /\ list = Pcds!ListOf(guid)
          /\ other = IF guid = Absent THEN mPcdExListEntry ELSE mPcdListEntry
          /\ at = Pcds!FindPcdList(list, guid, token)
          /\ made = Pcds!CreatePcdInfo(guid, token, type, contents, size)
    OBVIOUS
  <1>2. at = Pcds!Found(guid, token)
    BY <1>1 DEF Pcds!Found, Pcds!FindPcdInfoPtr, Pcds!FindPcdExInfoPtr, Pcds!ListOf
  <1>3. /\ IsPcdList(list, GuidsOf(guid)) /\ guid \in GuidsOf(guid)
        /\ guid = Absent => GuidsOf(guid) = {Absent}
        /\ \A f \in ElementsOf(other) : KeyOf(f) # << guid, token >>
        /\ Pcds!Entries = ElementsOf(list) \cup ElementsOf(other)
        /\ Len(list) \in Nat /\ Len(other) \in Nat
        /\ Len(mPcdListEntry) + Len(mPcdExListEntry) = Len(list) + Len(other)
    BY <1>1, ListsOf
  <1>4. /\ at = 0 => \A f \in ElementsOf(list) : KeyOf(f) # << guid, token >>
        /\ at # 0 => at \in 1 .. Len(list) /\ KeyOf(list[at]) = << guid, token >>
    BY <1>1, <1>3, FindsEntry
  <1>5. /\ heap \in Seq(Values \cup {"freed"}) /\ Len(heap) \in Nat /\ Len(heap) + 1 \in Nat
        /\ \A f \in Pcds!Entries : f.buffer \in 1 .. Len(heap)
        /\ IsPcdList(mPcdListEntry, {Absent}) /\ IsPcdList(mPcdExListEntry, Guids)
    BY DEF PcdInv, PcdTypes
  <1>6. \/ pcdCall' = Pcds!Failed /\ patch' = patch
            /\ UNCHANGED << mPcdListEntry, mPcdExListEntry, heap, latest, handed >>
        \/ /\ made.status = "SUCCESS"
           /\ heap' = made.heap
           /\ mPcdListEntry'   = IF guid = Absent THEN made.list ELSE mPcdListEntry
           /\ mPcdExListEntry' = IF guid = Absent THEN mPcdExListEntry ELSE made.list
           /\ latest' = { p \in latest : p.key # Pcds!Key(guid, token) }
                          \cup {[key |-> Pcds!Key(guid, token), type |-> type, size |-> size,
                                 contents |-> contents]}
           /\ handed' = (handed \ { h \in handed : h.key = Pcds!Key(guid, token) /\ type = "Ptr" })
                          \cup { [h EXCEPT !.current = FALSE] :
                                   h \in { h \in handed : h.key = Pcds!Key(guid, token) /\ type = "Ptr" } }
           /\ pcdCall' = [is |-> "set"] /\ patch' = patch
    BY <1>1 DEF Pcds!Insert
  <1>7. pcdCall' = Pcds!Failed =>
           UNCHANGED << mPcdListEntry, mPcdExListEntry, heap, patch, latest, handed >>
    BY <1>6 DEF Pcds!Failed
  <1> SUFFICES ASSUME pcdCall' # Pcds!Failed
               PROVE  PcdInv'
    BY <1>7, FailedCall
  <1>8. made.status = "SUCCESS" /\ heap' = made.heap
    BY <1>6
  <1>9. /\ mPcdListEntry'   = IF guid = Absent THEN made.list ELSE mPcdListEntry
        /\ mPcdExListEntry' = IF guid = Absent THEN mPcdExListEntry ELSE made.list
    BY <1>6
  <1>10. /\ latest' = { p \in latest : p.key # << guid, token >> }
                        \cup {[key |-> << guid, token >>, type |-> type, size |-> size,
                               contents |-> contents]}
         /\ handed' = (handed \ { h \in handed : h.key = << guid, token >> /\ type = "Ptr" })
                        \cup { [h EXCEPT !.current = FALSE] :
                                 h \in { h \in handed : h.key = << guid, token >> /\ type = "Ptr" } }
         /\ pcdCall' = [is |-> "set"] /\ patch' = patch
    BY <1>6 DEF Pcds!Key
  <1>11. ASSUME NEW e \in PcdEntry, KeyOf(e) = << guid, token >>, e.type = type, e.size = size,
               NEW grown, IsPcdList(grown, GuidsOf(guid)), grown = made.list,
               \A f : f \in ElementsOf(grown) <=>
                        (f \in ElementsOf(list) /\ KeyOf(f) # KeyOf(e)) \/ f = e,
               Len(grown) = IF \E f \in Pcds!Entries : KeyOf(f) = KeyOf(e)
                            THEN Len(list) ELSE Len(list) + 1,
               heap' \in Seq(Values \cup {"freed"}), Len(heap) <= Len(heap'),
               e.buffer \in 1 .. Len(heap'), heap'[e.buffer] = contents,
               \A f \in Pcds!Entries : KeyOf(f) # KeyOf(e) =>
                 f.buffer # e.buffer /\ heap'[f.buffer] = heap[f.buffer],
               e.type = "Ptr" => e.buffer > Len(heap),
               e \in Pcds!Entries \/ e.buffer > Len(heap),
               e.type # "Ptr" /\ e \notin Pcds!Entries =>
                 \A f \in Pcds!Entries : KeyOf(f) # KeyOf(e)
        PROVE  PcdInv'
    <2>1. /\ Pcds!Entries' = ElementsOf(grown) \cup ElementsOf(other)
          /\ IsPcdList(mPcdListEntry, {Absent})' /\ IsPcdList(mPcdExListEntry, Guids)'
          /\ Len(mPcdListEntry') + Len(mPcdExListEntry') = Len(grown) + Len(other)
      <3>1. CASE guid = Absent
        <4>1. mPcdListEntry' = grown /\ mPcdExListEntry' = other /\ mPcdExListEntry = other
          BY <1>1, <1>11, <1>9, <3>1
        <4>2. GuidsOf(guid) = {Absent}
          BY <3>1 DEF GuidsOf
        <4>3. Len(grown) \in Nat /\ Len(other) \in Nat
          BY <1>3, <1>11 DEF IsPcdList
        <4>4. mPcdListEntry' = grown /\ mPcdExListEntry' = other /\ mPcdExListEntry' = mPcdExListEntry
          BY <4>1
        <4>5. ElementsOf(mPcdListEntry)' = ElementsOf(grown) /\ ElementsOf(mPcdExListEntry)' = ElementsOf(other)
          BY ONLY <4>4 DEF ElementsOf
        <4>6. Pcds!Entries' = ElementsOf(mPcdListEntry)' \cup ElementsOf(mPcdExListEntry)'
          BY ONLY TRUE DEF Pcds!Entries, ElementsOf
        <4>7. IsPcdList(mPcdListEntry, {Absent})' /\ IsPcdList(mPcdExListEntry, Guids)'
          BY ONLY IsPcdList(grown, GuidsOf(guid)), <1>5, <1>11, <4>2, <4>4 DEF IsPcdList
        <4>8. Len(mPcdListEntry') + Len(mPcdExListEntry') = Len(grown) + Len(other)
          BY ONLY <4>4
        <4>9. QED
          BY <4>3, <4>4, <4>5, <4>6, <4>7, <4>8
      <3>2. CASE guid # Absent
        <4>1. mPcdExListEntry' = grown /\ mPcdListEntry' = other /\ mPcdListEntry = other
          BY <1>1, <1>11, <1>9, <3>2
        <4>2. GuidsOf(guid) = Guids
          BY <3>2 DEF GuidsOf
        <4>3. Len(grown) \in Nat /\ Len(other) \in Nat
          BY <1>3, <1>11 DEF IsPcdList
        <4>4. mPcdExListEntry' = grown /\ mPcdListEntry' = other /\ mPcdListEntry' = mPcdListEntry
          BY <4>1
        <4>5. ElementsOf(mPcdExListEntry)' = ElementsOf(grown) /\ ElementsOf(mPcdListEntry)' = ElementsOf(other)
          BY ONLY <4>4 DEF ElementsOf
        <4>6. Pcds!Entries' = ElementsOf(mPcdExListEntry)' \cup ElementsOf(mPcdListEntry)'
          BY ONLY TRUE DEF Pcds!Entries, ElementsOf
        <4>7. IsPcdList(mPcdListEntry, {Absent})' /\ IsPcdList(mPcdExListEntry, Guids)'
          BY ONLY IsPcdList(grown, GuidsOf(guid)), <1>5, <1>11, <4>2, <4>4 DEF IsPcdList
        <4>8. Len(mPcdExListEntry') + Len(mPcdListEntry') = Len(grown) + Len(other)
          BY ONLY <4>4
        <4>9. QED
          BY <4>3, <4>4, <4>5, <4>6, <4>7, <4>8
      <3>3. QED
        BY <3>1, <3>2
    <2>2. \A f \in ElementsOf(other) : KeyOf(f) # KeyOf(e)
      BY <1>3, <1>11
    <2>3. IsSet(e, contents)
      BY <1>3, <1>11, <2>1, <2>2 DEF IsSet
    <2>4. latest' = LatestOf(e, contents) /\ handed' = HandedOf(e)
      BY <1>11, <1>10 DEF LatestOf, HandedOf
    <2>5. Len(mPcdListEntry') + Len(mPcdExListEntry')
            = IF \E f \in Pcds!Entries : KeyOf(f) = KeyOf(e)
              THEN Len(mPcdListEntry) + Len(mPcdExListEntry)
              ELSE Len(mPcdListEntry) + Len(mPcdExListEntry) + 1
      BY <1>3, <1>11, <2>1
    <2>6. QED
      BY <1>10, <2>1, <2>3, <2>4, <2>5, SetKeeps
  <1> DEFINE new == Len(heap) + 1
             entry == [guid |-> guid, token |-> token, type |-> type, size |-> size, buffer |-> new]
  <1>12. entry \in PcdEntry /\ KeyOf(entry) = << guid, token >>
    BY <1>5 DEF PcdEntry, KeyOf, Pcds!Key
  <1>13. PcdInv'
    <2>1. CASE at = 0
      <3>1. made.list = Append(list, entry) /\ made.heap = Append(heap, contents)
        BY <1>1, <1>2, <2>1 DEF Pcds!CreatePcdInfo
      <3>2. PICK grown : grown = Append(list, entry)
        OBVIOUS
      <3>3. /\ IsPcdList(grown, GuidsOf(guid)) /\ Len(grown) = Len(list) + 1
            /\ ElementsOf(grown) = ElementsOf(list) \cup {entry}
        BY <1>3, <1>4, <1>12, <2>1, <3>2, ListGrows
      <3>4. heap' = Append(heap, contents)
        BY <1>8, <3>1
      <3>5. /\ heap' \in Seq(Values \cup {"freed"}) /\ Len(heap') = new /\ heap'[new] = contents
            /\ \A n \in 1 .. Len(heap) : heap'[n] = heap[n]
        BY <1>5, <3>4
      <3>6. \A f \in Pcds!Entries : KeyOf(f) # KeyOf(entry)
        BY <1>3, <1>4, <1>12, <2>1
      <3>7. \A f \in Pcds!Entries : f.buffer # new /\ heap'[f.buffer] = heap[f.buffer]
        BY <1>5, <3>5
      <3>8. PICK e \in PcdEntry :
              /\ e = entry /\ KeyOf(e) = << guid, token >> /\ e.type = type /\ e.size = size
              /\ e.buffer = new
        BY <1>12
      <3>9. /\ ElementsOf(grown) = ElementsOf(list) \cup {e}
            /\ \A f \in Pcds!Entries : KeyOf(f) # KeyOf(e)
            /\ e.buffer > Len(heap) /\ e.buffer \in 1 .. Len(heap')
            /\ Len(heap) <= Len(heap') /\ heap'[e.buffer] = contents
        BY <1>5, <3>3, <3>5, <3>6, <3>8
      <3>10. \A f : f \in ElementsOf(grown) <=>
                      (f \in ElementsOf(list) /\ KeyOf(f) # KeyOf(e)) \/ f = e
        BY <1>3, <3>9
      <3>11. \A f \in Pcds!Entries : f.buffer # e.buffer /\ heap'[f.buffer] = heap[f.buffer]
        BY <3>7, <3>8
      <3> HIDE DEF entry, new
      <3>12. QED
        BY <1>11, <3>1, <3>2, <3>3, <3>5, <3>8, <3>9, <3>10, <3>11
    <2>2. CASE at # 0 /\ type = "Ptr"
      <3> DEFINE old == list[at].buffer
      <3>1. /\ at \in 1 .. Len(list) /\ KeyOf(list[at]) = << guid, token >> /\ list[at] \in PcdEntry
            /\ list[at] \in Pcds!Entries
        BY <1>3, <1>4, <2>2 DEF IsPcdList, ElementsOf
      <3>2. list[at].type = type
        BY <1>1, <1>2, <1>8, <2>2 DEF Pcds!CreatePcdInfo
      <3>3. /\ made.list = [list EXCEPT ![at].buffer = new, ![at].size = size]
            /\ made.heap = Append([heap EXCEPT ![old] = "freed"], contents)
        BY <1>1, <1>2, <2>2, <3>2 DEF Pcds!CreatePcdInfo
      <3>4. entry = [[list[at] EXCEPT !.buffer = new] EXCEPT !.size = size]
        <4>1. PICK g \in PcdEntry : g = list[at]
          BY <3>1
        <4>2. g.guid = guid /\ g.token = token /\ g.type = type
          BY <3>1, <3>2, <4>1 DEF KeyOf, Pcds!Key
        <4>3. PICK n, b : g = [guid |-> guid, token |-> token, type |-> type, size |-> n, buffer |-> b]
          BY <4>2 DEF PcdEntry
        <4>4. [[g EXCEPT !.buffer = new] EXCEPT !.size = size] = entry
          <5>1. [g EXCEPT !.buffer = new]
                  = [guid |-> guid, token |-> token, type |-> type, size |-> n, buffer |-> new]
            BY ONLY <4>3
          <5>2. PICK h : h = [g EXCEPT !.buffer = new]
            OBVIOUS
          <5>3. h = [guid |-> guid, token |-> token, type |-> type, size |-> n, buffer |-> new]
            BY ONLY <5>1, <5>2
          <5>4. [h EXCEPT !.size = size] = entry
            BY ONLY <5>3
          <5>5. QED
            BY <5>2, <5>4
        <4>5. QED
          BY <4>1, <4>4
      <3>5. made.list = [list EXCEPT ![at] = entry]
        BY <1>3, <3>1, <3>3, <3>4 DEF IsPcdList
      <3>6. old \in 1 .. Len(heap)
        BY <1>5, <3>1
      <3>7. PICK freed : freed = [heap EXCEPT ![old] = "freed"]
        OBVIOUS
      <3>8. /\ freed \in Seq(Values \cup {"freed"}) /\ Len(freed) = Len(heap)
            /\ \A n \in 1 .. Len(heap) : n # old => freed[n] = heap[n]
        BY <1>5, <3>6, <3>7
      <3>9. heap' = Append(freed, contents)
        BY <1>8, <3>3, <3>7
      <3>10. /\ heap' \in Seq(Values \cup {"freed"}) /\ Len(heap') = new /\ heap'[new] = contents
             /\ \A n \in 1 .. Len(heap) : n # old => heap'[n] = heap[n]
        BY <1>5, <3>8, <3>9
      <3>11. \A f \in Pcds!Entries : KeyOf(f) # << guid, token >> => f.buffer # old
        BY <3>1 DEF PcdInv, BuffersApart
      <3>12. \A f \in Pcds!Entries : KeyOf(f) # << guid, token >> =>
               f.buffer # new /\ heap'[f.buffer] = heap[f.buffer]
        BY <1>5, <3>10, <3>11
      <3>13. PICK e \in PcdEntry :
              /\ e = entry /\ KeyOf(e) = << guid, token >> /\ e.type = type /\ e.size = size
              /\ e.buffer = new /\ e.guid = guid
        BY <1>12
      <3>14. PICK grown : grown = [list EXCEPT ![at] = e]
        OBVIOUS
      <3>15. list[at].guid = guid
        BY <3>1 DEF KeyOf, Pcds!Key
      <3>16. /\ IsPcdList(grown, GuidsOf(guid)) /\ Len(grown) = Len(list)
             /\ \A f : f \in ElementsOf(grown) <=>
                         (f \in ElementsOf(list) /\ KeyOf(f) # KeyOf(e)) \/ f = e
        <4>1. KeyOf(e) = KeyOf(list[at]) /\ e.guid = list[at].guid
          BY <3>1, <3>13, <3>15
        <4>2. PICK guids : guids = GuidsOf(guid)
          OBVIOUS
        <4>3. IsPcdList(list, guids)
          BY <1>3, <4>2
        <4>4. /\ IsPcdList([list EXCEPT ![at] = e], guids)
              /\ \A f : f \in ElementsOf([list EXCEPT ![at] = e]) <=>
                          (f \in ElementsOf(list) /\ KeyOf(f) # KeyOf(e)) \/ f = e
              /\ Len([list EXCEPT ![at] = e]) = Len(list)
          BY ONLY <3>1, <4>1, <4>3, e \in PcdEntry, ListChanges
        <4>5. QED
          BY <3>14, <4>2, <4>4
      <3>17. \E f \in Pcds!Entries : KeyOf(f) = KeyOf(e)
        BY <3>1, <3>13
      <3>18. /\ e.buffer > Len(heap) /\ e.buffer \in 1 .. Len(heap')
             /\ Len(heap) <= Len(heap') /\ heap'[e.buffer] = contents
        BY <1>5, <3>10, <3>13
      <3>19. grown = made.list
        BY <3>5, <3>13, <3>14
      <3>20. \A f \in Pcds!Entries : KeyOf(f) # KeyOf(e) =>
               f.buffer # e.buffer /\ heap'[f.buffer] = heap[f.buffer]
        BY <3>12, <3>13
      <3> HIDE DEF entry, new, old
      <3>21. QED
        BY <1>11, <2>2, <3>10, <3>13, <3>16, <3>17, <3>18, <3>19, <3>20
    <2>3. CASE at # 0 /\ type # "Ptr"
      <3> DEFINE old == list[at].buffer
      <3>1. /\ at \in 1 .. Len(list) /\ KeyOf(list[at]) = << guid, token >> /\ list[at] \in PcdEntry
            /\ list[at] \in Pcds!Entries /\ list[at] \in ElementsOf(list)
        BY <1>3, <1>4, <2>3 DEF IsPcdList, ElementsOf
      <3>2. list[at].type = type /\ list[at].size = size
        BY <1>1, <1>2, <1>8, <2>3 DEF Pcds!CreatePcdInfo
      <3>3. made.list = list /\ made.heap = [heap EXCEPT ![old] = contents]
        BY <1>1, <1>2, <2>3, <3>2 DEF Pcds!CreatePcdInfo
      <3>4. old \in 1 .. Len(heap)
        BY <1>5, <3>1
      <3>5. heap' = [heap EXCEPT ![old] = contents]
        BY <1>8, <3>3
      <3>6. /\ heap' \in Seq(Values \cup {"freed"}) /\ Len(heap') = Len(heap) /\ heap'[old] = contents
            /\ \A n \in 1 .. Len(heap) : n # old => heap'[n] = heap[n]
        BY <1>5, <3>4, <3>5
      <3>7. \A f \in Pcds!Entries : KeyOf(f) # << guid, token >> =>
              f.buffer # old /\ heap'[f.buffer] = heap[f.buffer]
        BY <1>5, <3>1, <3>6 DEF PcdInv, BuffersApart
      <3>8. PICK e \in PcdEntry :
              /\ e = list[at] /\ KeyOf(e) = << guid, token >> /\ e.type = type /\ e.size = size
              /\ e.buffer = old
        BY <3>1, <3>2
      <3>9. \A f \in Pcds!Entries : KeyOf(f) = KeyOf(e) => f = e
        BY <3>1, <3>8, OneEntry
      <3>10. \A f : f \in ElementsOf(list) <=> (f \in ElementsOf(list) /\ KeyOf(f) # KeyOf(e)) \/ f = e
        BY <1>3, <3>1, <3>8, <3>9
      <3>11. /\ e.buffer \in 1 .. Len(heap') /\ Len(heap) <= Len(heap') /\ heap'[e.buffer] = contents
             /\ e \in Pcds!Entries /\ list = made.list
             /\ \E f \in Pcds!Entries : KeyOf(f) = KeyOf(e)
        BY <1>5, <3>1, <3>3, <3>4, <3>6, <3>8
      <3>12. \A f \in Pcds!Entries : KeyOf(f) # KeyOf(e) =>
               f.buffer # e.buffer /\ heap'[f.buffer] = heap[f.buffer]
        BY <3>7, <3>8
      <3> HIDE DEF entry, new, old
      <3>13. QED
        BY <1>3, <1>11, <2>3, <3>6, <3>8, <3>10, <3>11, <3>12
    <2>4. QED
      BY <2>1, <2>2, <2>3
  <1>14. QED
    BY <1>13

LEMMA SetStep ==
  ASSUME PcdInv, PcdConstants, Pcds!Set
  PROVE  PcdInv'
  <1>1. PICK token \in Tokens, v \in Values :
          \/ Pcds!LibPcdSet8S(token, v) \/ Pcds!LibPcdSet16S(token, v) \/ Pcds!LibPcdSet32S(token, v)
          \/ Pcds!LibPcdSet64S(token, v) \/ Pcds!LibPcdSetBoolS(token, v)
          \/ \E n \in BufferSizes : Pcds!LibPcdSetPtrS(token, v, n)
          \/ \E g \in Guids :
               \/ Pcds!LibPcdSetEx8S(g, token, v) \/ Pcds!LibPcdSetEx16S(g, token, v)
               \/ Pcds!LibPcdSetEx32S(g, token, v) \/ Pcds!LibPcdSetEx64S(g, token, v)
               \/ Pcds!LibPcdSetExBoolS(g, token, v)
               \/ \E n \in BufferSizes : Pcds!LibPcdSetExPtrS(g, token, v, n)
    BY Zenon DEF Pcds!Set
  <1>2. \A type \in Pcds!Types, size \in PcdSizes, guid \in Guids \cup {Absent} :
          Pcds!Insert(guid, token, type, v, size) => PcdInv'
    BY InsertKeeps
  <1>3. /\ Pcds!SizeOf.Uint8 \in PcdSizes /\ Pcds!SizeOf.Uint16 \in PcdSizes /\ Pcds!SizeOf.Uint32 \in PcdSizes
        /\ Pcds!SizeOf.Uint64 \in PcdSizes /\ Pcds!SizeOf.Bool \in PcdSizes /\ BufferSizes \subseteq PcdSizes
    BY DEF Pcds!SizeOf, PcdSizes
  <1>4. "Uint8" \in Pcds!Types /\ "Uint16" \in Pcds!Types /\ "Uint32" \in Pcds!Types
        /\ "Uint64" \in Pcds!Types /\ "Bool" \in Pcds!Types /\ "Ptr" \in Pcds!Types
    BY DEF Pcds!Types
  <1>5. Absent \in Guids \cup {Absent} /\ Guids \subseteq Guids \cup {Absent}
    OBVIOUS
  <1>6. QED
    BY Zenon, <1>1, <1>2, <1>3, <1>4, <1>5
       DEF Pcds!LibPcdSet8S, Pcds!LibPcdSet16S, Pcds!LibPcdSet32S, Pcds!LibPcdSet64S,
           Pcds!LibPcdSetBoolS, Pcds!LibPcdSetPtrS, Pcds!LibPcdSetEx8S, Pcds!LibPcdSetEx16S,
           Pcds!LibPcdSetEx32S, Pcds!LibPcdSetEx64S, Pcds!LibPcdSetExBoolS, Pcds!LibPcdSetExPtrS,
           Pcds!InsertPcd, Pcds!InsertPcdEx

LEMMA ReadKeeps ==
  ASSUME PcdInv, PcdConstants, NEW guid \in Guids \cup {Absent}, NEW token \in Tokens, NEW type,
         Pcds!Read(guid, token, type)
  PROVE  PcdInv'
  <1>1. PICK list, other, at :
          /\ list = Pcds!ListOf(guid)
          /\ other = IF guid = Absent THEN mPcdExListEntry ELSE mPcdListEntry
          /\ at = Pcds!FindPcdList(list, guid, token)
    OBVIOUS
  <1>2. at = Pcds!Found(guid, token)
    BY <1>1 DEF Pcds!Found, Pcds!FindPcdInfoPtr, Pcds!FindPcdExInfoPtr, Pcds!ListOf
  <1>3. /\ IsPcdList(list, GuidsOf(guid)) /\ Pcds!Entries = ElementsOf(list) \cup ElementsOf(other)
        /\ guid = Absent => GuidsOf(guid) = {Absent}
    BY <1>1, ListsOf
  <1>4. at # 0 => at \in 1 .. Len(list) /\ KeyOf(list[at]) = << guid, token >>
    BY <1>1, <1>3, FindsEntry
  <1>5. UNCHANGED << mPcdListEntry, mPcdExListEntry, heap, patch, latest >>
    BY DEF Pcds!Read
  <1>6. CASE pcdCall' = Pcds!Failed /\ handed' = handed
    BY <1>5, <1>6, FailedCall
  <1>7. CASE at # 0 /\ type \in {"Unknown", list[at].type} /\ pcdCall' # Pcds!Failed
    <2>1. PICK e \in Pcds!Entries :
            e = list[at] /\ KeyOf(e) = << guid, token >> /\ type \in {"Unknown", e.type}
      BY <1>3, <1>4, <1>7 DEF ElementsOf
    <2>2. /\ pcdCall' = [ is |-> "get", key |-> KeyOf(e), type |-> type, size |-> e.size,
                       contents |-> heap[e.buffer] ]
          /\ handed' = IF type # "Ptr" THEN handed
                       ELSE handed \cup {[key |-> KeyOf(e), buffer |-> e.buffer, current |-> TRUE]}
      BY <1>1, <1>2, <1>7, <2>1 DEF Pcds!Read, Pcds!Key
    <2>3. Pcds!Entries' = Pcds!Entries /\ heap' = heap
      BY <1>5 DEF Pcds!Entries
    <2>4. e \in PcdEntry /\ \A f \in Pcds!Entries : KeyOf(f) = KeyOf(e) => f = e
      BY OneEntry
    <2>5. e.buffer \in 1 .. Len(heap) /\ Len(heap) \in Nat
      BY DEF PcdInv, PcdTypes
    <2>6. PICK p : p = [key |-> KeyOf(e), buffer |-> e.buffer, current |-> TRUE]
      OBVIOUS
    <2>7. p \in Pointer /\ p.key = KeyOf(e) /\ p.buffer = e.buffer /\ p.current = TRUE
      BY <2>4, <2>5, <2>6 DEF Pointer, KeyOf, PcdEntry, Keys, Pcds!Key
    <2>8. \A h \in handed' : h \in handed \/ h = p
      BY <2>2, <2>6
    <2>9. PcdTypes'
      BY <1>5, <2>3, <2>5, <2>7, <2>8 DEF PcdInv, PcdTypes
    <2>10. BuffersApart' /\ IsFiniteSet(latest')
      BY <1>5, <2>3 DEF PcdInv, BuffersApart
    <2>11. Pcds!PatchesFit'
      BY <1>5, <2>2 DEF PcdInv, Pcds!PcdsExact, Pcds!PatchesFit
    <2>12. Pcds!PointersCurrent'
      BY <2>1, <2>3, <2>7, <2>8 DEF PcdInv, Pcds!PcdsExact, Pcds!PointersCurrent, KeyOf
    <2>13. Pcds!LatestRead'
      <3>1. latest = { Described(f, heap) : f \in Pcds!Entries }
        BY DEF PcdInv, Pcds!PcdsExact, Pcds!LatestRead, Described, KeyOf
      <3>2. Described(e, heap) \in latest'
        BY <1>5, <2>1, <3>1
      <3>3. \E q \in latest' : /\ q.key = pcdCall'.key /\ pcdCall'.type \in {"Unknown", q.type}
                               /\ q.size = pcdCall'.size /\ q.contents = pcdCall'.contents
        BY <2>1, <2>2, <3>2 DEF Described
      <3>4. Pcds!Cardinality(latest') = Pcds!Cardinality(latest)
        BY <1>5
      <3>5. QED
        BY <1>5, <2>3, <3>3, <3>4 DEF PcdInv, Pcds!PcdsExact, Pcds!LatestRead
    <2>14. QED
      BY <2>9, <2>10, <2>11, <2>12, <2>13 DEF PcdInv, Pcds!PcdsExact
  <1>8. \/ pcdCall' = Pcds!Failed /\ handed' = handed
        \/ at # 0 /\ type \in {"Unknown", list[at].type} /\ pcdCall' # Pcds!Failed
    BY <1>1, <1>2 DEF Pcds!Read, Pcds!Failed
  <1>9. QED
    BY <1>6, <1>7, <1>8

LEMMA GetStep ==
  ASSUME PcdInv, PcdConstants, Pcds!Get
  PROVE  PcdInv'
  <1>1. PICK token \in Tokens :
          \/ Pcds!LibPcdGet8(token) \/ Pcds!LibPcdGet16(token) \/ Pcds!LibPcdGet32(token)
          \/ Pcds!LibPcdGet64(token) \/ Pcds!LibPcdGetPtr(token) \/ Pcds!LibPcdGetBool(token)
          \/ Pcds!LibPcdGetSize(token)
          \/ \E g \in Guids :
               \/ Pcds!LibPcdGetEx8(g, token) \/ Pcds!LibPcdGetEx16(g, token)
               \/ Pcds!LibPcdGetEx32(g, token) \/ Pcds!LibPcdGetEx64(g, token)
               \/ Pcds!LibPcdGetExPtr(g, token) \/ Pcds!LibPcdGetExBool(g, token)
               \/ Pcds!LibPcdGetExSize(g, token)
    BY DEF Pcds!Get
  <1>2. \A type : \A guid \in Guids \cup {Absent} : Pcds!Read(guid, token, type) => PcdInv'
    BY ReadKeeps
  <1>3. Absent \in Guids \cup {Absent} /\ Guids \subseteq Guids \cup {Absent}
    OBVIOUS
  <1>4. QED
    BY Zenon, <1>1, <1>2, <1>3
       DEF Pcds!LibPcdGet8, Pcds!LibPcdGet16, Pcds!LibPcdGet32, Pcds!LibPcdGet64, Pcds!LibPcdGetPtr,
           Pcds!LibPcdGetBool, Pcds!LibPcdGetSize, Pcds!LibPcdGetEx8, Pcds!LibPcdGetEx16,
           Pcds!LibPcdGetEx32, Pcds!LibPcdGetEx64, Pcds!LibPcdGetExPtr, Pcds!LibPcdGetExBool,
           Pcds!LibPcdGetExSize

LEMMA PatchStep ==
  ASSUME PcdInv, PcdConstants, Pcds!Patch
  PROVE  PcdInv'
  <1>1. PICK v \in Values, n \in 0 .. MAX_ADDRESS :
          \/ Pcds!LibPatchPcdSetPtr(v, n) \/ Pcds!LibPatchPcdSetPtrS(v, n)
          \/ Pcds!LibPatchPcdSetPtrAndSize(v, n) \/ Pcds!LibPatchPcdSetPtrAndSizeS(v, n)
    BY DEF Pcds!Patch
  <1>2. UNCHANGED << mPcdListEntry, mPcdExListEntry, heap, latest, handed >>
    BY DEF Pcds!Patch
  <1>3. PICK max, len, data : /\ patch = [max |-> max, size |-> len, data |-> data]
                              /\ max \in Nat /\ len \in Nat /\ Len(data) \in Nat
                              /\ DOMAIN data = 1 .. Len(data) /\ Len(data) <= max /\ len <= Len(data)
    BY DEF PcdInv, PcdTypes, Pcds!PcdsExact, Pcds!PatchesFit
  <1>4. n \in Nat
    BY <1>1 DEF PcdConstants
  <1> DEFINE bytes == Pcds!Bytes(v, n)
             over == Pcds!Overwritten(data, bytes)
             longer == IF n > Len(data) THEN n ELSE Len(data)
  <1>5. bytes = [i \in 1 .. n |-> v] /\ Len(bytes) = n
    BY <1>4 DEF Pcds!Bytes
  <1>6. over = [i \in 1 .. longer |-> IF i <= n THEN bytes[i] ELSE data[i]]
    BY <1>5 DEF Pcds!Overwritten
  <1>7. longer \in Nat /\ n <= longer /\ (n <= max => longer <= max)
    BY <1>3, <1>4
  <1> HIDE DEF over, bytes, longer
  <1>8. DOMAIN over = 1 .. longer /\ Len(over) = longer
    BY <1>6, <1>7
  <1>9. Pcds!Refused(n) <=> n > max \/ n = MAX_ADDRESS
    BY <1>3 DEF Pcds!Refused
  <1>10. pcdCall' = [ is |-> "patch", asked |-> n, size |-> IF Pcds!Refused(n) THEN max ELSE n,
                   done |-> ~Pcds!Refused(n) ]
    BY <1>1, <1>3
       DEF Pcds!LibPatchPcdSetPtr, Pcds!LibPatchPcdSetPtrS, Pcds!LibPatchPcdSetPtrAndSize,
           Pcds!LibPatchPcdSetPtrAndSizeS
  <1>11. \/ patch' = patch
         \/ ~Pcds!Refused(n) /\ patch' = [patch EXCEPT !.data = over]
         \/ ~Pcds!Refused(n) /\ patch' = [patch EXCEPT !.data = over, !.size = n]
    <2>1. patch.data = data
      BY <1>3
    <2>2. QED
      BY <1>1, <2>1
         DEF Pcds!LibPatchPcdSetPtr, Pcds!LibPatchPcdSetPtrS, Pcds!LibPatchPcdSetPtrAndSize,
             Pcds!LibPatchPcdSetPtrAndSizeS, over, bytes
  <1>12. PICK room, size, text :
           /\ patch' = [max |-> room, size |-> size, data |-> text] /\ room = max
           /\ room \in Nat /\ size \in Nat /\ Len(text) \in Nat /\ DOMAIN text = 1 .. Len(text)
           /\ Len(text) <= room /\ size <= Len(text)
    <2>1. CASE patch' = patch
      BY <1>3, <2>1
    <2>2. CASE ~Pcds!Refused(n) /\ patch' = [patch EXCEPT !.data = over]
      <3>1. patch' = [max |-> max, size |-> len, data |-> over]
        BY <1>3, <2>2
      <3>2. Len(over) <= max /\ len <= Len(over)
        BY <1>3, <1>4, <1>7, <1>8, <1>9, <2>2 DEF longer
      <3>3. QED
        BY <1>3, <1>7, <1>8, <3>1, <3>2
    <2>3. CASE ~Pcds!Refused(n) /\ patch' = [patch EXCEPT !.data = over, !.size = n]
      <3>1. patch' = [max |-> max, size |-> n, data |-> over]
        BY <1>3, <2>3
      <3>2. Len(over) <= max /\ n <= Len(over)
        BY <1>3, <1>4, <1>7, <1>8, <1>9, <2>3
      <3>3. QED
        BY <1>3, <1>4, <1>7, <1>8, <3>1, <3>2
    <2>4. QED
      BY <1>11, <2>1, <2>2, <2>3
  <1>13. Pcds!PatchesFit'
    <2>1. /\ Pcds!Refused(n) => pcdCall'.size = max /\ ~pcdCall'.done
          /\ ~Pcds!Refused(n) => pcdCall'.size = n /\ pcdCall'.asked = n /\ n <= max
      <3>1. pcdCall'.size = (IF Pcds!Refused(n) THEN max ELSE n) /\ pcdCall'.asked = n
        BY <1>10
      <3>2. pcdCall'.done = ~Pcds!Refused(n)
        BY <1>10
      <3>3. ~Pcds!Refused(n) => n <= max
        BY <1>3, <1>4, <1>9
      <3>4. pcdCall'.done <=> ~Pcds!Refused(n)
        BY ONLY <3>2
      <3>5. QED
        BY ONLY <3>1, <3>3, <3>4
    <2>2. pcdCall'.size <= max /\ (pcdCall'.done => pcdCall'.asked = pcdCall'.size)
      BY <1>3, <2>1
    <2>3. QED
      BY <1>12, <2>2 DEF Pcds!PatchesFit
  <1>14. Pcds!Entries' = Pcds!Entries
    BY <1>2 DEF Pcds!Entries
  <1>15. PcdTypes'
    BY <1>2, <1>14, <1>12 DEF PcdInv, PcdTypes
  <1>16. BuffersApart' /\ IsFiniteSet(latest')
    BY <1>2, <1>14 DEF PcdInv, BuffersApart
  <1>17. Pcds!Cardinality(latest') = Pcds!Cardinality(latest)
    BY <1>2
  <1>18. pcdCall'.is # "get"
    BY <1>10
  <1>19. Pcds!LatestRead'
    BY <1>2, <1>14, <1>17, <1>18 DEF PcdInv, Pcds!PcdsExact, Pcds!LatestRead
  <1>20. Pcds!PointersCurrent'
    BY <1>2, <1>14 DEF PcdInv, Pcds!PcdsExact, Pcds!PointersCurrent
  <1>21. QED
    BY <1>15, <1>16, <1>19, <1>20, <1>13 DEF PcdInv, Pcds!PcdsExact

LEMMA PcdInit == ASSUME Pcds!Init, PcdConstants PROVE PcdInv
  <1>1. Pcds!Entries = {}
    BY DEF Pcds!Init, Pcds!Entries
  <1>2. IsFiniteSet(latest) /\ Pcds!Cardinality(latest) = 0
    BY FS_EmptySet, PcdCardinality DEF Pcds!Init
  <1>3. PICK max \in Nat : patch = [max |-> max, size |-> 0, data |-> << >>]
    BY DEF Pcds!Init, PcdConstants
  <1>4. PcdTypes /\ BuffersApart
    BY <1>1, <1>3 DEF PcdTypes, BuffersApart, Pcds!Init, IsPcdList
  <1>5. Pcds!LatestRead /\ Pcds!PointersCurrent
    BY <1>1, <1>2 DEF Pcds!Init, Pcds!Idle, Pcds!LatestRead, Pcds!PointersCurrent
  <1>6. Pcds!PatchesFit
    BY <1>3 DEF Pcds!Init, Pcds!Idle, Pcds!PatchesFit
  <1>7. QED
    BY <1>2, <1>4, <1>5, <1>6 DEF PcdInv, Pcds!PcdsExact

LEMMA PcdStutter == ASSUME PcdInv, UNCHANGED Pcds!vars PROVE PcdInv'
  <1>1. UNCHANGED << mPcdListEntry, mPcdExListEntry, heap, patch, pcdCall, latest, handed >>
    BY DEF Pcds!vars
  <1>2. Pcds!Entries' = Pcds!Entries /\ Pcds!Cardinality(latest') = Pcds!Cardinality(latest)
    BY <1>1 DEF Pcds!Entries
  <1>3. PcdTypes' /\ BuffersApart' /\ IsFiniteSet(latest')
    BY <1>1, <1>2 DEF PcdInv, PcdTypes, BuffersApart
  <1>4. Pcds!LatestRead' /\ Pcds!PointersCurrent' /\ Pcds!PatchesFit'
    BY <1>1, <1>2
       DEF PcdInv, Pcds!PcdsExact, Pcds!LatestRead, Pcds!PointersCurrent, Pcds!PatchesFit
  <1>5. QED
    BY <1>3, <1>4 DEF PcdInv, Pcds!PcdsExact

(***************************************************************************)
(* Each PCD that was set is in a list once, with what it was last set to;  *)
(* reading gives that; a pointer that was handed out points to its PCD     *)
(* until that PCD, and no other one, is set again; no list names a buffer  *)
(* that was freed; and no patch exceeds its variable                       *)
(* (BasePcdLibHost.c:61, 199, 205, 1222, 1381).                            *)
(***************************************************************************)
THEOREM PcdsCorrect == ASSUME PcdConstants PROVE Pcds!Spec => []PcdsExact
  <1>1. Pcds!Init => PcdInv
    BY PcdInit
  <1>2. PcdInv /\ [Pcds!Next]_Pcds!vars => PcdInv'
    BY SetStep, GetStep, PatchStep, PcdStutter DEF Pcds!Next
  <1>3. PcdInv => PcdsExact
    BY DEF PcdInv, PcdsExact
  <1>4. QED
    BY <1>1, <1>2, <1>3, PTL DEF Pcds!Spec

-----------------------------------------------------------------------------
(* Memory allocation.  Sizes and counts are numbers, a pool has a size (to   *)
(* malloc a pool of no bytes is one of a unit), a head fits into a page, and *)
(* alignments are as the code asserts: powers of two, so that an alignment   *)
(* and a page are multiples of one another (MemoryAllocationLibHost.c:85).   *)
HeapConstants ==
  /\ SIZE_4KB \in Nat \ {0} /\ HeadSize \in 1 .. SIZE_4KB /\ HeapSize \in Nat
  /\ PoolSizes \subseteq Nat \ {0} /\ PageCounts \subseteq Nat /\ Alignments \subseteq Nat \ {0}
  /\ \A alignment \in Alignments :
       \E k \in Nat : alignment = k * SIZE_4KB \/ SIZE_4KB = k * alignment

LEMMA HeapCardinality == ASSUME NEW S PROVE Heap!Cardinality(S) = Cardinality(S)
  BY Zenon DEF Heap!Cardinality, Cardinality

(* Division, and remainders of multiples.                                   *)
LEMMA DivisionBy ==
  ASSUME NEW b \in Nat \ {0}, NEW n \in Int
  PROVE  n = b * (n \div b) + (n % b) /\ n % b \in 0 .. b - 1 /\ n \div b \in Int
  <1>1. n = (n % b) + b * (n \div b)
    BY SMTT(60)
  <1>2. n % b \in Int /\ 0 <= n % b /\ n % b < b /\ n \div b \in Int
    OBVIOUS
  <1> DEFINE q == n \div b  m == n % b
  <1>3. b * q \in Int /\ m \in Int /\ m \in 0 .. b - 1 /\ q \in Int
    BY <1>2
  <1>4. n = m + b * q
    BY <1>1
  <1> HIDE DEF q, m
  <1>5. n = b * q + m
    BY <1>3, <1>4
  <1>6. QED
    BY <1>3, <1>5 DEF q, m

LEMMA MultipleOf ==
  ASSUME NEW b \in Nat \ {0}, NEW k \in Int
  PROVE  (b * k) % b = 0
  <1> DEFINE n == b * k
             q == n \div b
             m == n % b
  <1>1. n \in Int
    OBVIOUS
  <1> HIDE DEF n
  <1>2. n = b * q + m /\ m \in 0 .. b - 1 /\ q \in Int
    BY <1>1, DivisionBy
  <1> HIDE DEF q, m
  <1>3. b * (k - q) = m
    <2>1. b * (k - q) = b * k - b * q /\ b * k \in Int /\ b * q \in Int
      BY <1>2
    <2>2. QED
      BY <1>2, <2>1 DEF n
  <1>4. CASE k - q >= 1
    <2>1. b * (k - q) >= b
      BY <1>2, <1>4
    <2>2. QED
      BY <1>2, <1>3, <2>1
  <1>5. CASE k - q <= -1
    <2>1. b * (k - q) <= -b
      BY <1>2, <1>5
    <2>2. QED
      BY <1>2, <1>3, <2>1
  <1>6. CASE k - q = 0
    BY <1>2, <1>3, <1>6 DEF m, n
  <1>7. QED
    BY <1>2, <1>4, <1>5, <1>6

LEMMA AlignedUp ==
  ASSUME NEW n \in Nat, NEW alignment \in Nat \ {0}
  PROVE  LET first == Heap!AlignUp(n, alignment)
         IN  first \in Nat /\ n <= first /\ first < n + alignment /\ \E k \in Nat : first = alignment * k
  <1> DEFINE up == n + alignment - 1
             k == up \div alignment
             m == up % alignment
  <1>1. up \in Nat /\ up = n + alignment - 1
    OBVIOUS
  <1> HIDE DEF up
  <1>2. up = alignment * k + m /\ m \in 0 .. alignment - 1 /\ k \in Int
    BY <1>1, DivisionBy
  <1>3. Heap!AlignUp(n, alignment) = k * alignment
    BY DEF Heap!AlignUp, up
  <1> HIDE DEF k, m
  <1>4. k * alignment = alignment * k /\ alignment * k \in Int
    BY <1>2
  <1>5. n <= alignment * k /\ alignment * k < n + alignment
    BY <1>1, <1>2, <1>4
  <1>6. k >= 0
    <2>1. SUFFICES ASSUME k <= -1 PROVE FALSE
      BY <1>2
    <2>2. alignment * k <= -alignment
      BY <1>2, <2>1
    <2>3. QED
      BY <1>4, <1>5, <2>2
  <1>7. QED
    BY <1>2, <1>3, <1>4, <1>5, <1>6

LEMMA PagesCover ==
  ASSUME HeapConstants, NEW size \in Nat
  PROVE  Heap!EFI_SIZE_TO_PAGES(size) \in Nat /\ Heap!EFI_SIZE_TO_PAGES(size) * SIZE_4KB >= size
  <1>1. SIZE_4KB \in Nat \ {0}
    BY DEF HeapConstants
  <1>2. Heap!AlignUp(size, SIZE_4KB) = Heap!EFI_SIZE_TO_PAGES(size) * SIZE_4KB
    BY DEF Heap!AlignUp, Heap!EFI_SIZE_TO_PAGES
  <1> DEFINE up == size + SIZE_4KB - 1
             k == up \div SIZE_4KB
             m == up % SIZE_4KB
  <1>3. up \in Nat
    BY <1>1
  <1> HIDE DEF up
  <1>4. up = SIZE_4KB * k + m /\ m \in 0 .. SIZE_4KB - 1 /\ k \in Int
    BY <1>1, <1>3, DivisionBy
  <1>5. k = Heap!EFI_SIZE_TO_PAGES(size)
    BY DEF Heap!EFI_SIZE_TO_PAGES, up
  <1> HIDE DEF k, m
  <1>6. k >= 0
    <2>1. SUFFICES ASSUME k <= -1 PROVE FALSE
      BY <1>4
    <2>2. SIZE_4KB * k <= -SIZE_4KB /\ SIZE_4KB * k \in Int
      BY <1>1, <1>4, <2>1
    <2>3. QED
      BY <1>1, <1>3, <1>4, <2>2
  <1>7. size <= Heap!AlignUp(size, SIZE_4KB)
    BY <1>1, AlignedUp
  <1>8. QED
    BY <1>2, <1>4, <1>5, <1>6, <1>7

(* The buffer leaves room for its head, and ends where the block does.      *)
LEMMA BufferInside ==
  ASSUME NEW allocated \in Nat, NEW alignment \in Nat, HeapConstants, alignment >= SIZE_4KB
  PROVE  LET buffer == Heap!AlignedBuffer(allocated, alignment)
         IN  /\ buffer \in Nat /\ allocated + HeadSize <= buffer
             /\ buffer < allocated + 2 * alignment
             /\ \E k \in Nat : buffer = alignment * k
  <1>1. SIZE_4KB \in Nat \ {0} /\ HeadSize \in 1 .. SIZE_4KB /\ alignment \in Nat \ {0}
    BY DEF HeapConstants
  <1>2. PICK first : first = Heap!AlignUp(allocated, alignment)
    OBVIOUS
  <1>3. /\ first \in Nat /\ allocated <= first /\ first < allocated + alignment
        /\ \E k \in Nat : first = alignment * k
    BY <1>1, <1>2, AlignedUp
  <1>4. PICK k \in Nat : first = alignment * k
    BY <1>3
  <1>5. PICK buffer : buffer = Heap!AlignedBuffer(allocated, alignment)
    OBVIOUS
  <1>6. buffer = IF first - allocated < HeadSize THEN first + alignment ELSE first
    BY <1>2, <1>5 DEF Heap!AlignedBuffer
  <1>7. CASE first - allocated < HeadSize
    <2>1. buffer = alignment * (k + 1) /\ k + 1 \in Nat
      BY <1>1, <1>4, <1>6, <1>7
    <2>2. buffer \in Nat /\ allocated + HeadSize <= buffer /\ buffer < allocated + 2 * alignment
      BY <1>1, <1>3, <1>6, <1>7
    <2>3. QED
      BY <1>5, <2>1, <2>2
  <1>8. CASE ~(first - allocated < HeadSize)
    <2>1. buffer \in Nat /\ allocated + HeadSize <= buffer /\ buffer < allocated + 2 * alignment
      BY <1>1, <1>3, <1>6, <1>8
    <2>2. QED
      BY <1>4, <1>5, <1>6, <1>8, <2>1
  <1>9. QED
    BY <1>7, <1>8

(* What is aligned to the larger of a page and an alignment is aligned to    *)
(* both.                                                                    *)
LEMMA AlignedToBoth ==
  ASSUME HeapConstants, NEW asked \in Alignments \cup {SIZE_4KB}, NEW k \in Nat
  PROVE  LET alignment == IF asked < SIZE_4KB THEN SIZE_4KB ELSE asked
         IN  (alignment * k) % asked = 0 /\ (alignment * k) % SIZE_4KB = 0
  <1>1. SIZE_4KB \in Nat \ {0} /\ asked \in Nat \ {0}
    BY DEF HeapConstants
  <1>2. PICK m \in Nat : asked = m * SIZE_4KB \/ SIZE_4KB = m * asked
    <2>1. SIZE_4KB = 1 * SIZE_4KB
      BY <1>1
    <2>2. QED
      BY <2>1 DEF HeapConstants
  <1>3. CASE asked < SIZE_4KB
    <2>1. SIZE_4KB = m * asked
      <3>1. SUFFICES ASSUME asked = m * SIZE_4KB PROVE FALSE
        BY <1>2
      <3>2. m = 0 \/ m * SIZE_4KB >= SIZE_4KB
        BY <1>1
      <3>3. QED
        BY <1>1, <1>3, <3>1, <3>2
    <2>2. SIZE_4KB * k = asked * (m * k) /\ m * k \in Int
      BY <1>1, <2>1
    <2>3. (SIZE_4KB * k) % asked = 0
      BY <1>1, <2>2, MultipleOf
    <2>4. (SIZE_4KB * k) % SIZE_4KB = 0
      BY <1>1, MultipleOf
    <2>5. QED
      BY <1>3, <2>3, <2>4
  <1>4. CASE ~(asked < SIZE_4KB)
    <2>1. PICK j \in Nat : asked = SIZE_4KB * j
      <3>1. CASE asked = m * SIZE_4KB
        BY <1>1, <3>1
      <3>2. CASE SIZE_4KB = m * asked
        <4>1. m = 0 \/ m = 1 \/ m * asked >= 2 * asked
          BY <1>1
        <4>2. m = 1
          BY <1>1, <1>4, <3>2, <4>1
        <4>3. asked = SIZE_4KB * 1
          BY <1>1, <3>2, <4>2
        <4>4. QED
          BY <4>3
      <3>3. QED
        BY <1>2, <3>1, <3>2
    <2>2. asked * k = SIZE_4KB * (j * k) /\ j * k \in Int
      BY <1>1, <2>1
    <2>3. (asked * k) % SIZE_4KB = 0
      BY <1>1, <2>2, MultipleOf
    <2>4. (asked * k) % asked = 0
      BY <1>1, MultipleOf
    <2>5. QED
      BY <1>4, <2>3, <2>4
  <1>5. QED
    BY <1>3, <1>4

(***************************************************************************)
(* Blocks of malloc are apart; every block has one owner and every owner a *)
(* block of its own; there are as many blocks as owners; and the pages     *)
(* that are owned lie inside their blocks, below them heads that say so.   *)
(***************************************************************************)
BlockRecords == [address : Nat, size : Nat \ {0}]

HeapTypes ==
  /\ blocks \in SUBSET BlockRecords /\ IsFiniteSet(blocks)
  /\ pages \in SUBSET [address : Nat, pages : Nat, alignment : Nat \ {0}, block : BlockRecords]
  /\ pools \in SUBSET [block : BlockRecords, contents : {"any", "zero", "copy"}]
  /\ IsFiniteSet(pages) /\ IsFiniteSet(pools)
  /\ DOMAIN heads \subseteq Nat

BlocksApart ==
  \A b1, b2 \in blocks : b1 # b2 => ~Heap!Overlaps(b1.address, b1.size, b2.address, b2.size)

OneOwnerEach ==
  /\ \A p \in pages : p.block \in blocks
  /\ \A q \in pools : q.block \in blocks
  /\ \A p1, p2 \in pages : p1.block = p2.block => p1 = p2
  /\ \A q1, q2 \in pools : q1.block = q2.block => q1 = q2
  /\ \A p \in pages, q \in pools : p.block # q.block
  /\ \A b \in blocks : (\E p \in pages : p.block = b) \/ (\E q \in pools : q.block = b)

OwnersCounted == Cardinality(blocks) = Cardinality(pages) + Cardinality(pools)

HeapInv == HeapTypes /\ BlocksApart /\ OneOwnerEach /\ OwnersCounted /\ Heap!PagesInside

LEMMA HeapImplies == HeapInv => AllocationsSound
  <1>1. SUFFICES ASSUME HeapInv PROVE AllocationsSound
    OBVIOUS
  <1>2. Heap!Cardinality(blocks) = Heap!Cardinality(pages) + Heap!Cardinality(pools)
    <2>1. /\ Heap!Cardinality(blocks) = Cardinality(blocks)
          /\ Heap!Cardinality(pages) = Cardinality(pages)
          /\ Heap!Cardinality(pools) = Cardinality(pools)
      BY Zenon DEF Heap!Cardinality, Cardinality
    <2>2. QED
      BY <1>1, <2>1 DEF HeapInv, OwnersCounted
  <1>3. blocks = { p.block : p \in pages } \cup { q.block : q \in pools }
    BY <1>1 DEF HeapInv, OneOwnerEach
  <1>4. QED
    BY <1>1, <1>2, <1>3 DEF HeapInv, AllocationsSound, Heap!AllocationsSound, Heap!EachBlockOwned

(* Blocks apart do not start at the same place.                             *)
LEMMA AddressesDiffer ==
  ASSUME HeapTypes, BlocksApart, NEW b1 \in blocks, NEW b2 \in blocks, b1.address = b2.address
  PROVE  b1 = b2
  <1>1. SUFFICES ASSUME b1 # b2 PROVE FALSE
    OBVIOUS
  <1>2. ~Heap!Overlaps(b1.address, b1.size, b2.address, b2.size)
    BY <1>1 DEF BlocksApart
  <1>3. /\ b1.address \in Nat /\ b1.size \in Nat \ {0}
        /\ b2.address \in Nat /\ b2.size \in Nat \ {0}
    BY DEF HeapTypes, BlockRecords
  <1>4. /\ b1.address \in Heap!Units(b1.address, b1.size)
        /\ b1.address \in Heap!Units(b2.address, b2.size)
    BY <1>3 DEF Heap!Units
  <1>5. QED
    BY <1>2, <1>4 DEF Heap!Overlaps

(* Writing over what lies inside a block, or where no block is, leaves the  *)
(* heads of pages in other blocks.                                          *)
LEMMA HeadsStay ==
  ASSUME HeapConstants, HeapTypes, Heap!PagesInside, NEW at \in Int, NEW size \in Int,
         NEW p \in pages, ~Heap!Overlaps(at, size, p.block.address, p.block.size)
  PROVE  p.address \in Heap!Kept(at, size)
  <1>1. /\ Heap!Units(p.address - HeadSize, HeadSize + p.pages * SIZE_4KB)
              \subseteq Heap!Units(p.block.address, p.block.size)
        /\ p.address \in DOMAIN heads
    BY DEF Heap!PagesInside
  <1>2. p.address \in Nat /\ p.pages \in Nat /\ HeadSize \in Nat /\ SIZE_4KB \in Nat
    BY DEF HeapTypes, HeapConstants
  <1>3. p.pages * SIZE_4KB \in Nat
    BY <1>2
  <1>4. Heap!Units(p.address - HeadSize, HeadSize)
          \subseteq Heap!Units(p.address - HeadSize, HeadSize + p.pages * SIZE_4KB)
    <2>1. SUFFICES ASSUME NEW head, NEW n, head = p.address - HeadSize, n = p.pages * SIZE_4KB
                   PROVE  Heap!Units(head, HeadSize) \subseteq Heap!Units(head, HeadSize + n)
      OBVIOUS
    <2>2. head \in Int /\ n \in Nat
      BY <1>2, <1>3, <2>1
    <2>3. QED
      BY <1>2, <2>2 DEF Heap!Units
  <1>5. Heap!Units(at, size) \cap Heap!Units(p.block.address, p.block.size) = {}
    BY DEF Heap!Overlaps
  <1>6. Heap!Units(p.address - HeadSize, HeadSize) \cap Heap!Units(at, size) = {}
    BY <1>1, <1>4, <1>5
  <1>7. ~Heap!Overlaps(p.address - HeadSize, HeadSize, at, size)
    BY <1>6 DEF Heap!Overlaps
  <1>8. QED
    BY <1>1, <1>7 DEF Heap!Kept

LEMMA OverlapsSymmetric ==
  ASSUME NEW n1, NEW size1, NEW n2, NEW size2, ~Heap!Overlaps(n1, size1, n2, size2)
  PROVE  ~Heap!Overlaps(n2, size2, n1, size1)
  BY DEF Heap!Overlaps

(* malloc gives a block that is apart from all others.                      *)
LEMMA NewBlock ==
  ASSUME HeapInv, NEW size \in Nat \ {0}, NEW n \in Nat,
         \A b \in blocks : ~Heap!Overlaps(n, size, b.address, b.size),
         NEW block, block = [address |-> n, size |-> size], blocks' = blocks \cup {block}
  PROVE  /\ block \in BlockRecords /\ block \notin blocks
         /\ blocks' \in SUBSET BlockRecords /\ IsFiniteSet(blocks')
         /\ BlocksApart' /\ Cardinality(blocks') = Cardinality(blocks) + 1
  <1>1. block \in BlockRecords /\ block.address = n /\ block.size = size
    BY DEF BlockRecords
  <1>2. block \notin blocks
    <2>1. SUFFICES ASSUME block \in blocks PROVE FALSE
      OBVIOUS
    <2>2. ~Heap!Overlaps(n, size, n, size)
      BY <1>1, <2>1
    <2>3. n \in Heap!Units(n, size)
      BY DEF Heap!Units
    <2>4. QED
      BY <2>2, <2>3 DEF Heap!Overlaps
  <1>3. blocks \in SUBSET BlockRecords /\ IsFiniteSet(blocks) /\ BlocksApart
    BY DEF HeapInv, HeapTypes
  <1>4. IsFiniteSet(blocks') /\ Cardinality(blocks') = Cardinality(blocks) + 1
    BY <1>2, <1>3, FS_AddElement
  <1>5. ASSUME NEW b1 \in blocks', NEW b2 \in blocks', b1 # b2
        PROVE  ~Heap!Overlaps(b1.address, b1.size, b2.address, b2.size)
    <2>1. CASE b1 \in blocks /\ b2 \in blocks
      BY <1>3, <1>5, <2>1 DEF BlocksApart
    <2>2. CASE b1 = block /\ b2 \in blocks
      BY <1>1, <2>2
    <2>3. CASE b1 \in blocks /\ b2 = block
      BY <1>1, <2>3, OverlapsSymmetric
    <2>4. QED
      BY <1>5, <2>1, <2>2, <2>3
  <1>6. QED
    BY <1>1, <1>2, <1>3, <1>4, <1>5 DEF BlocksApart

(* A block that is given back leaves the others as they were.               *)
LEMMA BlockFreed ==
  ASSUME HeapInv, NEW block \in blocks, blocks' = { b \in blocks : b.address # block.address }
  PROVE  /\ blocks' = blocks \ {block}
         /\ blocks' \in SUBSET BlockRecords /\ IsFiniteSet(blocks')
         /\ BlocksApart' /\ Cardinality(blocks') = Cardinality(blocks) - 1
  <1>1. HeapTypes /\ BlocksApart
    BY DEF HeapInv
  <1>2. blocks' = blocks \ {block}
    BY <1>1, AddressesDiffer
  <1>3. IsFiniteSet(blocks') /\ Cardinality(blocks') = Cardinality(blocks) - 1
    BY <1>1, <1>2, FS_RemoveElement DEF HeapTypes
  <1>4. QED
    BY <1>1, <1>2, <1>3 DEF HeapTypes, BlocksApart

(* A caller that writes what it was given leaves the pages of others.        *)
LEMMA PagesStay ==
  ASSUME HeapConstants, HeapInv, NEW n \in Nat, NEW size \in Nat \ {0},
         \A p \in pages : ~Heap!Overlaps(n, size, p.block.address, p.block.size),
         heads' = Heap!Overwrite(n, size), pages' = pages
  PROVE  Heap!PagesInside' /\ DOMAIN heads' \subseteq Nat
  <1>1. HeapTypes /\ Heap!PagesInside
    BY DEF HeapInv
  <1>2. DOMAIN heads' = Heap!Kept(n, size) /\ \A h \in Heap!Kept(n, size) : heads'[h] = heads[h]
    BY DEF Heap!Overwrite
  <1>3. ASSUME NEW p \in pages PROVE p.address \in Heap!Kept(n, size)
    BY <1>1, HeadsStay
  <1>4. \A p \in pages : p.address \in DOMAIN heads' /\ heads'[p.address] = heads[p.address]
    BY <1>2, <1>3
  <1>5. Heap!PagesInside'
    BY <1>1, <1>4 DEF Heap!PagesInside, Heap!Units
  <1>6. QED
    BY <1>1, <1>2, <1>5 DEF Heap!Kept, HeapTypes

LEMMA NothingAllocated ==
  ASSUME HeapInv, UNCHANGED << blocks, heads, pages, pools >>
  PROVE  HeapInv'
  BY DEF HeapInv, HeapTypes, BlocksApart, OneOwnerEach, OwnersCounted, Heap!PagesInside, Heap!Units,
         Heap!Overlaps

LEMMA PoolAllocated ==
  ASSUME HeapConstants, HeapInv, NEW size \in PoolSizes, NEW contents \in {"any", "zero", "copy"},
         Heap!Pool(size, contents, pools)
  PROVE  HeapInv'
  <1>1. SUFFICES ASSUME NEW n \in Heap!Places(size), NEW block, block = [address |-> n, size |-> size],
                        blocks' = blocks \cup {block},
                        pools' = pools \cup {[block |-> block, contents |-> contents]},
                        heads' = Heap!Overwrite(n, size), pages' = pages
                 PROVE  HeapInv'
    <2>1. CASE Heap!NoMemory
      BY <2>1, NothingAllocated DEF Heap!NoMemory
    <2>2. CASE \E n \in Heap!Places(size) :
                 LET block == [address |-> n, size |-> size]
                 IN  /\ blocks' = blocks \cup {block}
                     /\ pools' = pools \cup {[block |-> block, contents |-> contents]}
                     /\ heads' = Heap!Overwrite(n, size)
                     /\ heapCall' = "allocated"
                     /\ UNCHANGED pages
      BY <1>1, <2>2
    <2>3. QED
      BY <2>1, <2>2 DEF Heap!Pool
  <1>2. size \in Nat \ {0} /\ n \in Nat
    BY DEF Heap!Places, HeapConstants
  <1>3. \A b \in blocks : ~Heap!Overlaps(n, size, b.address, b.size)
    BY DEF Heap!Places
  <1>4. /\ block \in BlockRecords /\ block \notin blocks
        /\ blocks' \in SUBSET BlockRecords /\ IsFiniteSet(blocks')
        /\ BlocksApart' /\ Cardinality(blocks') = Cardinality(blocks) + 1
    BY <1>1, <1>2, <1>3, NewBlock
  <1>5. HeapTypes /\ OneOwnerEach /\ OwnersCounted
    BY DEF HeapInv
  <1>6. Heap!PagesInside' /\ DOMAIN heads' \subseteq Nat
    BY <1>1, <1>2, <1>3, <1>5, PagesStay DEF OneOwnerEach
  <1>7. PICK pool : pool = [block |-> block, contents |-> contents]
    OBVIOUS
  <1>8. pool \in [block : BlockRecords, contents : {"any", "zero", "copy"}] /\ pool.block = block
    BY <1>4, <1>7
  <1>9. pool \notin pools
    BY <1>4, <1>5, <1>8 DEF OneOwnerEach
  <1>10. pools' = pools \cup {pool}
    BY <1>1, <1>7
  <1>11. IsFiniteSet(pools') /\ Cardinality(pools') = Cardinality(pools) + 1
    BY <1>5, <1>9, <1>10, FS_AddElement DEF HeapTypes
  <1>12. OwnersCounted'
    <2>1. Cardinality(pages) \in Nat /\ Cardinality(pools) \in Nat
      BY <1>5, FS_CardinalityType DEF HeapTypes
    <2>2. Cardinality(pages') = Cardinality(pages)
      BY <1>1
    <2>3. QED
      BY <1>4, <1>5, <1>11, <2>1, <2>2 DEF OwnersCounted
  <1>13. HeapTypes'
    BY <1>1, <1>4, <1>5, <1>6, <1>8, <1>10, <1>11 DEF HeapTypes
  <1>14. OneOwnerEach'
    BY <1>1, <1>4, <1>5, <1>8, <1>10 DEF OneOwnerEach
  <1>15. QED
    BY <1>4, <1>6, <1>12, <1>13, <1>14 DEF HeapInv

LEMMA PoolReallocated ==
  ASSUME HeapConstants, HeapInv, NEW size \in PoolSizes, NEW pool \in pools,
         Heap!ReallocatePool(pool, size)
  PROVE  HeapInv'
  <1> DEFINE rest == { b \in blocks : b # pool.block }
  <1>1. SUFFICES ASSUME NEW n \in 1 .. HeapSize - size, NEW block, block = [address |-> n, size |-> size],
                        \A b \in rest : ~Heap!Overlaps(n, size, b.address, b.size),
                        blocks' = rest \cup {block},
                        pools' = (pools \ {pool}) \cup {[pool EXCEPT !.block = block]},
                        heads' = Heap!Overwrite(n, size), pages' = pages
                 PROVE  HeapInv'
    <2>1. CASE Heap!NoMemory
      BY <2>1, NothingAllocated DEF Heap!NoMemory
    <2>2. CASE ~Heap!NoMemory
      <3>1. PICK n \in 1 .. HeapSize - size :
              /\ \A b \in rest : ~Heap!Overlaps(n, size, b.address, b.size)
              /\ blocks' = rest \cup {[address |-> n, size |-> size]}
              /\ pools' = (pools \ {pool}) \cup {[pool EXCEPT !.block = [address |-> n, size |-> size]]}
              /\ heads' = Heap!Overwrite(n, size)
              /\ pages' = pages
        BY <2>2 DEF Heap!ReallocatePool
      <3>2. QED
        BY <1>1, <3>1
    <2>3. QED
      BY <2>1, <2>2
  <1>2. size \in Nat \ {0} /\ n \in Nat
    BY DEF HeapConstants
  <1>3. HeapTypes /\ BlocksApart /\ OneOwnerEach /\ OwnersCounted
    BY DEF HeapInv
  <1>4. pool.block \in blocks /\ rest = blocks \ {pool.block} /\ rest \in SUBSET BlockRecords
    BY <1>3 DEF OneOwnerEach, HeapTypes
  <1>5. IsFiniteSet(rest) /\ Cardinality(rest) = Cardinality(blocks) - 1
    <2> HIDE DEF rest
    <2>1. PICK old : old = pool.block
      OBVIOUS
    <2>2. rest = blocks \ {old} /\ old \in blocks /\ IsFiniteSet(blocks)
      BY <1>3, <1>4, <2>1 DEF HeapTypes
    <2>3. QED
      BY <2>2, FS_RemoveElement
  <1>6. block \in BlockRecords /\ block.address = n /\ block.size = size
    BY <1>1, <1>2 DEF BlockRecords
  <1>7. block \notin rest
    <2>1. SUFFICES ASSUME block \in rest PROVE FALSE
      OBVIOUS
    <2>2. ~Heap!Overlaps(n, size, n, size)
      BY <1>1, <1>6, <2>1
    <2>3. n \in Heap!Units(n, size)
      BY <1>2 DEF Heap!Units
    <2>4. QED
      BY <2>2, <2>3 DEF Heap!Overlaps
  <1>8. rest \subseteq blocks
    OBVIOUS
  <1> HIDE DEF rest
  <1>9. IsFiniteSet(blocks') /\ Cardinality(blocks') = Cardinality(blocks)
    <2>1. IsFiniteSet(blocks') /\ Cardinality(blocks') = Cardinality(rest) + 1
      BY <1>1, <1>5, <1>7, FS_AddElement
    <2>2. Cardinality(blocks) \in Nat
      BY <1>3, FS_CardinalityType DEF HeapTypes
    <2>3. QED
      BY <1>5, <2>1, <2>2
  <1>10. BlocksApart'
    <2>1. ASSUME NEW b1 \in blocks', NEW b2 \in blocks', b1 # b2
          PROVE  ~Heap!Overlaps(b1.address, b1.size, b2.address, b2.size)
      <3>1. CASE b1 \in rest /\ b2 \in rest
        BY <1>3, <1>8, <2>1, <3>1 DEF BlocksApart
      <3>2. CASE b1 = block /\ b2 \in rest
        BY <1>1, <1>6, <3>2
      <3>3. CASE b1 \in rest /\ b2 = block
        BY <1>1, <1>6, <3>3, OverlapsSymmetric
      <3>4. QED
        BY <1>1, <2>1, <3>1, <3>2, <3>3
    <2>2. QED
      BY <2>1 DEF BlocksApart
  <1>11. \A p \in pages : p.block \in rest
    BY <1>3, <1>4 DEF OneOwnerEach
  <1>12. Heap!PagesInside' /\ DOMAIN heads' \subseteq Nat
    BY <1>1, <1>2, <1>11, PagesStay
  <1>13. PICK moved : moved = [pool EXCEPT !.block = block]
    OBVIOUS
  <1>14. moved \in [block : BlockRecords, contents : {"any", "zero", "copy"}] /\ moved.block = block
    BY <1>3, <1>6, <1>13 DEF HeapTypes
  <1>15. \A q \in pools \ {pool} : q.block \in rest
    BY <1>3, <1>4 DEF OneOwnerEach
  <1>16. moved \notin pools \ {pool}
    BY <1>7, <1>14, <1>15
  <1>17. pools' = (pools \ {pool}) \cup {moved}
    BY <1>1, <1>13
  <1>18. IsFiniteSet(pools') /\ Cardinality(pools') = Cardinality(pools)
    <2>1. /\ IsFiniteSet(pools \ {pool}) /\ Cardinality(pools \ {pool}) = Cardinality(pools) - 1
          /\ Cardinality(pools) \in Nat
      BY <1>3, FS_RemoveElement, FS_CardinalityType DEF HeapTypes
    <2>2. IsFiniteSet(pools') /\ Cardinality(pools') = Cardinality(pools \ {pool}) + 1
      BY <1>16, <1>17, <2>1, FS_AddElement
    <2>3. QED
      BY <2>1, <2>2
  <1>19. OwnersCounted'
    BY <1>1, <1>3, <1>9, <1>18 DEF OwnersCounted
  <1>20. HeapTypes'
    BY <1>1, <1>3, <1>4, <1>6, <1>9, <1>12, <1>14, <1>17, <1>18 DEF HeapTypes
  <1>21. OneOwnerEach'
    <2>1. \A q1, q2 \in pools \ {pool} : q1.block = q2.block => q1 = q2
      BY <1>3 DEF OneOwnerEach
    <2>2. \A p1, p2 \in pages : p1.block = p2.block => p1 = p2
      BY <1>3 DEF OneOwnerEach
    <2>3. \A p \in pages, q \in pools \ {pool} : p.block # q.block
      BY <1>3 DEF OneOwnerEach
    <2>4. \A b \in rest : \/ \E p \in pages : p.block = b
                          \/ \E q \in pools \ {pool} : q.block = b
      BY <1>3, <1>4 DEF OneOwnerEach
    <2>5. \A b \in blocks' : (\E p \in pages : p.block = b) \/ (\E q \in pools' : q.block = b)
      BY <1>1, <1>14, <1>17, <2>4
    <2>6. \A q1, q2 \in pools' : q1.block = q2.block => q1 = q2
      BY <1>7, <1>14, <1>15, <1>17, <2>1
    <2>7. \A p \in pages, q \in pools' : p.block # q.block
      BY <1>7, <1>11, <1>14, <1>17, <2>3
    <2>8. \A q \in pools' : q.block \in blocks'
      BY <1>1, <1>14, <1>15, <1>17
    <2>9. \A p \in pages : p.block \in blocks'
      BY <1>1, <1>11
    <2>10. QED
      BY <1>1, <2>2, <2>5, <2>6, <2>7, <2>8, <2>9 DEF OneOwnerEach
  <1>22. QED
    BY <1>10, <1>12, <1>19, <1>20, <1>21 DEF HeapInv

LEMMA PoolFreed ==
  ASSUME HeapInv, NEW pool \in pools, Heap!FreePool(pool)
  PROVE  HeapInv'
  <1>1. /\ blocks' = { b \in blocks : b.address # pool.block.address }
        /\ pools' = pools \ {pool} /\ heads' = heads /\ pages' = pages
    BY DEF Heap!FreePool
  <1>2. HeapTypes /\ OneOwnerEach /\ OwnersCounted /\ Heap!PagesInside
    BY DEF HeapInv
  <1>3. pool.block \in blocks
    BY <1>2 DEF OneOwnerEach
  <1>4. /\ blocks' = blocks \ {pool.block}
        /\ blocks' \in SUBSET BlockRecords /\ IsFiniteSet(blocks')
        /\ BlocksApart' /\ Cardinality(blocks') = Cardinality(blocks) - 1
    BY <1>1, <1>3, BlockFreed
  <1>5. IsFiniteSet(pools') /\ Cardinality(pools') = Cardinality(pools) - 1
    BY <1>1, <1>2, FS_RemoveElement DEF HeapTypes
  <1>6. OwnersCounted'
    <2>1. Cardinality(pages) \in Nat /\ Cardinality(pools) \in Nat
      BY <1>2, FS_CardinalityType DEF HeapTypes
    <2>2. QED
      BY <1>1, <1>2, <1>4, <1>5, <2>1 DEF OwnersCounted
  <1>7. HeapTypes'
    BY <1>1, <1>2, <1>4, <1>5 DEF HeapTypes
  <1>8. OneOwnerEach'
    BY <1>1, <1>2, <1>4 DEF OneOwnerEach
  <1>9. Heap!PagesInside'
    BY <1>1, <1>2 DEF Heap!PagesInside, Heap!Units
  <1>10. QED
    BY <1>4, <1>6, <1>7, <1>8, <1>9 DEF HeapInv

LEMMA PagesAllocated ==
  ASSUME HeapConstants, HeapInv, NEW count \in PageCounts, NEW asked \in Alignments \cup {SIZE_4KB},
         Heap!AllocateAlignedPages(count, asked)
  PROVE  HeapInv'
  <1>1. PICK alignment : alignment = IF asked < SIZE_4KB THEN SIZE_4KB ELSE asked
    OBVIOUS
  <1>2. PICK reserved : reserved = Heap!EFI_SIZE_TO_PAGES(alignment)
    OBVIOUS
  <1>3. PICK size : size = (count + reserved * 2) * SIZE_4KB
    OBVIOUS
  <1>4. SUFFICES ASSUME NEW allocated \in Heap!Places(size), NEW block, NEW buffer, NEW new,
                        block = [address |-> allocated, size |-> size],
                        buffer = Heap!AlignedBuffer(allocated, alignment),
                        new = [ address |-> buffer, pages |-> count, alignment |-> asked,
                                block |-> block ],
                        blocks' = blocks \cup {block},
                        heads' = [ h \in Heap!Kept(buffer, count * SIZE_4KB) \cup {buffer} |->
                                     IF h = buffer
                                     THEN [allocated |-> allocated, alignedPages |-> count]
                                     ELSE heads[h] ],
                        pages' = pages \cup {new}, pools' = pools
                 PROVE  HeapInv'
    <2>1. CASE Heap!NoMemory
      BY <2>1, NothingAllocated DEF Heap!NoMemory
    <2>2. CASE ~Heap!NoMemory
      <3>1. PICK allocated \in Heap!Places(size) :
              LET buffer == Heap!AlignedBuffer(allocated, alignment)
              IN  /\ blocks' = blocks \cup {[address |-> allocated, size |-> size]}
                  /\ heads' = [ a \in Heap!Kept(buffer, count * SIZE_4KB) \cup {buffer} |->
                                   IF a = buffer THEN [allocated |-> allocated, alignedPages |-> count]
                                   ELSE heads[a] ]
                  /\ pages' = pages \cup {[ address |-> buffer, pages |-> count, alignment |-> asked,
                                             block |-> [address |-> allocated, size |-> size] ]}
                  /\ heapCall' = "allocated"
                  /\ UNCHANGED pools
        BY <1>1, <1>2, <1>3, <2>2 DEF Heap!AllocateAlignedPages
      <3>2. PICK buffer : buffer = Heap!AlignedBuffer(allocated, alignment)
        OBVIOUS
      <3>3. PICK block : block = [address |-> allocated, size |-> size]
        OBVIOUS
      <3>4. PICK new : new = [ address |-> buffer, pages |-> count, alignment |-> asked,
                               block |-> block ]
        OBVIOUS
      <3>5. /\ blocks' = blocks \cup {block} /\ pages' = pages \cup {new} /\ pools' = pools
            /\ heads' = [ h \in Heap!Kept(buffer, count * SIZE_4KB) \cup {buffer} |->
                             IF h = buffer THEN [allocated |-> allocated, alignedPages |-> count]
                             ELSE heads[h] ]
        BY <3>1, <3>2, <3>3, <3>4
      <3>6. QED
        BY <1>4, <3>2, <3>3, <3>4, <3>5
    <2>3. QED
      BY <2>1, <2>2
  <1>5. /\ SIZE_4KB \in Nat \ {0} /\ HeadSize \in 1 .. SIZE_4KB /\ count \in Nat
        /\ asked \in Nat \ {0}
    BY DEF HeapConstants
  <1>6. alignment \in Nat /\ alignment >= SIZE_4KB
    BY <1>1, <1>5
  <1>7. reserved \in Nat /\ reserved * SIZE_4KB >= alignment
    BY <1>2, <1>6, PagesCover
  <1>8. PICK n : n = count * SIZE_4KB
    OBVIOUS
  <1>9. PICK r : r = reserved * SIZE_4KB
    OBVIOUS
  <1>10. n \in Nat /\ r \in Nat /\ r >= alignment /\ size = n + 2 * r
    <2>1. size = count * SIZE_4KB + 2 * (reserved * SIZE_4KB)
      BY <1>3, <1>5, <1>7
    <2>2. QED
      BY <1>5, <1>7, <1>8, <1>9, <2>1
  <1>11. size \in Nat \ {0} /\ allocated \in Nat
    BY <1>5, <1>6, <1>10 DEF Heap!Places, HeapConstants
  <1>12. \A b \in blocks : ~Heap!Overlaps(allocated, size, b.address, b.size)
    BY DEF Heap!Places
  <1>13. /\ block \in BlockRecords /\ block \notin blocks
         /\ blocks' \in SUBSET BlockRecords /\ IsFiniteSet(blocks')
         /\ BlocksApart' /\ Cardinality(blocks') = Cardinality(blocks) + 1
    BY <1>4, <1>11, <1>12, NewBlock
  <1>14. HeapTypes /\ OneOwnerEach /\ OwnersCounted /\ Heap!PagesInside
    BY DEF HeapInv
  <1>15. /\ buffer \in Nat /\ allocated + HeadSize <= buffer
         /\ buffer < allocated + 2 * alignment
         /\ \E k \in Nat : buffer = alignment * k
    BY <1>4, <1>6, <1>11, BufferInside
  <1>16. buffer % asked = 0 /\ buffer % SIZE_4KB = 0
    <2>1. PICK k \in Nat : buffer = alignment * k
      BY <1>15
    <2>2. QED
      BY <1>1, <2>1, AlignedToBoth
  <1>17. Heap!Units(buffer - HeadSize, HeadSize + n) \subseteq Heap!Units(allocated, size)
    BY <1>5, <1>6, <1>10, <1>11, <1>15 DEF Heap!Units
  <1>18. /\ new.address = buffer /\ new.pages = count /\ new.alignment = asked /\ new.block = block
         /\ new \in [address : Nat, pages : Nat, alignment : Nat \ {0}, block : BlockRecords]
         /\ block.address = allocated /\ block.size = size
    BY <1>4, <1>5, <1>13, <1>15
  <1>19. new \notin pages
    BY <1>13, <1>14, <1>18 DEF OneOwnerEach
  <1>20. /\ DOMAIN heads' = Heap!Kept(buffer, n) \cup {buffer}
         /\ heads'[buffer] = [allocated |-> allocated, alignedPages |-> count]
         /\ \A h \in Heap!Kept(buffer, n) : h # buffer => heads'[h] = heads[h]
    BY <1>4, <1>8
  <1>21. ASSUME NEW p \in pages
         PROVE  p.address \in Heap!Kept(buffer, n) /\ p.address # buffer
    <2>1. p.block \in blocks
      BY <1>14 DEF OneOwnerEach
    <2>2. Heap!Units(allocated, size) \cap Heap!Units(p.block.address, p.block.size) = {}
      BY <1>12, <2>1 DEF Heap!Overlaps
    <2>3. Heap!Units(buffer, n) \subseteq Heap!Units(buffer - HeadSize, HeadSize + n)
      BY <1>5, <1>10, <1>15 DEF Heap!Units
    <2>4. ~Heap!Overlaps(buffer, n, p.block.address, p.block.size)
      BY <1>17, <2>2, <2>3 DEF Heap!Overlaps
    <2>5. p.address \in Heap!Kept(buffer, n)
      BY <1>10, <1>14, <1>15, <2>4, HeadsStay
    <2>6. buffer - HeadSize \in Heap!Units(buffer - HeadSize, HeadSize + n)
      BY <1>5, <1>10, <1>15 DEF Heap!Units
    <2>7. p.address - HeadSize \in Heap!Units(p.block.address, p.block.size)
      <3>1. /\ Heap!Units(p.address - HeadSize, HeadSize + p.pages * SIZE_4KB)
                 \subseteq Heap!Units(p.block.address, p.block.size)
        BY <1>14 DEF Heap!PagesInside
      <3>2. p.address \in Nat /\ p.pages \in Nat
        BY <1>14 DEF HeapTypes
      <3>3. PICK head : head = p.address - HeadSize
        OBVIOUS
      <3>4. PICK m : m = p.pages * SIZE_4KB
        OBVIOUS
      <3>5. head \in Int /\ m \in Nat
        BY <1>5, <3>2, <3>3, <3>4
      <3>6. head \in Heap!Units(head, HeadSize + m)
        BY <1>5, <3>5 DEF Heap!Units
      <3>7. QED
        BY <3>1, <3>3, <3>4, <3>6
    <2>8. p.address # buffer
      BY <1>17, <2>2, <2>6, <2>7
    <2>9. QED
      BY <2>5, <2>8
  <1>22. Heap!PagesInside'
    <2>1. ASSUME NEW p \in pages'
          PROVE  /\ p.address % p.alignment = 0 /\ p.address % SIZE_4KB = 0
                 /\ Heap!Units(p.address - HeadSize, HeadSize + p.pages * SIZE_4KB)
                      \subseteq Heap!Units(p.block.address, p.block.size)
                 /\ p.address \in DOMAIN heads'
                 /\ heads'[p.address] = [allocated |-> p.block.address, alignedPages |-> p.pages]
      <3>1. CASE p \in pages
        <4>1. p.address \in Heap!Kept(buffer, n) /\ p.address # buffer
          BY <1>21, <3>1
        <4>2. p.address \in DOMAIN heads' /\ heads'[p.address] = heads[p.address]
          BY <1>20, <4>1
        <4>3. QED
          BY <1>14, <3>1, <4>2 DEF Heap!PagesInside
      <3>2. CASE p = new
        <4>1. p.address = buffer /\ p.pages = count /\ p.alignment = asked
          BY <1>18, <3>2
        <4>2. p.block.address = allocated /\ p.block.size = size
          BY <1>18, <3>2
        <4>3. p.pages * SIZE_4KB = n
          BY <1>8, <4>1
        <4>4. QED
          BY <1>16, <1>17, <1>20, <4>1, <4>2, <4>3
      <3>3. QED
        BY <1>4, <3>1, <3>2
    <2>2. QED
      BY <2>1 DEF Heap!PagesInside, Heap!Units
  <1>23. IsFiniteSet(pages') /\ Cardinality(pages') = Cardinality(pages) + 1
    BY <1>4, <1>14, <1>19, FS_AddElement DEF HeapTypes
  <1>24. OwnersCounted'
    <2>1. Cardinality(pages) \in Nat /\ Cardinality(pools) \in Nat
      BY <1>14, FS_CardinalityType DEF HeapTypes
    <2>2. Cardinality(pools') = Cardinality(pools)
      BY <1>4
    <2>3. QED
      BY <1>13, <1>14, <1>23, <2>1, <2>2 DEF OwnersCounted
  <1>25. DOMAIN heads' \subseteq Nat
    BY <1>14, <1>15, <1>20 DEF HeapTypes, Heap!Kept
  <1>26. HeapTypes'
    BY <1>4, <1>13, <1>14, <1>18, <1>23, <1>25 DEF HeapTypes
  <1>27. OneOwnerEach'
    <2>1. \A p \in pages : p.block \in blocks
      BY <1>14 DEF OneOwnerEach
    <2>2. \A q \in pools' : q.block \in blocks
      BY <1>4, <1>14 DEF OneOwnerEach
    <2>3. \A p1, p2 \in pages' : p1.block = p2.block => p1 = p2
      BY <1>4, <1>13, <1>14, <1>18, <2>1 DEF OneOwnerEach
    <2>4. \A p \in pages', q \in pools' : p.block # q.block
      BY <1>4, <1>13, <1>14, <1>18, <2>2 DEF OneOwnerEach
    <2>5. \A b \in blocks' : (\E p \in pages' : p.block = b) \/ (\E q \in pools' : q.block = b)
      BY <1>4, <1>14, <1>18 DEF OneOwnerEach
    <2>6. \A p \in pages' : p.block \in blocks'
      BY <1>4, <1>18, <2>1
    <2>7. \A q1, q2 \in pools' : q1.block = q2.block => q1 = q2
      BY <1>4, <1>14 DEF OneOwnerEach
    <2>8. \A q \in pools' : q.block \in blocks'
      BY <1>4, <2>2
    <2>9. QED
      BY <2>3, <2>4, <2>5, <2>6, <2>7, <2>8 DEF OneOwnerEach
  <1>28. QED
    BY <1>13, <1>22, <1>24, <1>26, <1>27 DEF HeapInv

LEMMA PagesFreed ==
  ASSUME HeapInv, NEW page \in pages, NEW count, Heap!FreeAlignedPages(page.address, count)
  PROVE  HeapInv'
  <1>1. HeapTypes /\ BlocksApart /\ OneOwnerEach /\ OwnersCounted /\ Heap!PagesInside
    BY DEF HeapInv
  <1>2. /\ page.address \in DOMAIN heads
        /\ heads[page.address] = [allocated |-> page.block.address, alignedPages |-> page.pages]
    BY <1>1 DEF Heap!PagesInside
  <1>3. heads[page.address].allocated = page.block.address
    BY <1>2
  <1>4. SUFFICES ASSUME blocks' = { b \in blocks : b.address # page.block.address },
                        heads' = [h \in DOMAIN heads \ {page.address} |-> heads[h]],
                        pages' = { p \in pages : p.address # page.address }, pools' = pools
                 PROVE  HeapInv'
    <2>1. CASE UNCHANGED << blocks, heads, pages, pools >>
      BY <2>1, NothingAllocated
    <2>2. CASE ~UNCHANGED << blocks, heads, pages, pools >>
      BY <1>2, <1>3, <1>4, <2>2 DEF Heap!FreeAlignedPages
    <2>3. QED
      BY <2>1, <2>2
  <1>5. page.block \in blocks
    BY <1>1 DEF OneOwnerEach
  <1>6. /\ blocks' = blocks \ {page.block}
        /\ blocks' \in SUBSET BlockRecords /\ IsFiniteSet(blocks')
        /\ BlocksApart' /\ Cardinality(blocks') = Cardinality(blocks) - 1
    BY <1>4, <1>5, BlockFreed
  <1>7. ASSUME NEW p \in pages, p.address = page.address PROVE p = page
    <2>1. heads[p.address] = [allocated |-> p.block.address, alignedPages |-> p.pages]
      BY <1>1 DEF Heap!PagesInside
    <2>2. heads[p.address].allocated = p.block.address
      BY <2>1
    <2>3. p.block.address = page.block.address
      BY <1>3, <1>7, <2>2
    <2>4. p.block \in blocks
      BY <1>1 DEF OneOwnerEach
    <2>5. p.block = page.block
      BY <1>1, <1>5, <2>3, <2>4, AddressesDiffer
    <2>6. QED
      BY <1>1, <2>5 DEF OneOwnerEach
  <1>8. pages' = pages \ {page}
    BY <1>4, <1>7
  <1>9. IsFiniteSet(pages') /\ Cardinality(pages') = Cardinality(pages) - 1
    BY <1>1, <1>8, FS_RemoveElement DEF HeapTypes
  <1>10. OwnersCounted'
    <2>1. Cardinality(pages) \in Nat /\ Cardinality(pools) \in Nat
      BY <1>1, FS_CardinalityType DEF HeapTypes
    <2>2. Cardinality(pools') = Cardinality(pools)
      BY <1>4
    <2>3. QED
      BY <1>1, <1>6, <1>9, <2>1, <2>2 DEF OwnersCounted
  <1>11. DOMAIN heads' = DOMAIN heads \ {page.address}
    BY <1>4
  <1>12. HeapTypes'
    BY <1>1, <1>4, <1>6, <1>8, <1>9, <1>11 DEF HeapTypes
  <1>13. OneOwnerEach'
    BY <1>1, <1>4, <1>6, <1>8 DEF OneOwnerEach
  <1>14. \A p \in pages' : p \in pages /\ p.address \in DOMAIN heads \ {page.address}
    BY <1>1, <1>4 DEF Heap!PagesInside
  <1>15. \A p \in pages' : p.address \in DOMAIN heads' /\ heads'[p.address] = heads[p.address]
    BY <1>4, <1>11, <1>14
  <1>16. Heap!PagesInside'
    BY <1>1, <1>14, <1>15 DEF Heap!PagesInside, Heap!Units
  <1>17. QED
    BY <1>6, <1>10, <1>12, <1>13, <1>16 DEF HeapInv

LEMMA HeapStep ==
  ASSUME HeapConstants, HeapInv, [Heap!Next]_(Heap!vars)
  PROVE  HeapInv'
  <1>1. CASE UNCHANGED Heap!vars
    BY <1>1, NothingAllocated DEF Heap!vars
  <1>2. CASE \E count \in PageCounts :
               \/ Heap!AllocateRuntimePages(count) \/ Heap!AllocateReservedPages(count)
               \/ \E alignment \in Alignments :
                    \/ Heap!AllocateAlignedRuntimePages(count, alignment)
                    \/ Heap!AllocateAlignedReservedPages(count, alignment)
    <2>1. PICK count \in PageCounts, asked \in Alignments \cup {SIZE_4KB} :
            Heap!AllocateAlignedPages(count, asked)
      BY <1>2 DEF Heap!AllocateRuntimePages, Heap!AllocateReservedPages, Heap!AllocatePages,
                  Heap!AllocateAlignedRuntimePages, Heap!AllocateAlignedReservedPages
    <2>2. QED
      BY <2>1, PagesAllocated
  <1>3. CASE \E count \in PageCounts : \E p \in pages : Heap!FreePages(p.address, count)
    BY <1>3, PagesFreed DEF Heap!FreePages
  <1>4. CASE \E size \in PoolSizes :
               \/ Heap!AllocateRuntimePool(size) \/ Heap!AllocateReservedPool(size)
               \/ Heap!AllocateRuntimeZeroPool(size) \/ Heap!AllocateReservedZeroPool(size)
               \/ Heap!AllocateRuntimeCopyPool(size) \/ Heap!AllocateReservedCopyPool(size)
    <2>1. PICK size \in PoolSizes, contents \in {"any", "zero", "copy"} :
            Heap!Pool(size, contents, pools)
      BY <1>4 DEF Heap!AllocateRuntimePool, Heap!AllocateReservedPool, Heap!AllocatePool,
                  Heap!AllocateRuntimeZeroPool, Heap!AllocateReservedZeroPool, Heap!AllocateZeroPool,
                  Heap!AllocateRuntimeCopyPool, Heap!AllocateReservedCopyPool, Heap!AllocateCopyPool
    <2>2. QED
      BY <2>1, PoolAllocated
  <1>5. CASE \E size \in PoolSizes : \E pool \in pools :
               Heap!ReallocateRuntimePool(pool, size) \/ Heap!ReallocateReservedPool(pool, size)
    BY <1>5, PoolReallocated DEF Heap!ReallocateRuntimePool, Heap!ReallocateReservedPool
  <1>6. CASE \E pool \in pools : Heap!FreePool(pool)
    BY <1>6, PoolFreed
  <1>7. QED
    BY <1>1, <1>2, <1>3, <1>4, <1>5, <1>6 DEF Heap!Next

(***************************************************************************)
(* Wherever malloc puts its blocks, whatever alignments are asked for and  *)
(* however pools move, the pages a caller owns are aligned and lie inside  *)
(* their block with the head that says so, and the blocks in use are those *)
(* of the owners, one each (MemoryAllocationLibHost.c:72, 125, 260).       *)
(***************************************************************************)
THEOREM AllocationsCorrect ==
  ASSUME HeapConstants
  PROVE  Heap!Spec => []AllocationsSound
  <1>1. Heap!Init => HeapInv
    <2>1. SUFFICES ASSUME Heap!Init PROVE HeapInv
      OBVIOUS
    <2>2. blocks = {} /\ heads = << >> /\ pages = {} /\ pools = {}
      BY <2>1 DEF Heap!Init
    <2>3. IsFiniteSet({}) /\ Cardinality({}) = 0
      BY FS_EmptySet
    <2>4. DOMAIN heads = {}
      BY <2>2
    <2>5. QED
      BY <2>2, <2>3, <2>4 DEF HeapInv, HeapTypes, BlocksApart, OneOwnerEach, OwnersCounted,
                              Heap!PagesInside
  <1>2. HeapInv /\ [Heap!Next]_(Heap!vars) => HeapInv'
    BY HeapStep
  <1>3. HeapInv => AllocationsSound
    BY HeapImplies
  <1>4. QED
    BY <1>1, <1>2, <1>3, PTL DEF Heap!Spec

-----------------------------------------------------------------------------
(* The HOB list.                                                           *)

HobConstants ==
  /\ Absent \notin Nat
  /\ SIZE_64KB \in Nat /\ SIZE_64KB >= 64
  /\ DataLengths \subseteq Nat

(* A search asks for a type, or for a GUID and the type of GUID blocks.     *)
Searched ==
  { << type >> : type \in Hobs!Types } \cup { << "GUID_EXTENSION", guid >> : guid \in Guids }

(* The places of the headers in the memory, and what is there.              *)
ListAt(places, mem, end, made) ==
  /\ places \in Seq(Nat) /\ Len(places) = Len(made) + 2 /\ places[1] = 0
  /\ DOMAIN mem = { places[i] : i \in 1 .. Len(places) }
  /\ \A i \in 1 .. Len(made) + 1 :
       /\ mem[places[i]].length \in Nat \ {0}
       /\ places[i + 1] = places[i] + mem[places[i]].length
       /\ mem[places[i]].type # "END_OF_HOB_LIST"
  /\ \A i \in 1 .. Len(made) :
       /\ mem[places[i + 1]].type = made[i].type
       /\ mem[places[i + 1]].contents = made[i].contents
       /\ made[i] = [type |-> made[i].type, contents |-> made[i].contents]
  /\ mem[places[Len(made) + 2]] = Hobs!EndMark /\ places[Len(made) + 2] = end
  /\ end \in Nat /\ end + 8 <= SIZE_64KB

Hit(what, block) == block.type = what[1] /\ (Len(what) = 2 => block.contents[1] = what[2])

(* What a search from the k-th place on has to find.                        *)
FoundFrom(places, mem, k, what, found) ==
  \/ found = Absent /\ \A i \in k .. Len(places) : ~Hit(what, mem[places[i]])
  \/ \E j \in k .. Len(places) :
       /\ found = places[j] /\ Hit(what, mem[places[j]])
       /\ \A i \in k .. j - 1 : ~Hit(what, mem[places[i]])

SearchAnswered(places, mem) ==
  hobCall.is = "search" =>
    /\ hobCall.what \in Searched
    /\ \E k \in 1 .. Len(places) :
         hobCall.start = places[k] /\ FoundFrom(places, mem, k, hobCall.what, hobCall.found)

HobInv ==
  /\ built \in Seq({ built[i] : i \in DOMAIN built })
  /\ \/ endOfHobList = Absent /\ built = << >> /\ hobCall.is # "search"
     \/ \E places \in Seq(Nat) :
          /\ ListAt(places, hobMemory, endOfHobList, built)
          /\ SearchAnswered(places, hobMemory)

LEMMA SequenceOfItsOwn ==
  ASSUME NEW T, NEW s \in Seq(T)
  PROVE  s \in Seq({ s[i] : i \in DOMAIN s })
  <1> DEFINE R == { s[i] : i \in DOMAIN s }
  <1>1. Len(s) \in Nat /\ DOMAIN s = 1 .. Len(s) /\ s = [i \in 1 .. Len(s) |-> s[i]]
    OBVIOUS
  <1>2. \A i \in 1 .. Len(s) : s[i] \in R
    BY <1>1
  <1> HIDE DEF R
  <1>3. PICK n \in Nat : n = Len(s)
    BY <1>1
  <1>4. s \in [1 .. n -> R]
    BY <1>1, <1>2, <1>3
  <1>5. s \in Seq(R)
    BY <1>4, SeqDef
  <1>6. QED
    BY <1>5 DEF R

(* Headers lie behind one another.                                          *)
LEMMA PlacesRise ==
  ASSUME NEW mem, NEW end, NEW made, NEW places, Len(made) \in Nat,
         ListAt(places, mem, end, made)
  PROVE  \A i, j \in 1 .. Len(places) : i < j => places[i] < places[j]
  <1>1. PICK n \in Nat : n = Len(places) /\ n = Len(made) + 2
    BY DEF ListAt
  <1>2. \A i \in 1 .. n : places[i] \in Nat
    BY <1>1 DEF ListAt
  <1>3. \A i \in 1 .. n - 1 : places[i] < places[i + 1]
    <2>1. SUFFICES ASSUME NEW i \in 1 .. n - 1 PROVE places[i] < places[i + 1]
      OBVIOUS
    <2>2. i \in 1 .. Len(made) + 1 /\ i \in 1 .. n
      BY <1>1, <2>1
    <2>3. mem[places[i]].length \in Nat \ {0} /\ places[i + 1] = places[i] + mem[places[i]].length
      BY <2>2 DEF ListAt
    <2>4. QED
      BY <1>2, <2>2, <2>3
  <1> DEFINE F == { m \in Nat : \A i \in 1 .. n : i + m + 1 <= n => places[i] < places[i + m + 1] }
  <1>4. 0 \in F
    BY <1>3
  <1>5. ASSUME NEW m \in F PROVE m + 1 \in F
    <2>1. SUFFICES ASSUME NEW i \in 1 .. n, i + (m + 1) + 1 <= n
                   PROVE  places[i] < places[i + (m + 1) + 1]
      OBVIOUS
    <2>2. PICK k \in 1 .. n - 1 : k = i + m + 1
      BY <2>1
    <2>3. places[i] < places[k] /\ places[k] < places[k + 1] /\ k + 1 = i + (m + 1) + 1 /\ k + 1 \in 1 .. n
      BY <1>3, <2>2
    <2>4. QED
      BY <1>2, <2>2, <2>3
  <1>6. F = Nat
    <2>1. F \subseteq Nat
      OBVIOUS
    <2> HIDE DEF F
    <2>2. QED
      BY <1>4, <1>5, <2>1, SetInduction
  <1>7. ASSUME NEW i \in 1 .. n, NEW j \in 1 .. n, i < j PROVE places[i] < places[j]
    <2>1. PICK m \in Nat : j = i + m + 1
      <3>1. j - i - 1 \in Nat /\ j = i + (j - i - 1) + 1
        BY <1>7
      <3>2. QED
        BY <3>1
    <2>2. m \in F
      BY <1>6
    <2>3. QED
      BY <2>1, <2>2
  <1>8. QED
    BY <1>1, <1>7

(* A walk over the places P[1] .. P[n]: it stops with a value, or goes on  *)
(* to a place further on.  It has a result from every place.               *)
IsListWalk(walk, D, P, n) ==
  /\ \A i \in 1 .. n : P[i] \in D
  /\ \A at \in D : \E i \in 1 .. n : at = P[i]
  /\ \A i, j \in 1 .. n : P[i] = P[j] => i = j
  /\ \A i \in 1 .. n : P[i] \in walk.stops \/ \E j \in i + 1 .. n : walk.next[P[i]] = P[j]

IsWalkResult(f, walk, D) ==
  f = [at \in D |-> IF at \in walk.stops THEN walk.value[at] ELSE f[walk.next[at]]]

LEMMA WalkExists ==
  ASSUME NEW n \in Nat, NEW P, NEW D, NEW walk, IsListWalk(walk, D, P, n)
  PROVE  \E f : IsWalkResult(f, walk, D)
  <1> USE DEF IsListWalk
  <1> DEFINE stops == walk.stops
             value == walk.value
             next == walk.next
  <1> DEFINE Step(f, at) == IF at \in stops THEN value[at] ELSE f[next[at]]
             Good(f, m) == \A i \in 1 .. n : i > n - m => f[P[i]] = Step(f, P[i])
             Some(m) == \E f : f = [at \in D |-> f[at]] /\ Good(f, m)
             F == { m \in Nat : m <= n => Some(m) }
  <1>1. 0 \in F
    <2> DEFINE f == [at \in D |-> 0]
    <2>1. f = [at \in D |-> f[at]] /\ Good(f, 0)
      OBVIOUS
    <2> HIDE DEF f, Good
    <2>2. QED
      BY <2>1
  <1>2. ASSUME NEW m \in F PROVE m + 1 \in F
    <2>1. SUFFICES ASSUME m + 1 <= n PROVE Some(m + 1)
      <3> HIDE DEF Some
      <3>1. QED
        OBVIOUS
    <2>2. PICK f : f = [at \in D |-> f[at]] /\ Good(f, m)
      <3>1. Some(m)
        <4> HIDE DEF Some
        <4>1. QED
          BY <2>1
      <3> HIDE DEF Good, F
      <3>2. QED
        BY <3>1
    <2>3. PICK k \in 1 .. n : k = n - m
      BY <2>1
    <2> DEFINE g == [at \in D |-> IF at = P[k] THEN Step(f, P[k]) ELSE f[at]]
    <2>4. \A i \in 1 .. n : i > k => g[P[i]] = f[P[i]]
      OBVIOUS
    <2>5. \A i \in 1 .. n : i >= k => Step(g, P[i]) = Step(f, P[i])
      <3>1. SUFFICES ASSUME NEW i \in 1 .. n, i >= k, P[i] \notin stops
                     PROVE  g[next[P[i]]] = f[next[P[i]]]
        OBVIOUS
      <3>2. PICK j \in i + 1 .. n : next[P[i]] = P[j]
        BY <3>1
      <3>3. j \in 1 .. n /\ j > k
        BY <3>1, <3>2
      <3>4. QED
        BY <2>4, <3>2, <3>3
    <2>6. g[P[k]] = Step(f, P[k])
      OBVIOUS
    <2>7. g = [at \in D |-> g[at]]
      OBVIOUS
    <2> HIDE DEF g, Step
    <2>8. Good(g, m + 1)
      <3>1. SUFFICES ASSUME NEW i \in 1 .. n, i > n - (m + 1) PROVE g[P[i]] = Step(g, P[i])
        OBVIOUS
      <3>2. CASE i = k
        BY <2>5, <2>6, <3>2
      <3>3. CASE i # k
        <4>1. i > k /\ i >= k /\ i > n - m
          BY <2>3, <3>1, <3>3
        <4>2. QED
          BY <2>2, <2>4, <2>5, <4>1
      <3>4. QED
        BY <3>2, <3>3
    <2> HIDE DEF Good
    <2>9. QED
      BY <2>7, <2>8
  <1>3. F = Nat
    <2>1. F \subseteq Nat
      OBVIOUS
    <2> HIDE DEF F
    <2>2. QED
      BY <1>1, <1>2, <2>1, SetInduction
  <1>4. PICK f : f = [at \in D |-> f[at]] /\ Good(f, n)
    <2>1. Some(n)
      <3>1. n \in F
        <4> HIDE DEF F
        <4>1. QED
          BY <1>3
      <3> HIDE DEF Some
      <3>2. QED
        BY <3>1
    <2> HIDE DEF Good, F
    <2>2. QED
      BY <2>1
  <1>5. \A at \in D : f[at] = Step(f, at)
    BY <1>4
  <1>6. f = [at \in D |-> Step(f, at)]
    <2> HIDE DEF Step
    <2>1. QED
      BY <1>4, <1>5
  <1>7. QED
    BY <1>6 DEF IsWalkResult

(* What is known of the places once there is a list.                        *)
LEMMA ListFacts ==
  ASSUME NEW mem, NEW end, NEW made, NEW places, Len(made) \in Nat, ListAt(places, mem, end, made)
  PROVE  /\ Len(places) \in Nat /\ Len(places) = Len(made) + 2
         /\ \A i \in 1 .. Len(places) : places[i] \in Nat /\ places[i] \in DOMAIN mem
         /\ \A i, j \in 1 .. Len(places) : i < j => places[i] < places[j]
         /\ \A i, j \in 1 .. Len(places) : places[i] = places[j] => i = j
         /\ \A i \in 1 .. Len(places) :
              \/ i + 1 \in 1 .. Len(places) /\ places[i + 1] = places[i] + mem[places[i]].length
                 /\ mem[places[i]].type # "END_OF_HOB_LIST"
              \/ i = Len(places) /\ mem[places[i]].type = "END_OF_HOB_LIST"
  <1>1. PICK n \in Nat : n = Len(places) /\ n = Len(made) + 2
    BY DEF ListAt
  <1>2. \A i \in 1 .. n : places[i] \in Nat /\ places[i] \in DOMAIN mem
    BY <1>1 DEF ListAt
  <1>3. \A i, j \in 1 .. n : i < j => places[i] < places[j]
    BY <1>1, PlacesRise
  <1>4. \A i, j \in 1 .. n : places[i] = places[j] => i = j
    <2>1. SUFFICES ASSUME NEW i \in 1 .. n, NEW j \in 1 .. n, i # j PROVE places[i] # places[j]
      OBVIOUS
    <2>2. CASE i < j
      BY <1>2, <1>3, <2>2
    <2>3. CASE j < i
      BY <1>2, <1>3, <2>3
    <2>4. QED
      BY <2>1, <2>2, <2>3
  <1>5. ASSUME NEW i \in 1 .. n
        PROVE  \/ i + 1 \in 1 .. n /\ places[i + 1] = places[i] + mem[places[i]].length
                  /\ mem[places[i]].type # "END_OF_HOB_LIST"
               \/ i = n /\ mem[places[i]].type = "END_OF_HOB_LIST"
    <2>1. CASE i = n
      <3>1. mem[places[n]] = Hobs!EndMark
        BY <1>1 DEF ListAt
      <3>2. QED
        BY <2>1, <3>1 DEF Hobs!EndMark, Hobs!Block
    <2>2. CASE i # n
      <3>1. i \in 1 .. Len(made) + 1 /\ i + 1 \in 1 .. n
        BY <1>1, <2>2
      <3>2. QED
        BY <3>1 DEF ListAt
    <2>3. QED
      BY <2>1, <2>2
  <1>6. QED
    BY <1>1, <1>2, <1>3, <1>4, <1>5

(* One step of a search: past what is not a hit.                            *)
LEMMA FoundPast ==
  ASSUME NEW places, NEW mem, Len(places) \in Nat, NEW what, NEW found,
         NEW i \in 1 .. Len(places), NEW j \in 1 .. Len(places), i <= j,
         \A k \in i .. j : ~Hit(what, mem[places[k]]),
         FoundFrom(places, mem, j + 1, what, found)
  PROVE  FoundFrom(places, mem, i, what, found)
  <1> DEFINE n == Len(places)
             Miss(k) == ~Hit(what, mem[places[k]])
  <1>1. \A k \in i .. j : Miss(k)
    OBVIOUS
  <1>2. CASE found = Absent /\ \A k \in j + 1 .. n : Miss(k)
    <2>1. \A k \in i .. n : Miss(k)
      <3> HIDE DEF Miss
      <3>1. QED
        BY <1>1, <1>2
    <2>2. QED
      BY <1>2, <2>1 DEF FoundFrom
  <1>3. ASSUME NEW h \in j + 1 .. n, found = places[h], Hit(what, mem[places[h]]),
               \A k \in j + 1 .. h - 1 : Miss(k)
        PROVE  FoundFrom(places, mem, i, what, found)
    <2>1. h \in i .. n /\ \A k \in i .. h - 1 : Miss(k)
      <3> HIDE DEF Miss
      <3>1. QED
        BY <1>1, <1>3
    <2>2. QED
      BY <1>3, <2>1 DEF FoundFrom
  <1>4. QED
    BY <1>2, <1>3 DEF FoundFrom

LEMMA FoundHere ==
  ASSUME NEW places, NEW mem, Len(places) \in Nat, NEW what,
         NEW i \in 1 .. Len(places), NEW j \in 1 .. Len(places), i <= j,
         \A k \in i .. j - 1 : ~Hit(what, mem[places[k]]), Hit(what, mem[places[j]])
  PROVE  FoundFrom(places, mem, i, what, places[j])
  <1>1. j \in i .. Len(places)
    OBVIOUS
  <1>2. QED
    BY <1>1 DEF FoundFrom

(* From the last to the first place.                                        *)
LEMMA Backwards ==
  ASSUME NEW n \in Nat, NEW S, \A i \in 1 .. n : (\A j \in i + 1 .. n : j \in S) => i \in S
  PROVE  \A i \in 1 .. n : i \in S
  <1> DEFINE F == { m \in Nat : \A i \in 1 .. n : i > n - m => i \in S }
  <1>1. 0 \in F
    OBVIOUS
  <1>2. ASSUME NEW m \in F PROVE m + 1 \in F
    <2>1. SUFFICES ASSUME NEW i \in 1 .. n, i > n - (m + 1) PROVE i \in S
      OBVIOUS
    <2>2. \A j \in i + 1 .. n : j \in S
      BY <2>1
    <2>3. QED
      BY <2>2
  <1>3. F = Nat
    <2>1. F \subseteq Nat
      OBVIOUS
    <2> HIDE DEF F
    <2>2. QED
      BY <1>1, <1>2, <2>1, SetInduction
  <1>4. n \in F
    BY <1>3
  <1>5. QED
    BY <1>4

LEMMA SearchByType ==
  ASSUME NEW places, built \in Seq({ built[i] : i \in DOMAIN built }),
         ListAt(places, hobMemory, endOfHobList, built),
         NEW type, type # "END_OF_HOB_LIST", NEW k \in 1 .. Len(places)
  PROVE  FoundFrom(places, hobMemory, k, << type >>, Hobs!GetNextHob(type, places[k]))
  <1> DEFINE n == Len(places)
             D == DOMAIN hobMemory
             stops == { at \in D : hobMemory[at].type \in {"END_OF_HOB_LIST", type} }
             value == [at \in D |-> IF hobMemory[at].type = "END_OF_HOB_LIST" THEN Absent ELSE at]
             next == [at \in D |-> at + hobMemory[at].length]
             IsFrom(f) == f = [at \in D |->
                CASE hobMemory[at].type = "END_OF_HOB_LIST" -> Absent
                  [] hobMemory[at].type = type -> at
                  [] OTHER -> f[at + hobMemory[at].length]]
             from == CHOOSE f : IsFrom(f)
  <1>1. /\ n \in Nat /\ Len(built) \in Nat
        /\ \A i \in 1 .. n : places[i] \in Nat /\ places[i] \in D
        /\ \A i, j \in 1 .. n : places[i] = places[j] => i = j
        /\ \A i \in 1 .. n :
             \/ i + 1 \in 1 .. n /\ places[i + 1] = places[i] + hobMemory[places[i]].length
                /\ hobMemory[places[i]].type # "END_OF_HOB_LIST"
             \/ i = n /\ hobMemory[places[i]].type = "END_OF_HOB_LIST"
    <2>1. Len(built) \in Nat
      OBVIOUS
    <2>2. ListAt(places, hobMemory, endOfHobList, built)
      OBVIOUS
    <2>3. QED
      BY ONLY <2>1, <2>2, ListFacts
  <1>2. (\A i \in 1 .. n : places[i] \in D) /\ \A at \in D : \E i \in 1 .. n : at = places[i]
    BY DEF ListAt
  <1>3. \A i \in 1 .. n : places[i] \in stops \/ \E j \in i + 1 .. n : next[places[i]] = places[j]
    <2>1. SUFFICES ASSUME NEW i \in 1 .. n, places[i] \notin stops
                   PROVE  \E j \in i + 1 .. n : next[places[i]] = places[j]
      OBVIOUS
    <2>2. i + 1 \in i + 1 .. n /\ next[places[i]] = places[i + 1]
      BY <1>1, <2>1
    <2>3. QED
      BY <2>2
  <1>4. \E f : IsFrom(f)
    <2>1. PICK f : f = [at \in D |-> IF at \in stops THEN value[at] ELSE f[next[at]]]
      <3>1. n \in Nat /\ \A i, j \in 1 .. n : places[i] = places[j] => i = j
        BY <1>1
      <3> HIDE DEF n, D, stops, value, next
      <3>2. PICK d : d = D
        OBVIOUS
      <3>3. PICK walk : walk = [stops |-> stops, value |-> value, next |-> next]
        OBVIOUS
      <3>4. IsListWalk(walk, d, places, n)
        BY <1>2, <1>3, <3>1, <3>2, <3>3 DEF IsListWalk
      <3>5. \E f : IsWalkResult(f, walk, d)
        BY ONLY <3>1, <3>4, WalkExists
      <3>6. PICK f : IsWalkResult(f, walk, d)
        BY <3>5
      <3>7. f = [at \in D |-> IF at \in stops THEN value[at] ELSE f[next[at]]]
        BY <3>2, <3>3, <3>6 DEF IsWalkResult
      <3>8. QED
        BY <3>7
    <2>2. \A at \in D : (IF at \in stops THEN value[at] ELSE f[next[at]]) =
             CASE hobMemory[at].type = "END_OF_HOB_LIST" -> Absent
               [] hobMemory[at].type = type -> at
               [] OTHER -> f[at + hobMemory[at].length]
      OBVIOUS
    <2>3. IsFrom(f)
      BY <2>1, <2>2
    <2>4. QED
      BY <2>3
  <1>5. IsFrom(from)
    <2> HIDE DEF IsFrom
    <2>1. QED
      BY <1>4
  <1>6. Hobs!GetNextHob(type, places[k]) = from[places[k]]
    BY DEF Hobs!GetNextHob
  <1> DEFINE S == { i \in 1 .. n : FoundFrom(places, hobMemory, i, << type >>, from[places[i]]) }
  <1>7. ASSUME NEW i \in 1 .. n, \A j \in i + 1 .. n : j \in S PROVE i \in S
    <2>1. from[places[i]] = CASE hobMemory[places[i]].type = "END_OF_HOB_LIST" -> Absent
                              [] hobMemory[places[i]].type = type -> places[i]
                              [] OTHER -> from[places[i] + hobMemory[places[i]].length]
      <3> HIDE DEF from, n
      <3>1. QED
        BY <1>1, <1>5
    <2>2. Hit(<< type >>, hobMemory[places[i]]) <=> hobMemory[places[i]].type = type
      BY DEF Hit
    <2> HIDE DEF from
    <2>3. CASE hobMemory[places[i]].type = "END_OF_HOB_LIST"
      <3>1. from[places[i]] = Absent /\ i = n /\ ~Hit(<< type >>, hobMemory[places[i]])
        BY <1>1, <2>1, <2>2, <2>3
      <3>2. \A j \in i .. n : j = i
        BY <1>1, <3>1
      <3>3. QED
        BY <3>1, <3>2 DEF FoundFrom
    <2>4. CASE hobMemory[places[i]].type = type
      <3>1. from[places[i]] = places[i]
        BY <2>1, <2>4
      <3>2. i .. i - 1 = {} /\ i <= i
        OBVIOUS
      <3>3. FoundFrom(places, hobMemory, i, << type >>, places[i])
        BY <1>1, <2>2, <2>4, <3>2, FoundHere
      <3>4. QED
        BY <3>1, <3>3
    <2>5. CASE hobMemory[places[i]].type \notin {"END_OF_HOB_LIST", type}
      <3>1. /\ i + 1 \in 1 .. n /\ i + 1 \in i + 1 .. n
            /\ from[places[i]] = from[places[i + 1]] /\ ~Hit(<< type >>, hobMemory[places[i]])
        BY <1>1, <2>1, <2>2, <2>5
      <3>2. FoundFrom(places, hobMemory, i + 1, << type >>, from[places[i + 1]])
        BY <1>7, <3>1
      <3>3. \A j \in i .. i : ~Hit(<< type >>, hobMemory[places[j]])
        BY <3>1
      <3> HIDE DEF n
      <3>4. FoundFrom(places, hobMemory, i, << type >>, from[places[i + 1]])
        BY <1>1, <3>2, <3>3, FoundPast DEF n
      <3>5. QED
        BY <3>1, <3>4
    <2>6. QED
      BY <2>3, <2>4, <2>5
  <1>8. \A i \in 1 .. n : i \in S
    <2> HIDE DEF S, n
    <2>1. QED
      BY <1>1, <1>7, Backwards
  <1>9. QED
    BY <1>6, <1>8

LEMMA SearchByGuid ==
  ASSUME NEW places, built \in Seq({ built[i] : i \in DOMAIN built }), Absent \notin Nat,
         ListAt(places, hobMemory, endOfHobList, built),
         NEW guid, NEW k \in 1 .. Len(places)
  PROVE  FoundFrom(places, hobMemory, k, << "GUID_EXTENSION", guid >>,
                   Hobs!GetNextGuidHob(guid, places[k]))
  <1> DEFINE n == Len(places)
             D == DOMAIN hobMemory
             what == << "GUID_EXTENSION", guid >>
             hob == [at \in D |-> Hobs!GetNextHob("GUID_EXTENSION", at)]
             Ours(h) == hobMemory[h].contents[1] = guid
             stops == { at \in D : hob[at] = Absent \/ Ours(hob[at]) }
             next == [at \in D |-> hob[at] + hobMemory[hob[at]].length]
             IsFrom(f) == f = [at \in D |->
                LET h == Hobs!GetNextHob("GUID_EXTENSION", at)
                IN  CASE h = Absent -> Absent
                      [] h # Absent /\ hobMemory[h].contents[1] = guid -> h
                      [] OTHER -> f[h + hobMemory[h].length]]
             from == CHOOSE f : IsFrom(f)
  <1>1. /\ n \in Nat /\ Len(built) \in Nat
        /\ \A i \in 1 .. n : places[i] \in Nat /\ places[i] \in D
        /\ \A i, j \in 1 .. n : places[i] = places[j] => i = j
        /\ \A i \in 1 .. n :
             \/ i + 1 \in 1 .. n /\ places[i + 1] = places[i] + hobMemory[places[i]].length
                /\ hobMemory[places[i]].type # "END_OF_HOB_LIST"
             \/ i = n /\ hobMemory[places[i]].type = "END_OF_HOB_LIST"
    <2>1. Len(built) \in Nat
      OBVIOUS
    <2>2. ListAt(places, hobMemory, endOfHobList, built)
      OBVIOUS
    <2>3. QED
      BY ONLY <2>1, <2>2, ListFacts
  <1>2. (\A i \in 1 .. n : places[i] \in D) /\ \A at \in D : \E i \in 1 .. n : at = places[i]
    BY DEF ListAt
  <1>3. ASSUME NEW i \in 1 .. n
        PROVE  \/ hob[places[i]] = Absent /\ \A j \in i .. n : ~Hit(what, hobMemory[places[j]])
               \/ \E j \in i .. n : /\ hob[places[i]] = places[j] /\ hob[places[i]] # Absent
                                    /\ j + 1 \in 1 .. n
                                    /\ places[j + 1] = places[j] + hobMemory[places[j]].length
                                    /\ hobMemory[places[j]].type = "GUID_EXTENSION"
                                    /\ \A m \in i .. j - 1 : ~Hit(what, hobMemory[places[m]])
    <2>1. FoundFrom(places, hobMemory, i, << "GUID_EXTENSION" >>, hob[places[i]])
      <3>1. hob[places[i]] = Hobs!GetNextHob("GUID_EXTENSION", places[i])
        BY <1>2
      <3> HIDE DEF hob
      <3>2. FoundFrom(places, hobMemory, i, << "GUID_EXTENSION" >>,
                      Hobs!GetNextHob("GUID_EXTENSION", places[i]))
        BY SearchByType
      <3>3. QED
        BY <3>1, <3>2
    <2> PICK h : h = hob[places[i]]
      OBVIOUS
    <2> HIDE DEF hob
    <2>2. /\ \A b : Hit(<< "GUID_EXTENSION" >>, b) <=> b.type = "GUID_EXTENSION"
          /\ \A b : Hit(what, b) => b.type = "GUID_EXTENSION"
      BY DEF Hit
    <2>3. CASE h = Absent /\ \A j \in i .. n : ~Hit(<< "GUID_EXTENSION" >>, hobMemory[places[j]])
      BY <2>2, <2>3
    <2>4. ASSUME NEW j \in i .. n, h = places[j], Hit(<< "GUID_EXTENSION" >>, hobMemory[places[j]]),
                 \A m \in i .. j - 1 : ~Hit(<< "GUID_EXTENSION" >>, hobMemory[places[m]])
          PROVE  \E jj \in i .. n : /\ h = places[jj] /\ h # Absent
                                    /\ jj + 1 \in 1 .. n
                                    /\ places[jj + 1] = places[jj] + hobMemory[places[jj]].length
                                    /\ hobMemory[places[jj]].type = "GUID_EXTENSION"
                                    /\ \A m \in i .. jj - 1 : ~Hit(what, hobMemory[places[m]])
      <3>1. j \in 1 .. n /\ hobMemory[places[j]].type = "GUID_EXTENSION" /\ places[j] \in Nat
        BY <1>1, <2>2, <2>4
      <3>2. j + 1 \in 1 .. n /\ places[j + 1] = places[j] + hobMemory[places[j]].length
        BY <1>1, <3>1
      <3>3. \A m \in i .. j - 1 : ~Hit(what, hobMemory[places[m]])
        BY <2>2, <2>4
      <3>4. h # Absent
        BY <2>4, <3>1
      <3> HIDE DEF n, what
      <3>5. QED
        BY <2>4, <3>1, <3>2, <3>3, <3>4
    <2>5. QED
      BY <2>1, <2>3, <2>4 DEF FoundFrom
  <1>4. \A i \in 1 .. n : places[i] \in stops \/ \E j \in i + 1 .. n : next[places[i]] = places[j]
    <2>1. SUFFICES ASSUME NEW i \in 1 .. n, places[i] \notin stops
                   PROVE  \E j \in i + 1 .. n : next[places[i]] = places[j]
      OBVIOUS
    <2>2. hob[places[i]] # Absent /\ next[places[i]] = hob[places[i]] + hobMemory[hob[places[i]]].length
      BY <1>1, <2>1
    <2> HIDE DEF hob, next, stops, what
    <2>3. PICK j \in i .. n : /\ hob[places[i]] = places[j] /\ j + 1 \in 1 .. n
                              /\ places[j + 1] = places[j] + hobMemory[places[j]].length
      BY <1>3, <2>2
    <2>4. j + 1 \in i + 1 .. n /\ next[places[i]] = places[j + 1]
      BY <2>2, <2>3
    <2>5. QED
      BY <2>4
  <1>5. \E f : IsFrom(f)
    <2>1. PICK f : f = [at \in D |-> IF at \in stops THEN hob[at] ELSE f[next[at]]]
      <3>1. n \in Nat /\ \A i, j \in 1 .. n : places[i] = places[j] => i = j
        BY <1>1
      <3> HIDE DEF n, D, stops, hob, next
      <3>2. PICK d : d = D
        OBVIOUS
      <3>3. PICK walk : walk = [stops |-> stops, value |-> hob, next |-> next]
        OBVIOUS
      <3>4. IsListWalk(walk, d, places, n)
        BY <1>2, <1>4, <3>1, <3>2, <3>3 DEF IsListWalk
      <3>5. \E f : IsWalkResult(f, walk, d)
        BY ONLY <3>1, <3>4, WalkExists
      <3>6. PICK f : IsWalkResult(f, walk, d)
        BY <3>5
      <3>7. f = [at \in D |-> IF at \in stops THEN hob[at] ELSE f[next[at]]]
        BY <3>2, <3>3, <3>6 DEF IsWalkResult
      <3>8. QED
        BY <3>7
    <2>2. \A at \in D : (IF at \in stops THEN hob[at] ELSE f[next[at]]) =
             LET h == Hobs!GetNextHob("GUID_EXTENSION", at)
             IN  CASE h = Absent -> Absent
                   [] h # Absent /\ hobMemory[h].contents[1] = guid -> h
                   [] OTHER -> f[h + hobMemory[h].length]
      OBVIOUS
    <2>3. IsFrom(f)
      BY <2>1, <2>2
    <2>4. QED
      BY <2>3
  <1>6. IsFrom(from)
    <2> HIDE DEF IsFrom
    <2>1. QED
      BY <1>5
  <1>7. Hobs!GetNextGuidHob(guid, places[k]) = from[places[k]]
    BY DEF Hobs!GetNextGuidHob
  <1> DEFINE S == { i \in 1 .. n : FoundFrom(places, hobMemory, i, what, from[places[i]]) }
  <1>8. ASSUME NEW i \in 1 .. n, \A j \in i + 1 .. n : j \in S PROVE i \in S
    <2> PICK h : h = hob[places[i]]
      OBVIOUS
    <2>1. from[places[i]] = CASE h = Absent -> Absent
                              [] h # Absent /\ hobMemory[h].contents[1] = guid -> h
                              [] OTHER -> from[h + hobMemory[h].length]
      <3> HIDE DEF from, n
      <3>1. QED
        BY <1>2, <1>6
    <2>2. \A b : Hit(what, b) <=> b.type = "GUID_EXTENSION" /\ b.contents[1] = guid
      BY DEF Hit
    <2> HIDE DEF from, hob, what
    <2>3. CASE h = Absent
      <3>1. \A j \in i .. n : ~Hit(what, hobMemory[places[j]])
        BY <1>3, <2>3
      <3>2. from[places[i]] = Absent
        BY <2>1, <2>3
      <3>3. QED
        BY <3>1, <3>2 DEF FoundFrom
    <2>4. CASE h # Absent
      <3>1. PICK j \in i .. n : /\ h = places[j] /\ j + 1 \in 1 .. n
                                /\ places[j + 1] = places[j] + hobMemory[places[j]].length
                                /\ hobMemory[places[j]].type = "GUID_EXTENSION"
                                /\ \A m \in i .. j - 1 : ~Hit(what, hobMemory[places[m]])
        BY <1>3, <2>4
      <3>2. j \in 1 .. n /\ i <= j
        BY <1>1, <3>1
      <3>3. CASE hobMemory[h].contents[1] = guid
        <4>1. from[places[i]] = places[j] /\ Hit(what, hobMemory[places[j]])
          BY <2>1, <2>2, <2>4, <3>1, <3>3
        <4>2. FoundFrom(places, hobMemory, i, what, places[j])
          BY ONLY <1>1, <3>1, <3>2, <4>1, FoundHere
        <4>3. QED
          BY <4>1, <4>2
      <3>4. CASE hobMemory[h].contents[1] # guid
        <4>1. from[places[i]] = from[places[j + 1]] /\ ~Hit(what, hobMemory[places[j]])
          BY <2>1, <2>2, <2>4, <3>1, <3>4
        <4>2. j + 1 \in i + 1 .. n
          BY <3>1, <3>2
        <4>3. FoundFrom(places, hobMemory, j + 1, what, from[places[j + 1]])
          BY <1>8, <4>2
        <4>4. \A m \in i .. j : ~Hit(what, hobMemory[places[m]])
          BY <1>1, <3>1, <3>2, <4>1
        <4>5. FoundFrom(places, hobMemory, i, what, from[places[j + 1]])
          BY ONLY <1>1, <3>2, <4>3, <4>4, FoundPast
        <4>6. QED
          BY <4>1, <4>5
      <3>5. QED
        BY <3>3, <3>4
    <2>5. QED
      BY <2>3, <2>4
  <1>9. \A i \in 1 .. n : i \in S
    <2> HIDE DEF S, n
    <2>1. QED
      BY <1>1, <1>8, Backwards
  <1>10. QED
    BY <1>7, <1>9

(* One length behind the other, a reader comes by the places.               *)
LEMMA PrefixGrows ==
  ASSUME NEW T, NEW s \in Seq(T), NEW k \in 1 .. Len(s) - 1
  PROVE  SubSeq(s, 1, k + 1) = Append(SubSeq(s, 1, k), s[k + 1])
  <1> DEFINE l == SubSeq(s, 1, k + 1)
             r == Append(SubSeq(s, 1, k), s[k + 1])
  <1>1. Len(s) \in Nat /\ k \in Nat /\ k + 1 \in Nat /\ k + 1 <= Len(s) /\ s[k + 1] \in T
    OBVIOUS
  <1>2. /\ SubSeq(s, 1, k) \in Seq(T) /\ Len(SubSeq(s, 1, k)) = k
        /\ l \in Seq(T) /\ Len(l) = k + 1
        /\ (\A i \in 1 .. k : SubSeq(s, 1, k)[i] = s[i])
        /\ \A i \in 1 .. k + 1 : l[i] = s[i]
    BY <1>1
  <1>3. r \in Seq(T) /\ Len(r) = k + 1 /\ (\A i \in 1 .. k : r[i] = s[i]) /\ r[k + 1] = s[k + 1]
    BY <1>1, <1>2
  <1> HIDE DEF l, r
  <1>4. \A i \in 1 .. k + 1 : l[i] = r[i]
    BY <1>1, <1>2, <1>3
  <1>5. l = r
    BY <1>2, <1>3, <1>4, SeqEqual
  <1>6. QED
    BY <1>5 DEF l, r

LEMMA Visiting ==
  ASSUME NEW places, built \in Seq({ built[i] : i \in DOMAIN built }),
         ListAt(places, hobMemory, endOfHobList, built)
  PROVE  Hobs!Visited = places
  <1> DEFINE m == Len(built) + 1
             IsUpTo(f) == f = [n \in 0 .. m |->
               IF n = 0 THEN << 0 >>
               ELSE LET last == f[n - 1][n] IN Append(f[n - 1], last + hobMemory[last].length)]
             upTo == CHOOSE f : IsUpTo(f)
             g == [n \in 0 .. m |-> SubSeq(places, 1, n + 1)]
  <1>1. /\ m \in Nat /\ places \in Seq(Nat) /\ Len(places) = m + 1 /\ places[1] = 0
        /\ \A n \in 1 .. m : places[n + 1] = places[n] + hobMemory[places[n]].length
    BY DEF ListAt
  <1> HIDE DEF m
  <1>2. ASSUME NEW n \in 1 .. m
        PROVE  /\ SubSeq(places, 1, n)[n] = places[n]
               /\ SubSeq(places, 1, n + 1) =
                    Append(SubSeq(places, 1, n), places[n] + hobMemory[places[n]].length)
    <2>1. n \in 1 .. Len(places) - 1
      BY <1>1
    <2>2. SubSeq(places, 1, n + 1) = Append(SubSeq(places, 1, n), places[n + 1])
      BY <1>1, <2>1, PrefixGrows
    <2>3. SubSeq(places, 1, n)[n] = places[n]
      BY <1>1, <2>1
    <2>4. QED
      BY <1>1, <2>2, <2>3
  <1>3. SubSeq(places, 1, 1) = << 0 >>
    <2>1. 0 \in Nat /\ << 0 >> \in Seq(Nat) /\ Len(<< 0 >>) = 1 /\ << 0 >>[1] = 0
      OBVIOUS
    <2>2. /\ SubSeq(places, 1, 1) \in Seq(Nat) /\ Len(SubSeq(places, 1, 1)) = 1
          /\ SubSeq(places, 1, 1)[1] = 0
      BY <1>1
    <2>3. \A i \in 1 .. 1 : i = 1
      OBVIOUS
    <2>4. QED
      BY <2>1, <2>2, <2>3, SeqEqual
  <1>4. \E f : IsUpTo(f)
    <2>1. ASSUME NEW n \in 0 .. m
          PROVE  g[n] = IF n = 0 THEN << 0 >>
                        ELSE LET last == g[n - 1][n]
                             IN  Append(g[n - 1], last + hobMemory[last].length)
      <3>1. CASE n = 0
        BY <1>1, <1>3, <3>1
      <3>2. CASE n # 0
        <4>1. /\ n \in 1 .. m /\ n - 1 \in 0 .. m /\ g[n] = SubSeq(places, 1, n + 1)
              /\ g[n - 1] = SubSeq(places, 1, n)
          <5>1. n \in 1 .. m /\ n - 1 \in 0 .. m /\ (n - 1) + 1 = n
            BY <1>1, <3>2
          <5>2. QED
            BY <5>1
        <4> HIDE DEF g
        <4>2. QED
          BY <1>2, <3>2, <4>1
      <3>3. QED
        BY <3>1, <3>2
    <2>2. g = [n \in 0 .. m |-> g[n]]
      OBVIOUS
    <2> HIDE DEF g
    <2>3. IsUpTo(g)
      BY <2>1, <2>2
    <2>4. QED
      BY <2>3
  <1>5. IsUpTo(upTo)
    <2> HIDE DEF IsUpTo
    <2>1. QED
      BY <1>4
  <1>6. Hobs!Visited = upTo[m]
    BY DEF Hobs!Visited, m
  <1> DEFINE F == { n \in Nat : n <= m => upTo[n] = SubSeq(places, 1, n + 1) }
  <1>7. \A n \in 0 .. m : upTo[n] = IF n = 0 THEN << 0 >>
               ELSE LET last == upTo[n - 1][n]
                    IN  Append(upTo[n - 1], last + hobMemory[last].length)
    <2> HIDE DEF upTo
    <2>1. QED
      BY <1>5
  <1> HIDE DEF upTo
  <1>8. 0 \in F
    BY <1>1, <1>3, <1>7
  <1>9. ASSUME NEW n \in F PROVE n + 1 \in F
    <2>1. SUFFICES ASSUME n + 1 <= m PROVE upTo[n + 1] = SubSeq(places, 1, (n + 1) + 1)
      OBVIOUS
    <2>2. n + 1 \in 1 .. m /\ n + 1 \in 0 .. m /\ (n + 1) - 1 = n /\ n + 1 # 0
          /\ upTo[n] = SubSeq(places, 1, n + 1)
      BY <1>1, <2>1
    <2>3. upTo[n + 1] = LET last == upTo[n][n + 1]
                        IN  Append(upTo[n], last + hobMemory[last].length)
      BY <1>7, <2>2
    <2>4. QED
      BY <1>2, <2>2, <2>3
  <1>10. F = Nat
    <2>1. F \subseteq Nat
      OBVIOUS
    <2> HIDE DEF F
    <2>2. QED
      BY <1>8, <1>9, <2>1, SetInduction
  <1>11. upTo[m] = SubSeq(places, 1, m + 1)
    <2>1. m \in F
      BY <1>1, <1>10
    <2>2. QED
      BY <1>1, <2>1
  <1>12. SubSeq(places, 1, m + 1) = places
    BY <1>1
  <1>13. QED
    BY <1>6, <1>11, <1>12

LEMMA BuiltLength ==
  ASSUME HobInv PROVE Len(built) \in Nat /\ \E T : built \in Seq(T)
  BY DEF HobInv

(* A building function finds a list, the one there is or a new one.         *)
LEMMA ListThere ==
  ASSUME HobConstants, HobInv
  PROVE  \E places \in Seq(Nat) : ListAt(places, Hobs!List.memory, Hobs!List.end, built)
  <1>1. CASE endOfHobList = Absent
    <2> DEFINE places == << 0, 56 >>
               first == Hobs!InitHobPointer.memory
    <2>1. built = << >> /\ Len(built) = 0
      BY <1>1 DEF HobInv, HobConstants, ListAt
    <2>2. /\ Hobs!List.memory = first /\ Hobs!List.end = 56 /\ DOMAIN first = {0, 56}
          /\ first[0].length = 56 /\ first[0].type = "HANDOFF" /\ first[56] = Hobs!EndMark
      BY <1>1 DEF Hobs!List, Hobs!InitHobPointer, Hobs!HandOff, Hobs!Block
    <2>3. places \in Seq(Nat) /\ Len(places) = 2 /\ places[1] = 0 /\ places[2] = 56
      OBVIOUS
    <2>4. DOMAIN first = { places[i] : i \in 1 .. 2 }
      BY <2>2
    <2> HIDE DEF places, first
    <2>5. \A i \in 1 .. 0 + 1 : i = 1
      OBVIOUS
    <2>6. ListAt(places, first, 56, << >>)
      <3>1. Len(<< >>) = 0 /\ 1 .. 0 = {} /\ 0 + 2 = 2 /\ 56 \in Nat \ {0} /\ 0 + 56 = 56
        OBVIOUS
      <3>2. 56 + 8 <= SIZE_64KB
        BY DEF HobConstants
      <3>3. \A i \in 1 .. 0 + 1 :
              /\ first[places[i]].length \in Nat \ {0}
              /\ places[i + 1] = places[i] + first[places[i]].length
              /\ first[places[i]].type # "END_OF_HOB_LIST"
        BY <2>2, <2>3, <2>5, <3>1
      <3>4. QED
        BY <2>2, <2>3, <2>4, <3>1, <3>2, <3>3 DEF ListAt
    <2>7. QED
      BY <2>1, <2>2, <2>3, <2>6
  <1>2. CASE endOfHobList # Absent
    <2>1. Hobs!List.memory = hobMemory /\ Hobs!List.end = endOfHobList
      BY <1>2 DEF Hobs!List
    <2>2. QED
      BY <1>2, <2>1 DEF HobInv
  <1>3. QED
    BY <1>1, <1>2

(* The memory after a block was built over the end mark.                    *)
ExtendsTo(mem, end, type, length, contents, after) ==
  after = [ at \in DOMAIN mem \cup {end + length} |->
              CASE at = end -> Hobs!Block(type, length, contents)
                [] at = end + length -> Hobs!EndMark
                [] OTHER -> mem[at] ]

LEMMA ListExtended ==
  ASSUME NEW mem, NEW end, NEW made, NEW T, made \in Seq(T), NEW places \in Seq(Nat),
         ListAt(places, mem, end, made), SIZE_64KB \in Nat,
         NEW type, NEW length \in Nat \ {0}, NEW contents, type # "END_OF_HOB_LIST",
         end + 8 + length <= SIZE_64KB,
         NEW after, ExtendsTo(mem, end, type, length, contents, after)
  PROVE  ListAt(Append(places, end + length), after, end + length,
                Append(made, [type |-> type, contents |-> contents]))
  <1> DEFINE m == Len(made)
             n == Len(places)
             new == Append(places, end + length)
             entry == [type |-> type, contents |-> contents]
             more == Append(made, entry)
  <1>1. /\ m \in Nat /\ n \in Nat /\ n = m + 2 /\ end \in Nat /\ end + length \in Nat
        /\ places[n] = end /\ n \in 1 .. n
    BY DEF ListAt
  <1>2. /\ new \in Seq(Nat) /\ Len(new) = n + 1 /\ new[n + 1] = end + length
        /\ \A i \in 1 .. n : new[i] = places[i]
    BY <1>1
  <1>3. /\ Len(more) = m + 1 /\ more[m + 1] = entry
        /\ \A i \in 1 .. m : more[i] = made[i]
    BY <1>1
  <1>4. /\ \A i \in 1 .. n : places[i] \in Nat /\ places[i] \in DOMAIN mem
        /\ \A i, j \in 1 .. n : i < j => places[i] < places[j]
    BY <1>1, ListFacts
  <1>5. /\ after[end] = Hobs!Block(type, length, contents) /\ after[end + length] = Hobs!EndMark
        /\ \A i \in 1 .. n - 1 : after[places[i]] = mem[places[i]]
    <2>1. end \in DOMAIN mem /\ end # end + length
      BY <1>1, <1>4
    <2>2. ASSUME NEW i \in 1 .. n - 1 PROVE after[places[i]] = mem[places[i]]
      <3>1. i \in 1 .. n /\ i < n
        BY <1>1
      <3>2. places[i] < end /\ places[i] \in Nat /\ places[i] \in DOMAIN mem
        BY <1>1, <1>4, <3>1
      <3>3. places[i] # end /\ places[i] # end + length
        BY <1>1, <3>2
      <3>4. QED
        BY <3>2, <3>3 DEF ExtendsTo
    <2>3. QED
      BY <2>1, <2>2 DEF ExtendsTo
  <1>6. DOMAIN after = { new[i] : i \in 1 .. Len(new) }
    <2>1. DOMAIN after = DOMAIN mem \cup {end + length} /\ DOMAIN mem = { places[i] : i \in 1 .. n }
      BY DEF ListAt, ExtendsTo
    <2> HIDE DEF new, n
    <2>2. ASSUME NEW x PROVE x \in DOMAIN after <=> \E i \in 1 .. n + 1 : x = new[i]
      <3>1. x \in DOMAIN after <=> (\E i \in 1 .. n : x = places[i]) \/ x = end + length
        BY <2>1
      <3>2. \A i \in 1 .. n + 1 : i \in 1 .. n \/ i = n + 1
        BY <1>1
      <3>3. n + 1 \in 1 .. n + 1 /\ \A i \in 1 .. n : i \in 1 .. n + 1
        BY <1>1
      <3>4. QED
        BY <1>2, <3>1, <3>2, <3>3
    <2>3. QED
      BY ONLY <1>2, <2>2
  <1> HIDE DEF new, more, n, m
  <1>7. ASSUME NEW i \in 1 .. (m + 1) + 1
        PROVE  /\ after[new[i]].length \in Nat \ {0}
               /\ new[i + 1] = new[i] + after[new[i]].length
               /\ after[new[i]].type # "END_OF_HOB_LIST"
    <2>1. CASE i = n
      <3>1. new[i] = end /\ new[i + 1] = end + length
        BY <1>1, <1>2, <2>1
      <3>2. QED
        BY <1>5, <3>1 DEF Hobs!Block
    <2>2. CASE i # n
      <3>1. i \in 1 .. n - 1 /\ i \in 1 .. n /\ i + 1 \in 1 .. n /\ i \in 1 .. m + 1
        BY ONLY <1>1, <2>2
      <3>2. new[i] = places[i] /\ new[i + 1] = places[i + 1] /\ after[places[i]] = mem[places[i]]
        BY <1>2, <1>5, <3>1
      <3>3. /\ mem[places[i]].length \in Nat \ {0}
            /\ places[i + 1] = places[i] + mem[places[i]].length
            /\ mem[places[i]].type # "END_OF_HOB_LIST"
        BY <3>1 DEF ListAt, m
      <3>4. QED
        BY <3>2, <3>3
    <2>3. QED
      BY <2>1, <2>2
  <1>8. ASSUME NEW i \in 1 .. m + 1
        PROVE  /\ after[new[i + 1]].type = more[i].type
               /\ after[new[i + 1]].contents = more[i].contents
               /\ more[i] = [type |-> more[i].type, contents |-> more[i].contents]
    <2>1. CASE i = m + 1
      <3>1. i + 1 = n /\ n \in 1 .. n
        BY ONLY <1>1, <2>1
      <3>2. new[n] = end /\ more[m + 1] = entry
        BY ONLY <1>1, <1>2, <1>3, <3>1
      <3>3. new[i + 1] = end /\ more[i] = entry
        BY ONLY <2>1, <3>1, <3>2
      <3>4. QED
        BY <1>5, <3>3 DEF Hobs!Block
    <2>2. CASE i # m + 1
      <3>1. i \in 1 .. m /\ i + 1 \in 1 .. n /\ i + 1 \in 1 .. n - 1
        BY ONLY <1>1, <2>2
      <3>2. new[i + 1] = places[i + 1] /\ after[places[i + 1]] = mem[places[i + 1]] /\ more[i] = made[i]
        BY <1>2, <1>3, <1>5, <3>1
      <3>3. /\ mem[places[i + 1]].type = made[i].type
            /\ mem[places[i + 1]].contents = made[i].contents
            /\ made[i] = [type |-> made[i].type, contents |-> made[i].contents]
        BY <3>1 DEF ListAt, m
      <3>4. QED
        BY <3>2, <3>3
    <2>3. QED
      BY <2>1, <2>2
  <1>9. /\ new[1] = 0 /\ Len(new) = Len(more) + 2 /\ new[Len(more) + 2] = end + length
        /\ (end + length) + 8 <= SIZE_64KB
    <2>1. places[1] = 0 /\ 1 \in 1 .. n
      BY <1>1 DEF ListAt
    <2>2. (m + 1) + 2 = n + 1
      BY ONLY <1>1
    <2>3. (end + length) + 8 <= SIZE_64KB
      BY <1>1
    <2>4. QED
      BY <1>2, <1>3, <2>1, <2>2, <2>3
  <1>10. ListAt(new, after, end + length, more)
    BY <1>1, <1>2, <1>3, <1>5, <1>6, <1>7, <1>8, <1>9 DEF ListAt
  <1>11. QED
    BY <1>10 DEF new, more

(* Building keeps the list; when there is no room, it is left as it was.    *)
LEMMA CreateKeeps ==
  ASSUME HobConstants, HobInv, NEW type, NEW length \in Nat \ {0}, NEW contents,
         type # "END_OF_HOB_LIST", Hobs!InternalPeiCreateHob(type, length, contents)
  PROVE  HobInv'
  <1>1. PICK places \in Seq(Nat) : ListAt(places, Hobs!List.memory, Hobs!List.end, built)
    BY ListThere
  <1>2. PICK mem, end : mem = Hobs!List.memory /\ end = Hobs!List.end
    OBVIOUS
  <1>3. end \in Nat /\ ListAt(places, mem, end, built) /\ SIZE_64KB \in Nat
    BY <1>1, <1>2 DEF ListAt, HobConstants
  <1>4. PICK T : built \in Seq(T)
    BY BuiltLength
  <1>5. CASE end + 8 + length > SIZE_64KB
    <2>1. /\ hobMemory' = mem /\ endOfHobList' = end /\ built' = built
          /\ hobCall' = [is |-> "assert"]
      BY <1>2, <1>5 DEF Hobs!InternalPeiCreateHob, Hobs!Header, Hobs!Failed
    <2>2. hobCall'.is # "search"
      BY <2>1
    <2>3. ListAt(places, hobMemory, endOfHobList, built)'
      BY <1>3, <2>1 DEF ListAt, Hobs!EndMark
    <2>4. SearchAnswered(places, hobMemory)'
      BY <2>2 DEF SearchAnswered
    <2>5. (built \in Seq({ built[i] : i \in DOMAIN built }))'
      BY <2>1 DEF HobInv
    <2>6. QED
      BY <2>3, <2>4, <2>5 DEF HobInv
  <1>6. CASE ~(end + 8 + length > SIZE_64KB)
    <2> DEFINE entry == [type |-> type, contents |-> contents]
               after == [ at \in DOMAIN mem \cup {end + length} |->
                            CASE at = end -> Hobs!Block(type, length, contents)
                              [] at = end + length -> Hobs!EndMark
                              [] OTHER -> mem[at] ]
    <2>1. /\ hobMemory' = after /\ endOfHobList' = end + length
          /\ built' = Append(built, entry) /\ hobCall' = [is |-> "idle"]
      BY <1>2, <1>6 DEF Hobs!InternalPeiCreateHob, Hobs!Header, Hobs!Built, Hobs!Extended,
                        Hobs!Block, Hobs!Idle
    <2>2. hobCall'.is # "search"
      BY <2>1
    <2>3. end + 8 + length <= SIZE_64KB
      BY <1>3, <1>6
    <2>10. PICK now : now = after
      OBVIOUS
    <2>4. ListAt(Append(places, end + length), now, end + length, Append(built, entry))
      <3>1. PICK made : made = built
        OBVIOUS
      <3>2. made \in Seq(T) /\ ListAt(places, mem, end, made)
        BY <1>3, <1>4, <3>1
      <3>3. SIZE_64KB \in Nat /\ type # "END_OF_HOB_LIST" /\ length \in Nat \ {0}
        BY <1>3
      <3>4. ListAt(Append(places, end + length), now, end + length, Append(made, entry))
        <4>1. ExtendsTo(mem, end, type, length, contents, now)
          BY <2>10 DEF ExtendsTo
        <4>2. QED
          BY ONLY <2>3, <4>1, <3>2, <3>3, places \in Seq(Nat), ListExtended
      <3>5. QED
        BY <3>1, <3>4
    <2> PICK onward : onward = Append(places, end + length)
      OBVIOUS
    <2>5. ListAt(onward, hobMemory, endOfHobList, built)'
      <3> HIDE DEF after, entry
      <3>1. ListAt(onward, now, end + length, Append(built, entry))
        BY <2>4
      <3>2. hobMemory' = now
        BY <2>1, <2>10
      <3>3. ListAt(onward, hobMemory', endOfHobList', built')
        BY ONLY <2>1, <3>1, <3>2
      <3>4. QED
        BY ONLY <3>3 DEF ListAt, Hobs!EndMark
    <2>6. SearchAnswered(onward, hobMemory)'
      BY <2>2 DEF SearchAnswered
    <2>7. (built \in Seq({ built[i] : i \in DOMAIN built }))'
      <3>1. PICK made : made = Append(built, entry)
        OBVIOUS
      <3>2. made \in Seq(T \cup {entry})
        BY <1>4, <3>1
      <3>3. made \in Seq({ made[i] : i \in DOMAIN made })
        BY <3>2, SequenceOfItsOwn
      <3>4. built' = made
        BY <2>1, <3>1
      <3>5. QED
        BY <3>3, <3>4
    <2>8. onward \in Seq(Nat)
      BY <2>4 DEF ListAt
    <2>9. QED
      BY <2>5, <2>6, <2>7, <2>8 DEF HobInv
  <1>7. QED
    BY <1>5, <1>6

(* Nothing but the last search changes.                                     *)
LEMMA SearchKeeps ==
  ASSUME HobInv, UNCHANGED << hobMemory, endOfHobList, built >>,
         \/ hobCall'.is # "search"
         \/ /\ endOfHobList # Absent
            /\ \A places \in Seq(Nat) :
                 ListAt(places, hobMemory, endOfHobList, built)
                   /\ SearchAnswered(places, hobMemory) => SearchAnswered(places, hobMemory)'
  PROVE  HobInv'
  <1>1. (built \in Seq({ built[i] : i \in DOMAIN built }))'
    BY DEF HobInv
  <1>2. \A places : ListAt(places, hobMemory, endOfHobList, built)'
                      <=> ListAt(places, hobMemory, endOfHobList, built)
    BY DEF ListAt, Hobs!EndMark
  <1>3. CASE hobCall'.is # "search"
    <2>1. \A places : SearchAnswered(places, hobMemory)'
      BY <1>3 DEF SearchAnswered
    <2>2. QED
      BY <1>1, <1>2, <1>3, <2>1 DEF HobInv
  <1>4. CASE hobCall'.is = "search"
    <2>1. PICK places \in Seq(Nat) : /\ ListAt(places, hobMemory, endOfHobList, built)
                                     /\ SearchAnswered(places, hobMemory)
      BY <1>4 DEF HobInv
    <2>2. SearchAnswered(places, hobMemory)'
      BY <1>4, <2>1
    <2>3. QED
      BY <1>1, <1>2, <2>1, <2>2 DEF HobInv
  <1>5. QED
    BY <1>3, <1>4

LEMMA BuildKeeps ==
  ASSUME HobConstants, HobInv, Hobs!Build PROVE HobInv'
  <1>1. ASSUME NEW guid, NEW length \in DataLengths, NEW data, Hobs!BuildGuidHob(guid, length, data)
        PROVE  HobInv'
    <2>1. CASE length > LargestData
      <3>1. /\ hobCall' = [is |-> "assert"] /\ UNCHANGED << hobMemory, endOfHobList, built >>
        BY <1>1, <2>1 DEF Hobs!BuildGuidHob, Hobs!Failed
      <3>2. hobCall'.is # "search"
        BY <3>1
      <3>3. QED
        BY <3>1, <3>2, SearchKeeps
    <2>2. CASE ~(length > LargestData)
      <3>1. length \in Nat
        BY DEF HobConstants
      <3>2. PICK size \in Nat \ {0} : size = 24 + length
        BY <3>1
      <3>3. Hobs!InternalPeiCreateHob("GUID_EXTENSION", size, << guid, data >>)
        BY <1>1, <2>2, <3>2 DEF Hobs!BuildGuidHob, Hobs!GuidHob
      <3>4. QED
        BY <3>3, CreateKeeps
    <2>3. QED
      BY <2>1, <2>2
  <1>2. ASSUME NEW type \in {"MEMORY_ALLOCATION", "RESOURCE_DESCRIPTOR", "FV", "FV2", "FV3",
                             "UEFI_CAPSULE", "CPU"},
               NEW length \in {16, 24, 48, 56, 64, 72}, NEW contents,
               Hobs!InternalPeiCreateHob(type, length, contents)
        PROVE  HobInv'
    <2>1. type # "END_OF_HOB_LIST" /\ length \in Nat \ {0}
      OBVIOUS
    <2>2. QED
      BY <1>2, <2>1, CreateKeeps
  <1>3. CASE Hobs!BuildEmptyGuidHob
    BY <1>1, <1>3 DEF Hobs!BuildEmptyGuidHob
  <1>4. CASE Hobs!BuildGuidDataHob
    BY <1>1, <1>4 DEF Hobs!BuildGuidDataHob
  <1>5. CASE Hobs!BuildModuleHob
    BY <1>2, <1>5 DEF Hobs!BuildModuleHob
  <1>6. CASE Hobs!BuildResourceDescriptorWithOwnerHob
    BY <1>2, <1>6 DEF Hobs!BuildResourceDescriptorWithOwnerHob
  <1>7. CASE Hobs!BuildFv2Hob
    BY <1>2, <1>7 DEF Hobs!BuildFv2Hob
  <1>8. CASE Hobs!BuildFv3Hob
    BY <1>2, <1>8 DEF Hobs!BuildFv3Hob
  <1>9. CASE Hobs!BuildResourceDescriptorHob
    BY <1>2, <1>9 DEF Hobs!BuildResourceDescriptorHob
  <1>10. CASE Hobs!BuildFvHob
    BY <1>2, <1>10 DEF Hobs!BuildFvHob
  <1>11. CASE Hobs!BuildCvHob
    BY <1>2, <1>11 DEF Hobs!BuildCvHob
  <1>12. CASE Hobs!BuildCpuHob
    BY <1>2, <1>12 DEF Hobs!BuildCpuHob
  <1>13. CASE Hobs!BuildStackHob
    BY <1>2, <1>13 DEF Hobs!BuildStackHob
  <1>14. CASE Hobs!BuildBspStoreHob
    BY <1>2, <1>14 DEF Hobs!BuildBspStoreHob
  <1>15. CASE Hobs!BuildMemoryAllocationHob
    BY <1>2, <1>15 DEF Hobs!BuildMemoryAllocationHob
  <1>16. QED
    BY <1>3, <1>4, <1>5, <1>6, <1>7, <1>8, <1>9, <1>10, <1>11, <1>12, <1>13, <1>14, <1>15
       DEF Hobs!Build

(* What a search from a place gives is what it has to find.                 *)
LEMMA SearchFinds ==
  ASSUME NEW places, built \in Seq({ built[i] : i \in DOMAIN built }), Absent \notin Nat,
         ListAt(places, hobMemory, endOfHobList, built),
         NEW what \in Searched, NEW k \in 1 .. Len(places), NEW found,
         found = IF Len(what) = 1 THEN Hobs!GetNextHob(what[1], places[k])
                 ELSE Hobs!GetNextGuidHob(what[2], places[k])
  PROVE  FoundFrom(places, hobMemory, k, what, found)
  <1>1. CASE \E type \in Hobs!Types : what = << type >>
    <2>1. PICK type \in Hobs!Types : what = << type >>
      BY <1>1
    <2>2. type # "END_OF_HOB_LIST"
      BY DEF Hobs!Types
    <2>3. found = Hobs!GetNextHob(type, places[k])
      BY <2>1
    <2>4. FoundFrom(places, hobMemory, k, << type >>, Hobs!GetNextHob(type, places[k]))
      BY <2>2, SearchByType
    <2>5. QED
      BY <2>1, <2>3, <2>4
  <1>2. CASE \E guid \in Guids : what = << "GUID_EXTENSION", guid >>
    <2>1. PICK guid \in Guids : what = << "GUID_EXTENSION", guid >>
      BY <1>2
    <2>2. found = Hobs!GetNextGuidHob(guid, places[k])
      BY <2>1
    <2>3. FoundFrom(places, hobMemory, k, << "GUID_EXTENSION", guid >>,
                    Hobs!GetNextGuidHob(guid, places[k]))
      BY SearchByGuid
    <2>4. QED
      BY <2>1, <2>2, <2>3
  <1>3. QED
    BY <1>1, <1>2 DEF Searched

LEMMA SearchStep ==
  ASSUME HobConstants, HobInv,
         Hobs!GetFirstHob \/ Hobs!GetFirstGuidHob \/ Hobs!FindNext
  PROVE  HobInv'
  <1>1. UNCHANGED << hobMemory, endOfHobList, built >>
    BY DEF Hobs!GetFirstHob, Hobs!GetFirstGuidHob, Hobs!FindNext, Hobs!Searching
  <1>2. built \in Seq({ built[i] : i \in DOMAIN built }) /\ Absent \notin Nat
    BY DEF HobInv, HobConstants
  <1>3. ASSUME NEW places \in Seq(Nat), NEW what \in Searched, NEW k \in 1 .. Len(places), NEW found,
               ListAt(places, hobMemory, endOfHobList, built),
               found = IF Len(what) = 1 THEN Hobs!GetNextHob(what[1], places[k])
                       ELSE Hobs!GetNextGuidHob(what[2], places[k]),
               hobCall' = [is |-> "search", what |-> what, start |-> places[k], found |-> found]
        PROVE  SearchAnswered(places, hobMemory)'
    <2>1. FoundFrom(places, hobMemory, k, what, found)
      BY <1>2, <1>3, SearchFinds
    <2>2. FoundFrom(places, hobMemory', k, what, found)
      BY <1>1, <2>1
    <2>3. /\ hobCall'.what = what /\ hobCall'.start = places[k] /\ hobCall'.found = found
      BY <1>3
    <2>4. \E i \in 1 .. Len(places) :
            hobCall'.start = places[i] /\ FoundFrom(places, hobMemory', i, hobCall'.what, hobCall'.found)
      BY <2>2, <2>3
    <2>5. QED
      BY <2>3, <2>4 DEF SearchAnswered, FoundFrom, Hit, Searched, Hobs!Types
  <1>4. CASE endOfHobList = Absent
    <2>1. hobCall.is # "search"
      BY <1>4 DEF HobInv, ListAt, HobConstants
    <2>2. hobCall' = [is |-> "assert"]
      BY <1>4, <2>1 DEF Hobs!GetFirstHob, Hobs!GetFirstGuidHob, Hobs!FindNext, Hobs!Answer,
                        Hobs!GetHobList, Hobs!Failed
    <2>3. hobCall'.is # "search"
      BY <2>2
    <2>4. QED
      BY <1>1, <2>3, SearchKeeps
  <1>5. CASE endOfHobList # Absent
    <2>1. ASSUME NEW places \in Seq(Nat), ListAt(places, hobMemory, endOfHobList, built),
                 SearchAnswered(places, hobMemory)
          PROVE  SearchAnswered(places, hobMemory)'
      <3>1. /\ Len(places) \in Nat /\ places[1] = 0 /\ 1 \in 1 .. Len(places)
            /\ \A i \in 1 .. Len(places) : places[i] \in Nat
        <4>1. Len(built) \in Nat
          BY <1>2
        <4>2. Len(places) \in Nat /\ Len(places) = Len(built) + 2 /\ places[1] = 0
          BY <2>1 DEF ListAt
        <4>3. QED
          BY <4>1, <4>2
      <3>2. CASE Hobs!GetFirstHob
        <4>1. PICK type \in Hobs!Types :
                hobCall' = [is |-> "search", what |-> << type >>, start |-> 0,
                            found |-> Hobs!GetNextHob(type, 0)]
          BY <1>2, <1>5, <3>2 DEF Hobs!GetFirstHob, Hobs!Answer, Hobs!GetHobList
        <4>2. PICK found : found = Hobs!GetNextHob(type, 0)
          OBVIOUS
        <4>3. PICK what : what = << type >>
          OBVIOUS
        <4>4. what \in Searched /\ Len(what) = 1 /\ what[1] = type
          BY <4>3 DEF Searched
        <4>5. hobCall' = [is |-> "search", what |-> what, start |-> places[1], found |-> found]
          BY <3>1, <4>1, <4>2, <4>3
        <4>6. found = IF Len(what) = 1 THEN Hobs!GetNextHob(what[1], places[1])
                      ELSE Hobs!GetNextGuidHob(what[2], places[1])
          BY <3>1, <4>2, <4>4
        <4>7. QED
          BY <1>3, <2>1, <3>1, <4>4, <4>5, <4>6
      <3>3. CASE Hobs!GetFirstGuidHob
        <4>1. PICK guid \in Guids :
                hobCall' = [is |-> "search", what |-> << "GUID_EXTENSION", guid >>, start |-> 0,
                            found |-> Hobs!GetNextGuidHob(guid, 0)]
          BY <1>2, <1>5, <3>3 DEF Hobs!GetFirstGuidHob, Hobs!Answer, Hobs!GetHobList
        <4>2. PICK found : found = Hobs!GetNextGuidHob(guid, 0)
          OBVIOUS
        <4>3. PICK what : what = << "GUID_EXTENSION", guid >>
          OBVIOUS
        <4>4. what \in Searched /\ Len(what) = 2 /\ what[2] = guid
          BY <4>3 DEF Searched
        <4>5. hobCall' = [is |-> "search", what |-> what, start |-> places[1], found |-> found]
          BY <3>1, <4>1, <4>2, <4>3
        <4>6. found = IF Len(what) = 1 THEN Hobs!GetNextHob(what[1], places[1])
                      ELSE Hobs!GetNextGuidHob(what[2], places[1])
          BY <3>1, <4>2, <4>4
        <4>7. QED
          BY <1>3, <2>1, <3>1, <4>4, <4>5, <4>6
      <3>4. CASE Hobs!FindNext
        <4>1. /\ hobCall.is = "search" /\ hobCall.found # Absent
              /\ LET behind == hobCall.found + hobMemory[hobCall.found].length
                 IN  Hobs!Answer(hobCall.what, behind,
                       IF Len(hobCall.what) = 1 THEN Hobs!GetNextHob(hobCall.what[1], behind)
                       ELSE Hobs!GetNextGuidHob(hobCall.what[2], behind))
          BY <3>4 DEF Hobs!FindNext
        <4>2. PICK what \in Searched : what = hobCall.what
          BY <2>1, <4>1 DEF SearchAnswered
        <4>3. PICK j \in 1 .. Len(places) : hobCall.found = places[j] /\ Hit(what, hobMemory[places[j]])
          BY <2>1, <3>1, <4>1, <4>2 DEF SearchAnswered, FoundFrom
        <4>4. hobMemory[places[j]].type # "END_OF_HOB_LIST"
          BY <4>3 DEF Hit, Searched, Hobs!Types
        <4>5. j + 1 \in 1 .. Len(places) /\ places[j + 1] = places[j] + hobMemory[places[j]].length
          <5>1. Len(built) \in Nat
            BY <1>2
          <5>2. QED
            BY <2>1, <4>4, <5>1, ListFacts
        <4>6. PICK k \in 1 .. Len(places) :
                k = j + 1 /\ places[k] = hobCall.found + hobMemory[hobCall.found].length
          BY <4>3, <4>5
        <4>7. PICK found : found = IF Len(what) = 1 THEN Hobs!GetNextHob(what[1], places[k])
                                   ELSE Hobs!GetNextGuidHob(what[2], places[k])
          OBVIOUS
        <4>8. places[k] # Absent
          BY <1>2, <3>1
        <4>9. hobCall' = [is |-> "search", what |-> what, start |-> places[k], found |-> found]
          BY <4>1, <4>2, <4>6, <4>7, <4>8 DEF Hobs!Answer
        <4>10. QED
          BY <1>3, <2>1, <4>7, <4>9
      <3>5. QED
        BY <3>2, <3>3, <3>4
    <2>2. QED
      BY <1>1, <1>5, <2>1, SearchKeeps
  <1>6. QED
    BY <1>4, <1>5

LEMMA BootModeKeeps ==
  ASSUME HobConstants, HobInv, Hobs!GetBootModeHob
  PROVE  HobInv'
  <1>1. PICK places \in Seq(Nat) : ListAt(places, Hobs!List.memory, Hobs!List.end, built)
    BY ListThere
  <1>2. /\ hobMemory' = Hobs!List.memory /\ endOfHobList' = Hobs!List.end /\ built' = built
        /\ hobCall'.is = "boot mode"
    BY DEF Hobs!GetBootModeHob
  <1>3. PICK mem, end, made : mem = Hobs!List.memory /\ end = Hobs!List.end /\ made = built
    OBVIOUS
  <1>4. ListAt(places, mem, end, made) /\ hobMemory' = mem /\ endOfHobList' = end /\ built' = made
    BY <1>1, <1>2, <1>3
  <1>5. ListAt(places, hobMemory', endOfHobList', built')
    BY ONLY <1>4
  <1>6. ListAt(places, hobMemory, endOfHobList, built)'
    BY ONLY <1>5 DEF ListAt, Hobs!EndMark
  <1>7. SearchAnswered(places, hobMemory)'
    BY <1>2 DEF SearchAnswered
  <1>8. (built \in Seq({ built[i] : i \in DOMAIN built }))'
    BY <1>2 DEF HobInv
  <1>9. QED
    BY <1>6, <1>7, <1>8 DEF HobInv

LEMMA HobStep ==
  ASSUME HobConstants, HobInv, [Hobs!Next]_(Hobs!vars)
  PROVE  HobInv'
  <1>1. CASE Hobs!Build
    BY <1>1, BuildKeeps
  <1>2. CASE Hobs!GetFirstHob \/ Hobs!GetFirstGuidHob \/ Hobs!FindNext
    BY <1>2, SearchStep
  <1>3. CASE Hobs!GetBootModeHob
    BY <1>3, BootModeKeeps
  <1>4. CASE UNCHANGED Hobs!vars
    <2>1. UNCHANGED << hobMemory, endOfHobList, built >> /\ hobCall' = hobCall
      BY <1>4 DEF Hobs!vars
    <2>2. \A places : SearchAnswered(places, hobMemory)' <=> SearchAnswered(places, hobMemory)
      BY <2>1 DEF SearchAnswered, FoundFrom, Hit, Searched, Hobs!Types
    <2>3. endOfHobList = Absent => hobCall.is # "search"
      BY DEF HobInv, ListAt, HobConstants
    <2>4. QED
      BY <2>1, <2>2, <2>3, SearchKeeps
  <1>5. QED
    BY <1>1, <1>2, <1>3, <1>4 DEF Hobs!Next

LEMMA HobsAnswer ==
  ASSUME HobConstants, HobInv
  PROVE  Hobs!ListExact /\ Hobs!SearchesExact
  <1>1. CASE endOfHobList = Absent
    <2>1. hobCall.is # "search"
      BY <1>1 DEF HobInv, ListAt, HobConstants
    <2>2. QED
      BY <1>1, <2>1 DEF Hobs!ListExact, Hobs!SearchesExact
  <1>2. CASE endOfHobList # Absent
    <2>1. PICK places \in Seq(Nat) : /\ ListAt(places, hobMemory, endOfHobList, built)
                                     /\ SearchAnswered(places, hobMemory)
      BY <1>2 DEF HobInv
    <2>2. built \in Seq({ built[i] : i \in DOMAIN built }) /\ Len(built) \in Nat
      BY BuiltLength DEF HobInv
    <2>3. Hobs!Visited = places
      BY <2>1, <2>2, Visiting
    <2>4. Hobs!ListExact
      <3>1. \A i \in 1 .. Len(built) :
              [type |-> hobMemory[places[i + 1]].type, contents |-> hobMemory[places[i + 1]].contents]
                = built[i]
        BY <2>1 DEF ListAt
      <3>2. /\ hobMemory[places[Len(built) + 2]] = Hobs!EndMark
            /\ places[Len(built) + 2] = endOfHobList /\ endOfHobList + 8 <= SIZE_64KB
        BY <2>1 DEF ListAt
      <3>3. QED
        BY <2>3, <3>1, <3>2 DEF Hobs!ListExact, Hobs!Header
    <2>5. Hobs!SearchesExact
      <3>1. SUFFICES ASSUME hobCall.is = "search" PROVE Hobs!SearchesExact
        BY DEF Hobs!SearchesExact
      <3>2. PICK k \in 1 .. Len(places) :
              /\ hobCall.start = places[k]
              /\ FoundFrom(places, hobMemory, k, hobCall.what, hobCall.found)
        BY <2>1, <3>1 DEF SearchAnswered
      <3>3. /\ Len(places) \in Nat
            /\ \A i \in 1 .. Len(places) : places[i] \in Nat
            /\ \A i, j \in 1 .. Len(places) : i < j => places[i] < places[j]
        BY <2>1, <2>2, ListFacts
      <3> DEFINE n == Len(places)
                 all == { places[i] : i \in 1 .. n }
                 hits == { at \in all : /\ at >= hobCall.start
                                        /\ hobMemory[at].type = hobCall.what[1]
                                        /\ Len(hobCall.what) = 2 =>
                                             hobMemory[at].contents[1] = hobCall.what[2] }
      <3>4. \A i \in 1 .. n : places[i] >= hobCall.start <=> i >= k
        <4>1. SUFFICES ASSUME NEW i \in 1 .. n PROVE places[i] >= places[k] <=> i >= k
          BY <3>2
        <4>2. i < k \/ i = k \/ k < i
          BY <3>3
        <4>3. places[i] \in Nat /\ places[k] \in Nat
          BY <3>3
        <4>4. CASE i < k
          BY <3>3, <4>3, <4>4
        <4>5. CASE i = k
          BY <3>3, <4>3, <4>5
        <4>6. CASE k < i
          BY <3>3, <4>3, <4>6
        <4>7. QED
          BY <4>2, <4>4, <4>5, <4>6
      <3>5. \A i \in k .. n : i \in 1 .. n
        BY <3>3
      <3>6. \A at : at \in hits <=> \E i \in k .. n : at = places[i] /\ Hit(hobCall.what, hobMemory[at])
        <4>1. ASSUME NEW i \in 1 .. n
              PROVE  places[i] \in hits <=> i >= k /\ Hit(hobCall.what, hobMemory[places[i]])
          BY <3>4 DEF Hit
        <4> HIDE DEF hits
        <4>2. \A at : at \in hits => \E i \in 1 .. n : at = places[i]
          BY DEF hits
        <4>3. \A i \in 1 .. n : i >= k <=> i \in k .. n
          BY <3>3
        <4> HIDE DEF n
        <4>4. QED
          BY <3>5, <4>1, <4>2, <4>3
      <3>7. Hobs!SearchesExact <=>
              IF hits = {} THEN hobCall.found = Absent
              ELSE hobCall.found \in hits /\ \A at \in hits : hobCall.found <= at
        BY <2>3, <3>1 DEF Hobs!SearchesExact
      <3> HIDE DEF hits, n
      <3>8. CASE hobCall.found = Absent /\ \A i \in k .. n : ~Hit(hobCall.what, hobMemory[places[i]])
        <4>1. hits = {}
          BY <3>6, <3>8
        <4>2. QED
          BY <3>7, <3>8, <4>1
      <3>9. ASSUME NEW j \in k .. n, hobCall.found = places[j], Hit(hobCall.what, hobMemory[places[j]]),
                   \A i \in k .. j - 1 : ~Hit(hobCall.what, hobMemory[places[i]])
            PROVE  Hobs!SearchesExact
        <4>1. hobCall.found \in hits
          BY <3>6, <3>9
        <4>2. ASSUME NEW at \in hits PROVE hobCall.found <= at
          <5>1. PICK i \in k .. n : at = places[i] /\ Hit(hobCall.what, hobMemory[at])
            BY <3>6
          <5>2. i \notin k .. j - 1
            BY <3>9, <5>1
          <5>3. i \in 1 .. n /\ j \in 1 .. n /\ (j < i \/ i = j)
            BY <3>3, <3>5, <5>2 DEF n
          <5>4. places[i] \in Nat /\ places[j] \in Nat /\ (j < i => places[j] < places[i])
            BY <3>3, <5>3 DEF n
          <5>5. QED
            BY <3>9, <5>1, <5>3, <5>4
        <4>3. QED
          BY <3>7, <4>1, <4>2
      <3>10. QED
        BY <3>2, <3>8, <3>9 DEF FoundFrom, n
    <2>6. QED
      BY <2>4, <2>5
  <1>3. QED
    BY <1>1, <1>2

(***************************************************************************)
(* For any size of the memory, any GUIDs and any lengths of data: a reader *)
(* of the HOB list meets the blocks that were built, all of them and in    *)
(* their order, and then the end mark, inside the memory; and a search for *)
(* a type or a GUID, from the first block or on from the last one found,   *)
(* finds the first that matches, or nothing when there is none             *)
(* (HobLibHost.c:68, 133, 245).                                            *)
(***************************************************************************)
THEOREM HobsCorrect ==
  ASSUME HobConstants
  PROVE  Hobs!Spec => []HobsExact
  <1>1. Hobs!Init => HobInv
    <2>1. SUFFICES ASSUME Hobs!Init PROVE HobInv
      OBVIOUS
    <2>2. endOfHobList = Absent /\ built = << >> /\ hobCall = [is |-> "idle"]
      BY <2>1 DEF Hobs!Init, Hobs!Idle
    <2>3. hobCall.is # "search"
      BY <2>2
    <2>4. built \in Seq({ built[i] : i \in DOMAIN built })
      BY <2>2
    <2>5. QED
      BY <2>2, <2>3, <2>4 DEF HobInv
  <1>2. HobInv /\ [Hobs!Next]_(Hobs!vars) => HobInv'
    BY HobStep
  <1>3. HobInv => HobsExact
    BY HobsAnswer DEF HobsExact, Hobs!HobsExact
  <1>4. QED
    BY <1>1, <1>2, <1>3, PTL DEF Hobs!Spec
===============================================================================
