------------------------- MODULE HandleDatabaseProofs -------------------------
(* Proofs of the safety properties of HandleDatabase for every number of   *)
(* handles, interfaces, GUIDs and registrations.                           *)
EXTENDS HandleDatabase, FoldProofs, TLAPS

-----------------------------------------------------------------------------
(* Lists without duplicates.                                               *)

(* The place IndexOf chooses is the only one that holds the element.       *)
LEMMA IndexOfElement ==
  ASSUME NEW S, NEW s \in Seq(S), IsInjective(s), NEW i \in ToSet(s)
  PROVE  /\ IndexOf(s, i) \in 1 .. Len(s)
         /\ s[IndexOf(s, i)] = i
         /\ \A k \in 1 .. Len(s) : s[k] = i => k = IndexOf(s, i)
  BY DEF IndexOf, IsInjective, ToSet

(* The same for an element that is taken out.                              *)
LEMMA WithoutElement ==
  ASSUME NEW S, NEW s \in Seq(S), IsInjective(s), NEW i \in ToSet(s)
  PROVE  /\ WithoutInterface(s, i) \in Seq(S)
         /\ IsInjective(WithoutInterface(s, i))
         /\ ToSet(WithoutInterface(s, i)) = ToSet(s) \ {i}
  BY IndexOfElement, RemoveElement DEF WithoutInterface

-----------------------------------------------------------------------------
(* The links between handles, interfaces and entries.                      *)

Links == ListsAgree /\ HandleLifetime /\ UniqueProtocol

(* A step that leaves handles, interfaces and lists alone.                 *)
LEMMA LinksUnchanged ==
  ASSUME Links, UNCHANGED << handles, handleProtocols, byProtocol, prot >>
  PROVE  Links'
  BY DEF Links, ListsAgree, HandleLifetime, UniqueProtocol, Allocated

(* Installing: the new structure was free, so no list held it.             *)
LEMMA LinksAddInterface ==
  ASSUME TypeOK, Links,
         NEW h \in Handles, NEW g \in Protocols, NEW x \in Interfaces, NEW i \in Prots,
         AddInterface(h, g, x, i)
  PROVE  Links'
  <1>1. /\ prot'[i] = [handle |-> h, protocol |-> g, interface |-> x]
        /\ \A j \in Prots \ {i} : prot'[j] = prot[j]
        /\ prot'[i] # NULL
        /\ i \notin Allocated
        /\ Allocated' = Allocated \cup {i}
    BY FreeMemoryAssumption DEF AddInterface, LinkInterface, Allocated, TypeOK, ProtocolInterface
  <1>2. \A k \in Handles :
          handleProtocols'[k] = IF k = h THEN handleProtocols[h] \cup {i}
                                ELSE handleProtocols[k]
    BY DEF AddInterface, LinkInterface, TypeOK
  <1>3. i \notin ToSet(byProtocol[g])
    BY <1>1 DEF Links, ListsAgree
  <1>4. /\ ToSet(byProtocol'[g]) = ToSet(byProtocol[g]) \cup {i}
        /\ IsInjective(byProtocol'[g])
        /\ \A f \in Protocols \ {g} : byProtocol'[f] = byProtocol[f]
    <2>1. byProtocol[g] \in Seq(Prots) /\ IsInjective(byProtocol[g])
      BY DEF TypeOK, Links, ListsAgree
    <2>2. byProtocol' = [byProtocol EXCEPT ![g] = Append(@, i)]
      BY DEF AddInterface, LinkInterface
    <2>3. QED
      BY <1>3, <2>1, <2>2, AppendElement DEF TypeOK
  <1>5. ListsAgree'
    <2>1. \A k \in Handles :
            handleProtocols'[k] = { j \in Allocated' : prot'[j].handle = k }
      BY <1>1, <1>2 DEF Links, ListsAgree, Allocated
    <2>2. ASSUME NEW f \in Protocols
          PROVE  /\ ToSet(byProtocol'[f]) = { j \in Allocated' : prot'[j].protocol = f }
                 /\ IsInjective(byProtocol'[f])
      <3>1. CASE f = g
        BY <1>1, <1>4, <3>1 DEF Links, ListsAgree, Allocated
      <3>2. CASE f # g
        BY <1>1, <1>4, <3>2 DEF Links, ListsAgree, Allocated
      <3>3. QED
        BY <3>1, <3>2
    <2>3. QED
      BY <2>1, <2>2 DEF ListsAgree
  <1>6. handles' = handles \cup {h}
    BY DEF AddInterface, LinkInterface
  <1>7. HandleLifetime'
    BY <1>1, <1>2, <1>6 DEF Links, HandleLifetime, Allocated
  <1>8. UniqueProtocol'
    <2>1. ASSUME NEW j \in Allocated, prot[j].handle = h, prot[j].protocol = g
          PROVE  FALSE
      <3>1. h \in handles /\ j \in handleProtocols[h]
        BY <2>1 DEF Links, ListsAgree, HandleLifetime
      <3>2. j \in Lookup(h, g)
        BY <2>1, <3>1 DEF Lookup
      <3>3. QED
        BY <3>2 DEF AddInterface, LinkInterface
    <2>2. QED
      BY <1>1, <2>1 DEF Links, UniqueProtocol, Allocated
  <1>9. QED
    BY <1>5, <1>7, <1>8 DEF Links

(* Uninstalling: both lists lose exactly the structure that is freed.      *)
LEMMA LinksRemoveInterface ==
  ASSUME TypeOK, Links, NEW i \in Prots, RemoveInterface(i)
  PROVE  Links'
  <1> DEFINE h == prot[i].handle
             g == prot[i].protocol
  <1>1. /\ i \in Allocated
        /\ h \in Handles /\ g \in Protocols
        /\ prot'[i] = NULL
        /\ \A j \in Prots \ {i} : prot'[j] = prot[j]
        /\ Allocated' = Allocated \ {i}
    BY DEF RemoveInterface, UnlinkInterface, LastInterface, Allocated, TypeOK, ProtocolInterface
  <1>2. /\ handleProtocols'[h] = handleProtocols[h] \ {i}
        /\ \A k \in Handles \ {h} : handleProtocols'[k] = handleProtocols[k]
    BY <1>1 DEF RemoveInterface, UnlinkInterface, LastInterface, TypeOK
  <1>3. /\ ToSet(byProtocol'[g]) = ToSet(byProtocol[g]) \ {i}
        /\ IsInjective(byProtocol'[g])
        /\ \A f \in Protocols \ {g} : byProtocol'[f] = byProtocol[f]
    <2>1. /\ byProtocol[g] \in Seq(Prots) /\ IsInjective(byProtocol[g])
          /\ i \in ToSet(byProtocol[g])
      BY <1>1 DEF TypeOK, Links, ListsAgree
    <2>2. byProtocol' = [byProtocol EXCEPT ![g] = WithoutInterface(@, i)]
      BY DEF RemoveInterface, UnlinkInterface, LastInterface
    <2>3. QED
      BY <1>1, <2>1, <2>2, WithoutElement DEF TypeOK
  <1> HIDE DEF h, g
  <1>4. ListsAgree'
    <2>1. ASSUME NEW k \in Handles
          PROVE  handleProtocols'[k] = { j \in Allocated' : prot'[j].handle = k }
      BY <1>1, <1>2 DEF Links, ListsAgree, Allocated, h
    <2>2. ASSUME NEW f \in Protocols
          PROVE  /\ ToSet(byProtocol'[f]) = { j \in Allocated' : prot'[j].protocol = f }
                 /\ IsInjective(byProtocol'[f])
      <3>1. CASE f = g
        BY <1>1, <1>3, <3>1 DEF Links, ListsAgree, Allocated
      <3>2. CASE f # g
        BY <1>1, <1>3, <3>2 DEF Links, ListsAgree, Allocated, g
      <3>3. QED
        BY <3>1, <3>2
    <2>3. QED
      BY <2>1, <2>2 DEF ListsAgree
  <1>5. handles' = IF handleProtocols[h] \subseteq {i} THEN handles \ {h} ELSE handles
    BY DEF RemoveInterface, UnlinkInterface, LastInterface, h
  <1>6. HandleLifetime'
    <2>1. \A k \in Handles : k \in handles' <=> handleProtocols'[k] # {}
      BY <1>1, <1>2, <1>5 DEF Links, HandleLifetime
    <2>2. ASSUME NEW j \in Allocated'
          PROVE  prot'[j].handle \in handles'
      <3>1. j \in handleProtocols'[prot'[j].handle] /\ prot'[j].handle \in Handles
        BY <1>1, <1>4, <2>2 DEF ListsAgree, Allocated, TypeOK, ProtocolInterface
      <3>2. QED
        BY <2>1, <3>1
    <2>3. QED
      BY <2>1, <2>2 DEF HandleLifetime
  <1>7. UniqueProtocol'
    BY <1>1 DEF Links, UniqueProtocol, Allocated
  <1>8. QED
    BY <1>4, <1>6, <1>7 DEF Links

(* Reinstalling: i leaves its entry's list and comes back at the end of it.*)
LEMMA LinksReplaceInterface ==
  ASSUME TypeOK, Links, NEW i \in Prots, NEW x \in Interfaces, ReplaceInterface(i, x)
  PROVE  Links'
  <1> DEFINE g == prot[i].protocol
             s == byProtocol[g]
             t == WithoutInterface(s, i)
  <1>1. /\ i \in Allocated
        /\ g \in Protocols
        /\ \A j \in Prots \ {i} : prot'[j] = prot[j]
        /\ prot'[i] \in ProtocolInterface
        /\ prot'[i].handle = prot[i].handle /\ prot'[i].protocol = g
    BY DEF ReplaceInterface, RelinkInterface, Allocated, TypeOK, ProtocolInterface
  <1>2. Allocated' = Allocated
    BY <1>1, FreeMemoryAssumption DEF Allocated
  <1>3. s \in Seq(Prots) /\ IsInjective(s) /\ i \in ToSet(s)
    BY <1>1 DEF TypeOK, Links, ListsAgree
  <1>4. t \in Seq(Prots) /\ IsInjective(t) /\ ToSet(t) = ToSet(s) \ {i}
    BY <1>3, WithoutElement
  <1>5. byProtocol' = [byProtocol EXCEPT ![g] = Append(t, i)]
    BY DEF ReplaceInterface, RelinkInterface
  <1> HIDE DEF g, t
  <1>6. /\ ToSet(byProtocol'[g]) = ToSet(byProtocol[g])
        /\ IsInjective(byProtocol'[g])
        /\ \A f \in Protocols \ {g} : byProtocol'[f] = byProtocol[f]
    <2>1. /\ IsInjective(Append(t, i))
          /\ ToSet(Append(t, i)) = ToSet(t) \cup {i}
      BY <1>4, AppendElement
    <2>2. QED
      BY <1>1, <1>3, <1>4, <1>5, <2>1 DEF TypeOK
  <1>7. ListsAgree'
    <2>1. ASSUME NEW k \in Handles
          PROVE  handleProtocols'[k] = { j \in Allocated' : prot'[j].handle = k }
      BY <1>1, <1>2 DEF ReplaceInterface, RelinkInterface, Links, ListsAgree, Allocated
    <2>2. ASSUME NEW f \in Protocols
          PROVE  /\ ToSet(byProtocol'[f]) = { j \in Allocated' : prot'[j].protocol = f }
                 /\ IsInjective(byProtocol'[f])
      <3>1. { j \in Allocated' : prot'[j].protocol = f }
              = { j \in Allocated : prot[j].protocol = f }
        BY <1>1, <1>2 DEF Allocated, g
      <3>2. QED
        BY <3>1, <1>6 DEF Links, ListsAgree
    <2>3. QED
      BY <2>1, <2>2 DEF ListsAgree
  <1>8. HandleLifetime'
    <2>1. UNCHANGED << handles, handleProtocols >>
      BY DEF ReplaceInterface, RelinkInterface
    <2>2. \A j \in Allocated' : prot'[j].handle = prot[j].handle
      BY <1>1, <1>2 DEF Allocated
    <2>3. QED
      BY <1>2, <2>1, <2>2 DEF Links, HandleLifetime
  <1>9. UniqueProtocol'
    <2>1. \A j \in Allocated' : /\ prot'[j].handle = prot[j].handle
                                /\ prot'[j].protocol = prot[j].protocol
      BY <1>1, <1>2 DEF Allocated, g
    <2>2. QED
      BY <1>2, <2>1 DEF Links, UniqueProtocol
  <1>10. QED
    BY <1>7, <1>8, <1>9 DEF Links

-----------------------------------------------------------------------------
(* Where the registrations stand.                                          *)

(* Appending moves no element.                                             *)
LEMMA IndexAfterAppend ==
  ASSUME NEW S, NEW s \in Seq(S), IsInjective(s), NEW i \in S, i \notin ToSet(s),
         NEW p \in ToSet(s)
  PROVE  IndexOf(Append(s, i), p) = IndexOf(s, p)
  <1>1. /\ IndexOf(s, p) \in 1 .. Len(s) /\ s[IndexOf(s, p)] = p
    BY IndexOfElement
  <1>2. /\ Append(s, i) \in Seq(S) /\ IsInjective(Append(s, i))
        /\ p \in ToSet(Append(s, i))
        /\ Len(Append(s, i)) = Len(s) + 1
        /\ \A k \in 1 .. Len(s) : Append(s, i)[k] = s[k]
    BY AppendElement
  <1>3. \A k \in 1 .. Len(Append(s, i)) :
          Append(s, i)[k] = p => k = IndexOf(Append(s, i), p)
    BY <1>2, IndexOfElement
  <1>4. IndexOf(s, p) \in 1 .. Len(Append(s, i)) /\ Append(s, i)[IndexOf(s, p)] = p
    BY <1>1, <1>2
  <1>5. QED
    BY <1>3, <1>4

(* Taking i out moves the elements behind it, and them only, one place.    *)
LEMMA IndexAfterRemove ==
  ASSUME NEW S, NEW s \in Seq(S), IsInjective(s), NEW i \in ToSet(s),
         NEW p \in ToSet(s) \ {i}
  PROVE  IndexOf(WithoutInterface(s, i), p) =
           IF IndexOf(s, p) < IndexOf(s, i) THEN IndexOf(s, p) ELSE IndexOf(s, p) - 1
  <1> DEFINE n == IndexOf(s, i)
             m == IndexOf(s, p)
             t == WithoutInterface(s, i)
             q == IF m < n THEN m ELSE m - 1
  <1>1. n \in 1 .. Len(s) /\ s[n] = i /\ m \in 1 .. Len(s) /\ s[m] = p
    BY IndexOfElement
  <1>2. /\ t \in Seq(S) /\ IsInjective(t) /\ p \in ToSet(t)
    BY WithoutElement
  <1>3. /\ Len(t) = Len(s) - 1
        /\ \A k \in 1 .. Len(s) - 1 : t[k] = IF k < n THEN s[k] ELSE s[k + 1]
    BY <1>1, RemoveElementAt DEF WithoutInterface
  <1>4. \A k \in 1 .. Len(t) : t[k] = p => k = IndexOf(t, p)
    BY <1>2, IndexOfElement
  <1> HIDE DEF n, m, t
  <1>5. m # n /\ Len(s) \in Nat
    BY <1>1
  <1>6. q \in 1 .. Len(t) /\ t[q] = p
    <2>1. CASE m < n
      BY <1>1, <1>3, <1>5, <2>1
    <2>2. CASE m > n
      <3>1. m - 1 \in 1 .. Len(s) - 1 /\ ~(m - 1 < n) /\ (m - 1) + 1 = m
        BY <1>1, <1>5, <2>2
      <3>2. t[m - 1] = s[m]
        BY <1>3, <3>1
      <3>3. QED
        BY <1>1, <1>3, <2>2, <3>1, <3>2
    <2>3. QED
      BY <1>1, <1>5, <2>1, <2>2
  <1>7. QED
    BY <1>4, <1>6 DEF m, n, t

LEMMA UpToAfterRemove ==
  ASSUME NEW S, NEW s \in Seq(S), IsInjective(s), NEW i \in ToSet(s),
         NEW k \in 0 .. Len(s)
  PROVE  UpTo(WithoutInterface(s, i), IF k < IndexOf(s, i) THEN k ELSE k - 1)
           = UpTo(s, k) \ {i}
  <1> DEFINE n == IndexOf(s, i)
             t == WithoutInterface(s, i)
             q == IF k < n THEN k ELSE k - 1
  <1>1. /\ n \in 1 .. Len(s) /\ s[n] = i
        /\ \A j \in 1 .. Len(s) : s[j] = i => j = n
    BY IndexOfElement
  <1>2. \A j \in 1 .. Len(s) - 1 : t[j] = IF j < n THEN s[j] ELSE s[j + 1]
    BY <1>1, RemoveElementAt DEF WithoutInterface
  <1> HIDE DEF n, t
  <1>3. Len(s) \in Nat
    OBVIOUS
  <1>4. ASSUME NEW j \in 1 .. q
        PROVE  t[j] \in UpTo(s, k) \ {i}
    <2>1. j \in 1 .. Len(s) - 1
      BY <1>1, <1>3
    <2>2. CASE j < n
      BY <2>1, <2>2, <1>1, <1>2, <1>3 DEF UpTo
    <2>3. CASE ~(j < n)
      <3>1. j + 1 \in 1 .. k /\ j + 1 \in 1 .. Len(s) /\ j + 1 # n
        BY <2>3, <1>1, <1>3
      <3>2. t[j] = s[j + 1]
        BY <2>1, <2>3, <1>2
      <3>3. QED
        BY <3>1, <3>2, <1>1 DEF UpTo
    <2>4. QED
      BY <2>2, <2>3
  <1>5. ASSUME NEW j \in 1 .. k, s[j] # i
        PROVE  s[j] \in UpTo(t, q)
    <2>1. CASE j < n
      <3>1. j \in 1 .. q /\ j \in 1 .. Len(s) - 1
        BY <2>1, <1>1, <1>3
      <3>2. t[j] = s[j]
        BY <2>1, <3>1, <1>2
      <3>3. QED
        BY <3>1, <3>2 DEF UpTo
    <2>2. CASE j > n
      <3>1. /\ j - 1 \in 1 .. q /\ j - 1 \in 1 .. Len(s) - 1
            /\ ~(j - 1 < n) /\ (j - 1) + 1 = j
        BY <2>2, <1>1, <1>3
      <3>2. t[j - 1] = s[j]
        BY <3>1, <1>2
      <3>3. QED
        BY <3>1, <3>2 DEF UpTo
    <2>3. QED
      BY <1>1, <1>5, <2>1, <2>2
  <1>6. UpTo(t, q) = UpTo(s, k) \ {i}
    BY <1>4, <1>5 DEF UpTo
  <1>7. QED
    BY <1>6 DEF n, t

(* A position on the list, or at its head, keeps what lies before it when  *)
(* the list grows at its end,                                              *)
LEMMA SeenAfterAppend ==
  ASSUME NEW S, NEW s \in Seq(S), IsInjective(s), NEW i \in S, i \notin ToSet(s),
         NEW p \in ToSet(s) \cup {ListHead}
  PROVE  UpTo(Append(s, i), PlaceOf(Append(s, i), p)) = UpTo(s, PlaceOf(s, p))
  <1>1. PlaceOf(Append(s, i), p) = PlaceOf(s, p)
    BY IndexAfterAppend DEF PlaceOf
  <1>2. \A j \in 1 .. PlaceOf(s, p) : j \in 1 .. Len(s)
    BY IndexOfElement DEF PlaceOf
  <1>3. \A j \in 1 .. Len(s) : Append(s, i)[j] = s[j]
    OBVIOUS
  <1>4. QED
    BY <1>1, <1>2, <1>3 DEF UpTo

(* and loses only i when i leaves the list, provided that a position on i  *)
(* is backed up to the element before it.                                  *)
LEMMA SeenAfterRemove ==
  ASSUME NEW S, NEW s \in Seq(S), IsInjective(s), NEW i \in ToSet(s),
         NEW p \in ToSet(s) \cup {ListHead}, ListHead \notin S,
         NEW q, q = IF p = i THEN BackLink(s, i) ELSE p
  PROVE  /\ q \in ToSet(WithoutInterface(s, i)) \cup {ListHead}
         /\ UpTo(WithoutInterface(s, i), PlaceOf(WithoutInterface(s, i), q))
              = UpTo(s, PlaceOf(s, p)) \ {i}
  <1> DEFINE n == IndexOf(s, i)
             t == WithoutInterface(s, i)
             k == PlaceOf(s, p)
  <1>1. /\ n \in 1 .. Len(s) /\ s[n] = i /\ Len(s) \in Nat
        /\ ToSet(s) \subseteq S /\ i # ListHead
        /\ \A j \in 1 .. Len(s) : s[j] \in ToSet(s)
    BY IndexOfElement DEF ToSet
  <1>2. ToSet(t) = ToSet(s) \ {i}
    BY WithoutElement
  <1>3. k \in 0 .. Len(s)
    BY <1>1, IndexOfElement DEF PlaceOf
  <1>4. UpTo(t, IF k < n THEN k ELSE k - 1) = UpTo(s, k) \ {i}
    BY <1>3, UpToAfterRemove
  <1>5. /\ q \in ToSet(t) \cup {ListHead}
        /\ PlaceOf(t, q) = IF k < n THEN k ELSE k - 1
    <2>1. CASE p = i /\ n = 1
      <3>1. q = ListHead /\ k = 1
        BY <2>1, <1>1 DEF BackLink, PlaceOf
      <3>2. QED
        BY <2>1, <3>1 DEF PlaceOf
    <2>2. CASE p = i /\ n # 1
      <3>1. q = s[n - 1] /\ n - 1 \in 1 .. Len(s) /\ k = n /\ n - 1 < n /\ n - 1 # n
        BY <2>2, <1>1 DEF BackLink, PlaceOf
      <3>2. q \in ToSet(s) \ {i} /\ IndexOf(s, q) = n - 1
        BY <3>1, <1>1, IndexOfElement DEF IsInjective
      <3>3. IndexOf(t, q) = n - 1
        BY <3>1, <3>2, IndexAfterRemove
      <3>4. QED
        BY <3>1, <3>2, <3>3, <1>1, <1>2 DEF PlaceOf
    <2>3. CASE p # i /\ p = ListHead
      BY <2>3, <1>1 DEF PlaceOf
    <2>4. CASE p # i /\ p # ListHead
      <3>1. q = p /\ p \in ToSet(s) \ {i} /\ k = IndexOf(s, p)
        BY <2>4 DEF PlaceOf
      <3>2. QED
        BY <2>4, <3>1, <1>2, IndexAfterRemove DEF PlaceOf
    <2>5. QED
      BY <2>1, <2>2, <2>3, <2>4
  <1>6. QED
    BY <1>4, <1>5

Walks == PositionsLive /\ DeliveredOnce

LEMMA WalksUnchanged ==
  ASSUME Walks, UNCHANGED << byProtocol, notify, delivered >>
  PROVE  Walks'
  BY DEF Walks, PositionsLive, DeliveredOnce, Registered, PositionIndex, PlaceOf

(* The registrations of a list that changes from s to s2 stay right when   *)
(* each of them does; those of the other lists do not notice.              *)
LEMMA WalksAddInterface ==
  ASSUME TypeOK, Links, Walks,
         NEW h \in Handles, NEW g \in Protocols, NEW x \in Interfaces, NEW i \in Prots,
         AddInterface(h, g, x, i)
  PROVE  Walks'
  <1>1. /\ byProtocol' = [byProtocol EXCEPT ![g] = Append(@, i)]
        /\ byProtocol \in [Protocols -> Seq(Prots)]
        /\ UNCHANGED << notify, delivered >>
    BY DEF AddInterface, LinkInterface, TypeOK
  <1>2. i \notin ToSet(byProtocol[g])
    BY DEF AddInterface, LinkInterface, Links, ListsAgree, Allocated
  <1>3. ASSUME NEW r \in Registered'
        PROVE  LET f == notify[r].protocol
                   p == notify[r].position
               IN  /\ p \in ToSet(byProtocol'[f]) \cup {ListHead}
                   /\ delivered[r] = UpTo(byProtocol'[f], PlaceOf(byProtocol'[f], p))
    <2> DEFINE f == notify[r].protocol
               p == notify[r].position
    <2>1. /\ f \in Protocols
          /\ p \in ToSet(byProtocol[f]) \cup {ListHead}
          /\ delivered[r] = UpTo(byProtocol[f], PlaceOf(byProtocol[f], p))
      BY <1>1, <1>3 DEF Walks, PositionsLive, DeliveredOnce, Registered,
                        PositionIndex, TypeOK, ProtocolNotify
    <2> HIDE DEF f, p
    <2>2. CASE f # g
      BY <1>1, <2>1, <2>2 DEF f, p
    <2>3. CASE f = g
      <3>1. byProtocol[g] \in Seq(Prots) /\ IsInjective(byProtocol[g])
        BY <1>1 DEF Links, ListsAgree
      <3>2. byProtocol'[g] = Append(byProtocol[g], i)
        BY <1>1
      <3>3. ToSet(byProtocol'[g]) = ToSet(byProtocol[g]) \cup {i}
        BY <1>2, <3>1, <3>2, AppendElement
      <3>4. UpTo(byProtocol'[g], PlaceOf(byProtocol'[g], p))
              = UpTo(byProtocol[g], PlaceOf(byProtocol[g], p))
        BY <1>2, <2>1, <2>3, <3>1, <3>2, SeenAfterAppend
      <3>5. QED
        BY <2>1, <2>3, <3>3, <3>4 DEF f, p
    <2>4. QED
      BY <2>2, <2>3
  <1>4. QED
    BY <1>1, <1>3 DEF Walks, PositionsLive, DeliveredOnce, Registered, PositionIndex

(* Backing up the positions on i is what RemoveInterface and               *)
(* ReplaceInterface have in common.                                        *)
LEMMA WalkWithout ==
  ASSUME TypeOK, Links, Walks, NEW i \in Allocated, BackUpPositions(i), Forget(i),
         NEW r \in Registrations, notify'[r] # NULL
  PROVE  LET f == notify'[r].protocol
             p == notify'[r].position
             s == IF f = prot[i].protocol THEN WithoutInterface(byProtocol[f], i)
                  ELSE byProtocol[f]
         IN  /\ f \in Protocols
             /\ p \in ToSet(s) \cup {ListHead}
             /\ delivered'[r] = UpTo(s, PlaceOf(s, p))
  <1> DEFINE g == prot[i].protocol
             f == notify[r].protocol
             p == notify[r].position
  <1>1. /\ r \in Registered
        /\ notify[r] \in ProtocolNotify
        /\ notify'[r] = IF f = g /\ p = i
                        THEN [notify[r] EXCEPT !.position = BackLink(byProtocol[g], i)]
                        ELSE notify[r]
    BY DEF BackUpPositions, Registered, TypeOK
  <1>2. /\ f \in Protocols
        /\ p \in ToSet(byProtocol[f]) \cup {ListHead}
        /\ delivered[r] = UpTo(byProtocol[f], PlaceOf(byProtocol[f], p))
        /\ delivered'[r] = delivered[r] \ {i}
    BY <1>1 DEF Walks, PositionsLive, DeliveredOnce, PositionIndex, ProtocolNotify, Forget
  <1>3. /\ g \in Protocols /\ i \in Prots
        /\ i \in ToSet(byProtocol[g])
        /\ \A e \in Protocols \ {g} : i \notin ToSet(byProtocol[e])
        /\ \A e \in Protocols : byProtocol[e] \in Seq(Prots) /\ IsInjective(byProtocol[e])
    BY DEF Links, ListsAgree, TypeOK, Allocated, ProtocolInterface
  <1>4. /\ notify'[r].protocol = f
        /\ notify'[r].position = IF f = g /\ p = i THEN BackLink(byProtocol[g], i) ELSE p
    BY <1>1 DEF ProtocolNotify
  <1> HIDE DEF f, p, g
  <1>5. CASE f = g
    <2>1. /\ notify'[r].position \in ToSet(WithoutInterface(byProtocol[f], i)) \cup {ListHead}
          /\ UpTo(WithoutInterface(byProtocol[f], i),
                  PlaceOf(WithoutInterface(byProtocol[f], i), notify'[r].position))
               = UpTo(byProtocol[f], PlaceOf(byProtocol[f], p)) \ {i}
      BY <1>2, <1>3, <1>4, <1>5, ListHeadAssumption, SeenAfterRemove
    <2>2. QED
      BY <1>2, <1>4, <1>5, <2>1 DEF f, g
  <1>6. CASE f # g
    <2>1. i \notin delivered[r]
      <3>1. \A k \in 1 .. PlaceOf(byProtocol[f], p) : k \in 1 .. Len(byProtocol[f])
        BY <1>2, <1>3, IndexOfElement DEF PlaceOf
      <3>2. QED
        BY <1>2, <1>3, <1>6, <3>1 DEF UpTo, ToSet
    <2>2. QED
      BY <1>2, <1>4, <1>6, <2>1 DEF f, g
  <1>7. QED
    BY <1>5, <1>6

LEMMA WalksRemoveInterface ==
  ASSUME TypeOK, Links, Walks, NEW i \in Prots, RemoveInterface(i)
  PROVE  Walks'
  <1>1. /\ i \in Allocated /\ BackUpPositions(i) /\ Forget(i)
        /\ byProtocol \in [Protocols -> Seq(Prots)]
        /\ byProtocol' = [byProtocol EXCEPT
                            ![prot[i].protocol] = WithoutInterface(@, i)]
    BY DEF RemoveInterface, UnlinkInterface, LastInterface, TypeOK
  <1>2. ASSUME NEW r \in Registered'
        PROVE  LET f == notify'[r].protocol
                   p == notify'[r].position
               IN  /\ p \in ToSet(byProtocol'[f]) \cup {ListHead}
                   /\ delivered'[r] = UpTo(byProtocol'[f], PlaceOf(byProtocol'[f], p))
    <2>1. r \in Registrations /\ notify'[r] # NULL
      BY <1>2 DEF Registered
    <2>2. QED
      BY <1>1, <2>1, WalkWithout
  <1>3. QED
    BY <1>2 DEF Walks, PositionsLive, DeliveredOnce, PositionIndex

LEMMA WalksReplaceInterface ==
  ASSUME TypeOK, Links, Walks, NEW i \in Prots, NEW x \in Interfaces, ReplaceInterface(i, x)
  PROVE  Walks'
  <1> DEFINE g == prot[i].protocol
             t == WithoutInterface(byProtocol[g], i)
  <1>1. /\ i \in Allocated /\ BackUpPositions(i) /\ Forget(i)
        /\ byProtocol \in [Protocols -> Seq(Prots)]
        /\ byProtocol' = [byProtocol EXCEPT ![g] = Append(t, i)]
        /\ g \in Protocols
    BY DEF ReplaceInterface, RelinkInterface, TypeOK, Allocated, ProtocolInterface
  <1>2. /\ byProtocol[g] \in Seq(Prots) /\ IsInjective(byProtocol[g])
        /\ i \in ToSet(byProtocol[g])
    BY <1>1 DEF Links, ListsAgree, TypeOK
  <1>3. t \in Seq(Prots) /\ IsInjective(t) /\ i \notin ToSet(t)
    BY <1>2, WithoutElement
  <1>4. ASSUME NEW r \in Registered'
        PROVE  LET f == notify'[r].protocol
                   p == notify'[r].position
               IN  /\ p \in ToSet(byProtocol'[f]) \cup {ListHead}
                   /\ delivered'[r] = UpTo(byProtocol'[f], PlaceOf(byProtocol'[f], p))
    <2> DEFINE f == notify'[r].protocol
               p == notify'[r].position
    <2>1. r \in Registrations /\ notify'[r] # NULL
      BY <1>4 DEF Registered
    <2>2. /\ f \in Protocols
          /\ f = g => /\ p \in ToSet(t) \cup {ListHead}
                      /\ delivered'[r] = UpTo(t, PlaceOf(t, p))
          /\ f # g => /\ p \in ToSet(byProtocol[f]) \cup {ListHead}
                      /\ delivered'[r] = UpTo(byProtocol[f], PlaceOf(byProtocol[f], p))
      BY <1>1, <2>1, WalkWithout
    <2> HIDE DEF f, p, g, t
    <2>3. CASE f # g
      BY <1>1, <2>2, <2>3 DEF f, p
    <2>4. CASE f = g
      <3>1. byProtocol'[f] = Append(t, i)
        BY <1>1, <2>4
      <3>2. ToSet(Append(t, i)) = ToSet(t) \cup {i}
        BY <1>1, <1>3, AppendElement
      <3>3. UpTo(Append(t, i), PlaceOf(Append(t, i), p)) = UpTo(t, PlaceOf(t, p))
        BY <1>1, <1>3, <2>2, <2>4, SeenAfterAppend
      <3>4. QED
        BY <2>2, <2>4, <3>1, <3>2, <3>3 DEF f, p
    <2>5. QED
      BY <2>3, <2>4
  <1>5. QED
    BY <1>4 DEF Walks, PositionsLive, DeliveredOnce, PositionIndex

(* Handing out the next interface adds it, and nothing else, to what was   *)
(* delivered.                                                              *)
LEMMA WalksDeliverNext ==
  ASSUME TypeOK, Links, Walks, NEW r \in Registrations, DeliverNext(r)
  PROVE  Walks'
  <1> DEFINE f == notify[r].protocol
             s == byProtocol[f]
             k == PlaceOf(s, notify[r].position)
             p == s[k + 1]
  <1>1. /\ r \in Registered /\ notify[r] \in ProtocolNotify /\ f \in Protocols
        /\ s \in Seq(Prots) /\ IsInjective(s)
        /\ notify[r].position \in ToSet(s) \cup {ListHead}
        /\ delivered[r] = UpTo(s, k)
    BY DEF DeliverNext, Registered, TypeOK, Links, ListsAgree, Walks, PositionsLive,
           DeliveredOnce, PositionIndex, ProtocolNotify
  <1>2. /\ k < Len(s)
        /\ notify' = [notify EXCEPT ![r].position = p]
        /\ delivered' = [delivered EXCEPT ![r] = @ \cup {p}]
        /\ byProtocol' = byProtocol
    BY DEF DeliverNext, HasNext, NextInterface, PositionIndex
  <1>3. /\ notify'[r].protocol = f /\ notify'[r].position = p
        /\ delivered'[r] = UpTo(s, k) \cup {p}
        /\ \A q \in Registrations \ {r} : /\ notify'[q] = notify[q]
                                          /\ delivered'[q] = delivered[q]
    BY <1>1, <1>2 DEF TypeOK, ProtocolNotify
  <1> HIDE DEF f, s, k
  <1>4. k \in 0 .. Len(s) /\ Len(s) \in Nat
    BY <1>1, IndexOfElement DEF PlaceOf, k
  <1>5. k + 1 \in 1 .. Len(s) /\ p \in ToSet(s) /\ p \in Prots
    BY <1>1, <1>2, <1>4 DEF ToSet
  <1>6. PlaceOf(s, p) = k + 1
    BY <1>1, <1>5, IndexOfElement, ListHeadAssumption DEF PlaceOf
  <1>7. UpTo(s, k + 1) = UpTo(s, k) \cup {p}
    <2>1. 1 .. k + 1 = (1 .. k) \cup {k + 1}
      BY <1>4
    <2>2. QED
      BY <2>1 DEF UpTo
  <1>8. ASSUME NEW q \in Registered'
        PROVE  /\ notify'[q].position \in
                    ToSet(byProtocol[notify'[q].protocol]) \cup {ListHead}
               /\ delivered'[q] =
                    UpTo(byProtocol[notify'[q].protocol],
                         PlaceOf(byProtocol[notify'[q].protocol], notify'[q].position))
    <2>1. CASE q = r
      BY <2>1, <1>3, <1>5, <1>6, <1>7 DEF s
    <2>2. CASE q # r
      BY <2>2, <1>3, <1>8 DEF Walks, PositionsLive, DeliveredOnce, PositionIndex, Registered
    <2>3. QED
      BY <2>1, <2>2
  <1>9. QED
    BY <1>2, <1>8 DEF Walks, PositionsLive, DeliveredOnce, PositionIndex

LEMMA WalksRegister ==
  ASSUME TypeOK, Walks, NEW g \in Protocols, NEW e \in Events, NEW r \in Registrations,
         RegisterNotify(g, e, r)
  PROVE  Walks'
  <1>1. /\ notify'[r].position = ListHead
        /\ delivered'[r] = {}
        /\ \A q \in Registrations \ {r} : /\ notify'[q] = notify[q]
                                          /\ delivered'[q] = delivered[q]
        /\ byProtocol' = byProtocol
    BY DEF RegisterNotify, TypeOK
  <1>2. UpTo(byProtocol[notify'[r].protocol], 0) = {}
    BY DEF UpTo
  <1>3. QED
    BY <1>1, <1>2 DEF Walks, PositionsLive, DeliveredOnce, PositionIndex, PlaceOf, Registered

LEMMA WalksUnregister ==
  ASSUME TypeOK, Walks, NEW e \in Events, UnregisterNotify(e)
  PROVE  Walks'
  <1>1. \A r \in Registered' : /\ r \in Registered
                               /\ notify'[r] = notify[r]
                               /\ delivered'[r] = delivered[r]
    BY DEF UnregisterNotify, Registered
  <1>2. byProtocol' = byProtocol
    BY DEF UnregisterNotify
  <1>3. QED
    BY <1>1, <1>2 DEF Walks, PositionsLive, DeliveredOnce, PositionIndex, PlaceOf

-----------------------------------------------------------------------------
(* The open lists.                                                         *)

(* Records of one interface live at different addresses.                   *)
DistinctIds == \A i \in Prots : \A o, p \in openList[i] : o.id = p.id => o = p

Opens ==
  /\ \A i \in Prots : IsFiniteSet(openList[i])
  /\ OpenCountsAgree
  /\ DistinctIds

LEMMA OpensAddInterface ==
  ASSUME TypeOK, Opens,
         NEW h \in Handles, NEW g \in Protocols, NEW x \in Interfaces, NEW i \in Prots,
         AddInterface(h, g, x, i)
  PROVE  Opens'
  <1>1. /\ openList' = [openList EXCEPT ![i] = {}]
        /\ openListCount' = [openListCount EXCEPT ![i] = 0]
        /\ \A j \in Prots \ {i} : prot'[j] = prot[j]
    BY DEF AddInterface, LinkInterface, TypeOK
  <1>2. QED
    BY <1>1, FS_EmptySet DEF TypeOK, Opens, OpenCountsAgree, DistinctIds, Allocated

LEMMA OpensRemoveInterface ==
  ASSUME TypeOK, Opens, NEW i \in Prots, RemoveInterface(i)
  PROVE  Opens'
  <1>1. openList[i] = {}
    BY FS_EmptySet DEF RemoveInterface, UnlinkInterface, LastInterface, Opens, OpenCountsAgree
  <1>2. QED
    BY <1>1 DEF RemoveInterface, UnlinkInterface, LastInterface, TypeOK, Opens, OpenCountsAgree, DistinctIds, Allocated

LEMMA OpensReplaceInterface ==
  ASSUME TypeOK, Opens, NEW i \in Prots, NEW x \in Interfaces, ReplaceInterface(i, x)
  PROVE  Opens'
  <1>1. prot[i] \in ProtocolInterface
    BY DEF ReplaceInterface, RelinkInterface, Allocated, TypeOK
  <1>2. /\ prot'[i] \in ProtocolInterface
        /\ \A j \in Prots \ {i} : prot'[j] = prot[j]
    BY <1>1 DEF ReplaceInterface, RelinkInterface, TypeOK, ProtocolInterface
  <1>3. Allocated' = Allocated
    BY <1>1, <1>2, FreeMemoryAssumption DEF Allocated
  <1>4. QED
    BY <1>3 DEF ReplaceInterface, RelinkInterface, Opens, OpenCountsAgree, DistinctIds

LEMMA OpensAddOpen ==
  ASSUME TypeOK, Opens, NEW i \in Prots, NEW a \in Handles, NEW c \in Handles \cup {NULL},
         NEW m \in Attributes, AddOpen(i, a, c, m)
  PROVE  TypeOK' /\ Opens'
  <1> DEFINE n == CHOOSE id \in FreeOpenIds(i) : TRUE
             o == [id |-> n, agent |-> a, controller |-> c, attributes |-> m, count |-> 1]
  <1>1. n \in FreeOpenIds(i)
    BY DEF AddOpen, CreateOpen
  <1>2. /\ o \in OpenProtocolData
        /\ \A p \in openList[i] : p.id # o.id
        /\ o \notin openList[i]
    BY <1>1 DEF FreeOpenIds, OpenProtocolData
  <1>3. /\ IsFiniteSet(openList[i] \cup {o})
        /\ Cardinality(openList[i] \cup {o}) = Cardinality(openList[i]) + 1
    BY <1>2, FS_AddElement DEF Opens
  <1>4. /\ i \in Allocated
        /\ openList' = [openList EXCEPT ![i] = openList[i] \cup {o}]
        /\ openListCount' = [openListCount EXCEPT ![i] = @ + 1]
        /\ UNCHANGED << handles, handleProtocols, entries, byProtocol, prot,
                        notify, delivered >>
    BY DEF AddOpen, CreateOpen, SetOpenList
  <1> HIDE DEF o
  <1>5. TypeOK'
    BY <1>2, <1>4 DEF TypeOK
  <1>6. OpenCountsAgree' /\ \A j \in Prots : IsFiniteSet(openList'[j])
    BY <1>3, <1>4 DEF TypeOK, Opens, OpenCountsAgree, Allocated
  <1>7. DistinctIds'
    BY <1>2, <1>4 DEF TypeOK, Opens, DistinctIds
  <1>8. QED
    BY <1>5, <1>6, <1>7 DEF Opens

LEMMA OpensCountOpen ==
  ASSUME TypeOK, Opens, NEW i \in Prots, NEW o \in openList[i], CountOpen(i, o)
  PROVE  TypeOK' /\ Opens'
  <1> DEFINE p == [o EXCEPT !.count = @ + 1]
             rest == openList[i] \ {o}
  <1>0. o \in OpenProtocolData
    BY DEF TypeOK
  <1>1. p \in OpenProtocolData /\ p.id = o.id
    <2>1. p = [id |-> o.id, agent |-> o.agent, controller |-> o.controller,
               attributes |-> o.attributes, count |-> o.count + 1]
      BY <1>0 DEF OpenProtocolData
    <2>2. QED
      BY <1>0, <2>1 DEF OpenProtocolData
  <1>2. /\ i \in Allocated
        /\ openList' = [openList EXCEPT ![i] = rest \cup {p}]
        /\ UNCHANGED << handles, handleProtocols, entries, byProtocol, prot,
                        openListCount, notify, delivered >>
    BY DEF CountOpen, SetOpenList
  <1> HIDE DEF p
  <1>3. \A q \in rest : q.id # p.id
    BY <1>1 DEF Opens, DistinctIds
  <1> HIDE DEF rest
  <1>4. /\ IsFiniteSet(rest)
        /\ Cardinality(rest) = Cardinality(openList[i]) - 1
        /\ Cardinality(openList[i]) \in Nat
    BY FS_RemoveElement, FS_CardinalityType DEF Opens, rest
  <1>5. /\ IsFiniteSet(rest \cup {p})
        /\ Cardinality(rest \cup {p}) = Cardinality(openList[i])
    <2>1. p \notin rest
      BY <1>3
    <2>2. /\ IsFiniteSet(rest \cup {p})
          /\ Cardinality(rest \cup {p}) = Cardinality(rest) + 1
      BY <1>4, <2>1, FS_AddElement
    <2>3. QED
      BY <1>4, <2>2
  <1>6. TypeOK'
    BY <1>1, <1>2 DEF TypeOK, rest
  <1>7. OpenCountsAgree' /\ \A j \in Prots : IsFiniteSet(openList'[j])
    BY <1>2, <1>5 DEF TypeOK, Opens, OpenCountsAgree, Allocated
  <1>8. DistinctIds'
    BY <1>2, <1>3 DEF TypeOK, Opens, DistinctIds, rest
  <1>9. QED
    BY <1>6, <1>7, <1>8 DEF Opens

LEMMA OpensRemoveOpens ==
  ASSUME TypeOK, Opens, NEW i \in Prots, NEW S \in SUBSET openList[i], RemoveOpens(i, S)
  PROVE  TypeOK' /\ Opens'
  <1>1. /\ i \in Allocated
        /\ openList' = [openList EXCEPT ![i] = openList[i] \ S]
        /\ openListCount' = [openListCount EXCEPT ![i] = @ - Cardinality(S)]
        /\ UNCHANGED << handles, handleProtocols, entries, byProtocol, prot,
                        notify, delivered >>
    BY DEF RemoveOpens, SetOpenList
  <1>2. IsFiniteSet(openList[i]) /\ IsFiniteSet(S)
    BY FS_Subset DEF Opens
  <1>3. /\ IsFiniteSet(openList[i] \ S)
        /\ Cardinality(openList[i] \ S)
             = Cardinality(openList[i]) - Cardinality(openList[i] \cap S)
    BY <1>2, FS_Difference
  <1>4. openList[i] \cap S = S
    OBVIOUS
  <1>5. Cardinality(openList[i] \ S) = openListCount[i] - Cardinality(S)
    BY <1>3, <1>4 DEF Opens, OpenCountsAgree
  <1>6. Cardinality(openList[i] \ S) \in Nat
    BY <1>3, FS_CardinalityType
  <1>7. TypeOK'
    BY <1>1, <1>5, <1>6 DEF TypeOK
  <1>8. OpenCountsAgree' /\ \A j \in Prots : IsFiniteSet(openList'[j])
    BY <1>1, <1>3, <1>5 DEF TypeOK, Opens, OpenCountsAgree, Allocated
  <1>9. DistinctIds'
    BY <1>1 DEF TypeOK, Opens, DistinctIds
  <1>10. QED
    BY <1>7, <1>8, <1>9 DEF Opens

(* What BackUpPositions writes is a position of the same list.             *)
LEMMA BackUpType ==
  ASSUME TypeOK, Links, NEW i \in Allocated, BackUpPositions(i)
  PROVE  notify' \in [Registrations -> ProtocolNotify \cup {NULL}]
  <1> DEFINE g == prot[i].protocol
  <1>1. /\ g \in Protocols
        /\ byProtocol[g] \in Seq(Prots) /\ IsInjective(byProtocol[g])
        /\ i \in ToSet(byProtocol[g])
    BY DEF Allocated, TypeOK, ProtocolInterface, Links, ListsAgree
  <1>2. BackLink(byProtocol[g], i) \in Prots \cup {ListHead}
    <2>1. /\ IndexOf(byProtocol[g], i) \in 1 .. Len(byProtocol[g])
      BY <1>1, IndexOfElement
    <2>2. QED
      BY <1>1, <2>1 DEF BackLink
  <1> HIDE DEF g
  <1>3. ASSUME NEW r \in Registered
        PROVE  [notify[r] EXCEPT !.position = BackLink(byProtocol[g], i)] \in ProtocolNotify
    BY <1>2 DEF Registered, TypeOK, ProtocolNotify
  <1>4. QED
    BY <1>3 DEF BackUpPositions, TypeOK, g

LEMMA NextType ==
  ASSUME TypeOK, Links, Walks, NEW r \in Registered, HasNext(r)
  PROVE  NextInterface(r) \in Prots
  <1> DEFINE s == byProtocol[notify[r].protocol]
             p == notify[r].position
  <1>1. /\ s \in Seq(Prots) /\ IsInjective(s)
        /\ p \in ToSet(s) \cup {ListHead}
    BY DEF Registered, TypeOK, ProtocolNotify, Links, ListsAgree, Walks, PositionsLive
  <1>2. PlaceOf(s, p) < Len(s)
    BY DEF HasNext, PositionIndex
  <1> HIDE DEF s, p
  <1>3. PlaceOf(s, p) \in 0 .. Len(s)
    BY <1>1, IndexOfElement DEF PlaceOf
  <1>4. s[PlaceOf(s, p) + 1] \in Prots
    BY <1>1, <1>2, <1>3
  <1>5. QED
    BY <1>4 DEF NextInterface, PositionIndex, s, p

LEMMA AccessAddOpen ==
  ASSUME TypeOK, DriverAccess, NEW i \in Prots, NEW a, NEW c, NEW m \in Attributes,
         AddOpen(i, a, c, m)
  PROVE  DriverAccess'
  <1> DEFINE n == CHOOSE id \in FreeOpenIds(i) : TRUE
             new == [id |-> n, agent |-> a, controller |-> c, attributes |-> m, count |-> 1]
  <1>1. /\ i \in Allocated
        /\ openList' = [openList EXCEPT ![i] = openList[i] \cup {new}]
        /\ prot' = prot
        /\ new.attributes = m
    BY DEF AddOpen, CreateOpen, SetOpenList
  <1>2. ASSUME NEW p \in openList[i]
        PROVE  /\ m \cap {ByDriver, Exclusive} # {} => ByDriver \notin p.attributes
               /\ m = {ByDriver} => Exclusive \notin p.attributes
    BY <1>2 DEF AddOpen, CreateOpen, AccessGranted, DriverOpens, ExclusiveOpens
  <1>3. ByDriver \in m => m = {ByDriver} \/ m = {ByDriver, Exclusive}
    BY DEF Attributes, ByDriver, Exclusive, ByHandleProtocol, GetProtocol, TestProtocol,
           ByChildController
  <1> HIDE DEF new
  <1>4. ASSUME NEW o \in openList[i] \cup {new}, NEW p \in openList[i] \cup {new},
               o # p, ByDriver \in o.attributes
        PROVE  /\ ByDriver \notin p.attributes
               /\ Exclusive \in p.attributes => Exclusive \in o.attributes
    <2>1. CASE o \in openList[i] /\ p \in openList[i]
      BY <1>1, <1>4, <2>1 DEF DriverAccess
    <2>2. CASE o = new
      BY <1>1, <1>2, <1>3, <1>4, <2>2
    <2>3. CASE p = new
      BY <1>1, <1>2, <1>3, <1>4, <2>3
    <2>4. QED
      BY <2>1, <2>2, <2>3
  <1>5. QED
    BY <1>1, <1>4 DEF TypeOK, DriverAccess, Allocated

LEMMA AccessCountOpen ==
  ASSUME TypeOK, DriverAccess, NEW i \in Prots, NEW o \in openList[i], CountOpen(i, o)
  PROVE  DriverAccess'
  <1> DEFINE p == [o EXCEPT !.count = @ + 1]
  <1>1. o \in OpenProtocolData
    BY DEF TypeOK
  <1>2. p.attributes = o.attributes
    BY <1>1 DEF OpenProtocolData
  <1>3. /\ i \in Allocated
        /\ openList' = [openList EXCEPT ![i] = (openList[i] \ {o}) \cup {p}]
        /\ prot' = prot
    BY DEF CountOpen, SetOpenList
  <1> HIDE DEF p
  <1>4. QED
    BY <1>2, <1>3 DEF TypeOK, DriverAccess, Allocated

-----------------------------------------------------------------------------
(* The inductive invariant.  Type correctness needs Opens: OpenListCount   *)
(* stays a natural number because it counts the records.                   *)
IInv == TypeOK /\ Links /\ Walks /\ Opens /\ DriverAccess

LEMMA InitIInv == DBInit => IInv
  <1> SUFFICES ASSUME DBInit PROVE IInv
    OBVIOUS
  <1>1. TypeOK
    BY DEF DBInit, TypeOK
  <1>2. Allocated = {} /\ Registered = {}
    BY DEF DBInit, Allocated, Registered
  <1>3. Links
    BY <1>2 DEF DBInit, Links, ListsAgree, HandleLifetime, UniqueProtocol, IsInjective, ToSet
  <1>4. Walks
    BY <1>2 DEF Walks, PositionsLive, DeliveredOnce
  <1>5. Opens
    BY FS_EmptySet DEF DBInit, Opens, OpenCountsAgree, DistinctIds
  <1>6. DriverAccess
    BY <1>2 DEF DriverAccess
  <1>7. QED
    BY <1>1, <1>3, <1>4, <1>5, <1>6 DEF IInv

(* Each piece of code that runs with the lock held preserves it.           *)
LEMMA NextIInv == IInv /\ [DBNext]_dbvars => IInv'
  <1> SUFFICES ASSUME IInv, [DBNext]_dbvars PROVE IInv'
    OBVIOUS
  <1> USE OpenModesAssumption
  <1>0. TypeOK /\ Links /\ Walks /\ Opens /\ DriverAccess
    BY DEF IInv
  <1>1. ASSUME NEW g \in Protocols, OnlyCreateEntry(g)
        PROVE  IInv'
    <2>1. TypeOK'
      BY <1>0, <1>1 DEF OnlyCreateEntry, CreateEntry, TypeOK
    <2>2. Links' /\ Walks'
      BY <1>0, <1>1, LinksUnchanged, WalksUnchanged DEF OnlyCreateEntry
    <2>3. Opens' /\ DriverAccess'
      BY <1>0, <1>1 DEF OnlyCreateEntry, Opens, OpenCountsAgree, DistinctIds, Allocated,
                        DriverAccess
    <2>4. QED
      BY <2>1, <2>2, <2>3 DEF IInv
  <1>2. ASSUME NEW h \in Handles, NEW g \in Protocols, NEW x \in Interfaces, NEW i \in Prots,
               AddInterface(h, g, x, i)
        PROVE  IInv'
    <2>1. TypeOK'
      <3>1. byProtocol' \in [Protocols -> Seq(Prots)]
        BY <1>0, <1>2 DEF AddInterface, LinkInterface, TypeOK
      <3>2. QED
        BY <1>0, <1>2, <3>1 DEF AddInterface, LinkInterface, CreateEntry, TypeOK, ProtocolInterface
    <2>2. Links' /\ Walks' /\ Opens'
      BY <1>0, <1>2, LinksAddInterface, WalksAddInterface, OpensAddInterface
    <2>3. DriverAccess'
      BY <1>0, <1>2 DEF AddInterface, LinkInterface, TypeOK, DriverAccess, Allocated
    <2>4. QED
      BY <2>1, <2>2, <2>3 DEF IInv
  <1>3. ASSUME NEW i \in Prots, RemoveInterface(i)
        PROVE  IInv'
    <2>1. TypeOK'
      <3>1. /\ i \in Allocated /\ prot[i].protocol \in Protocols
            /\ byProtocol[prot[i].protocol] \in Seq(Prots)
            /\ IsInjective(byProtocol[prot[i].protocol])
            /\ i \in ToSet(byProtocol[prot[i].protocol])
        BY <1>0, <1>3 DEF RemoveInterface, UnlinkInterface, LastInterface, Allocated, TypeOK, ProtocolInterface, Links, ListsAgree
      <3>2. byProtocol' \in [Protocols -> Seq(Prots)]
        BY <1>0, <1>3, <3>1, WithoutElement DEF RemoveInterface, UnlinkInterface, LastInterface, TypeOK
      <3>3. notify' \in [Registrations -> ProtocolNotify \cup {NULL}]
        BY <1>0, <1>3, <3>1, BackUpType DEF RemoveInterface, UnlinkInterface, LastInterface
      <3>4. QED
        BY <1>0, <1>3, <3>2, <3>3 DEF RemoveInterface, UnlinkInterface, LastInterface, Forget, TypeOK
    <2>2. Links' /\ Walks' /\ Opens'
      BY <1>0, <1>3, LinksRemoveInterface, WalksRemoveInterface, OpensRemoveInterface
    <2>3. DriverAccess'
      BY <1>0, <1>3 DEF RemoveInterface, UnlinkInterface, LastInterface, TypeOK, DriverAccess, Allocated
    <2>4. QED
      BY <2>1, <2>2, <2>3 DEF IInv
  <1>4. ASSUME NEW i \in Prots, NEW x \in Interfaces, ReplaceInterface(i, x)
        PROVE  IInv'
    <2>0. prot[i] \in ProtocolInterface /\ i \in Allocated
      BY <1>0, <1>4 DEF ReplaceInterface, RelinkInterface, Allocated, TypeOK
    <2>1. TypeOK'
      <3>1. /\ prot[i].protocol \in Protocols
            /\ byProtocol[prot[i].protocol] \in Seq(Prots)
            /\ IsInjective(byProtocol[prot[i].protocol])
            /\ i \in ToSet(byProtocol[prot[i].protocol])
        BY <1>0, <2>0 DEF TypeOK, ProtocolInterface, Links, ListsAgree
      <3>2. byProtocol' \in [Protocols -> Seq(Prots)]
        BY <1>0, <1>4, <3>1, WithoutElement DEF ReplaceInterface, RelinkInterface, TypeOK
      <3>3. notify' \in [Registrations -> ProtocolNotify \cup {NULL}]
        BY <1>0, <1>4, <2>0, <3>1, BackUpType DEF ReplaceInterface, RelinkInterface
      <3>4. prot' \in [Prots -> ProtocolInterface \cup {NULL}]
        BY <1>0, <1>4, <2>0 DEF ReplaceInterface, RelinkInterface, TypeOK, ProtocolInterface
      <3>5. QED
        BY <1>0, <1>4, <3>2, <3>3, <3>4 DEF ReplaceInterface, RelinkInterface, Forget, TypeOK
    <2>2. Links' /\ Walks' /\ Opens'
      BY <1>0, <1>4, LinksReplaceInterface, WalksReplaceInterface, OpensReplaceInterface
    <2>3. DriverAccess'
      BY <1>0, <1>4, <2>0 DEF ReplaceInterface, RelinkInterface, TypeOK, DriverAccess, Allocated
    <2>4. QED
      BY <2>1, <2>2, <2>3 DEF IInv
  <1>5. ASSUME NEW i \in Prots, NEW a \in Handles, NEW c \in Handles \cup {NULL},
               NEW m \in OpenModes, AddOpen(i, a, c, m)
        PROVE  IInv'
    <2>1. TypeOK' /\ Opens' /\ DriverAccess'
      BY <1>0, <1>5, OpensAddOpen, AccessAddOpen
    <2>2. Links' /\ Walks'
      BY <1>0, <1>5, LinksUnchanged, WalksUnchanged DEF AddOpen, CreateOpen, SetOpenList
    <2>3. QED
      BY <2>1, <2>2 DEF IInv
  <1>6. ASSUME NEW i \in Prots, NEW o \in openList[i], CountOpen(i, o)
        PROVE  IInv'
    <2>1. TypeOK' /\ Opens' /\ DriverAccess'
      BY <1>0, <1>6, OpensCountOpen, AccessCountOpen
    <2>2. Links' /\ Walks'
      BY <1>0, <1>6, LinksUnchanged, WalksUnchanged DEF CountOpen, SetOpenList
    <2>3. QED
      BY <2>1, <2>2 DEF IInv
  <1>7. ASSUME NEW i \in Prots, NEW S \in SUBSET openList[i], RemoveOpens(i, S)
        PROVE  IInv'
    <2>1. TypeOK' /\ Opens'
      BY <1>0, <1>7, OpensRemoveOpens
    <2>2. Links' /\ Walks'
      BY <1>0, <1>7, LinksUnchanged, WalksUnchanged DEF RemoveOpens, SetOpenList
    <2>3. DriverAccess'
      BY <1>0, <1>7 DEF RemoveOpens, SetOpenList, TypeOK, DriverAccess, Allocated
    <2>4. QED
      BY <2>1, <2>2, <2>3 DEF IInv
  <1>8. ASSUME NEW g \in Protocols, NEW e \in Events, NEW r \in Registrations,
               RegisterNotify(g, e, r)
        PROVE  IInv'
    <2>1. TypeOK'
      BY <1>0, <1>8 DEF RegisterNotify, CreateEntry, TypeOK, ProtocolNotify
    <2>2. Links' /\ Walks'
      BY <1>0, <1>8, LinksUnchanged, WalksRegister DEF RegisterNotify
    <2>3. Opens' /\ DriverAccess'
      BY <1>0, <1>8 DEF RegisterNotify, Opens, OpenCountsAgree, DistinctIds, Allocated,
                        DriverAccess
    <2>4. QED
      BY <2>1, <2>2, <2>3 DEF IInv
  <1>9. ASSUME NEW e \in Events, UnregisterNotify(e)
        PROVE  IInv'
    <2>1. TypeOK'
      BY <1>0, <1>9 DEF UnregisterNotify, TypeOK
    <2>2. Links' /\ Walks'
      BY <1>0, <1>9, LinksUnchanged, WalksUnregister DEF UnregisterNotify
    <2>3. Opens' /\ DriverAccess'
      BY <1>0, <1>9 DEF UnregisterNotify, Opens, OpenCountsAgree, DistinctIds, Allocated,
                        DriverAccess
    <2>4. QED
      BY <2>1, <2>2, <2>3 DEF IInv
  <1>10. ASSUME NEW r \in Registrations, DeliverNext(r)
         PROVE  IInv'
    <2>1. TypeOK'
      <3>1. NextInterface(r) \in Prots
        BY <1>0, <1>10, NextType DEF DeliverNext
      <3>2. notify[r] \in ProtocolNotify
        BY <1>0, <1>10 DEF DeliverNext, Registered, TypeOK
      <3>3. [notify[r] EXCEPT !.position = NextInterface(r)] \in ProtocolNotify
        BY <3>1, <3>2 DEF ProtocolNotify
      <3>4. QED
        BY <1>0, <1>10, <3>1, <3>3 DEF DeliverNext, TypeOK
    <2>2. Links' /\ Walks'
      BY <1>0, <1>10, LinksUnchanged, WalksDeliverNext DEF DeliverNext
    <2>3. Opens' /\ DriverAccess'
      BY <1>0, <1>10 DEF DeliverNext, Opens, OpenCountsAgree, DistinctIds, Allocated,
                         DriverAccess
    <2>4. QED
      BY <2>1, <2>2, <2>3 DEF IInv
  <1>11. CASE UNCHANGED dbvars
    BY <1>0, <1>11 DEF dbvars, IInv, TypeOK, Links, ListsAgree, HandleLifetime,
       UniqueProtocol, Walks, PositionsLive, DeliveredOnce, PositionIndex, Opens,
       OpenCountsAgree, DistinctIds, DriverAccess, Allocated, Registered
  <1>12. QED
    BY <1>1, <1>2, <1>3, <1>4, <1>5, <1>6, <1>7, <1>8, <1>9, <1>10, <1>11 DEF DBNext

LEMMA SpecIInv == DBSpec => []IInv
  BY InitIInv, NextIInv, PTL DEF DBSpec

(* Every list, record and position holds values of its type.               *)
THEOREM TypeCorrect == DBSpec => []TypeOK
  BY SpecIInv, PTL DEF IInv

(* The handle's list and the protocol entry's list of interfaces always    *)
(* agree, a handle lives exactly as long as it has an interface, and has   *)
(* at most one per GUID.                                                   *)
THEOREM LinksCorrect == DBSpec => []LinksConsistent
  <1>1. IInv => LinksConsistent
    BY DEF IInv, Links, LinksConsistent
  <1>2. QED
    BY <1>1, SpecIInv, PTL

(* A registration is never left pointing at a structure that is gone, and  *)
(* has been given every interface up to its position, each exactly once.   *)
THEOREM WalksCorrect == DBSpec => []WalksConsistent
  <1>1. IInv => WalksConsistent
    BY DEF IInv, Walks, WalksConsistent
  <1>2. QED
    BY <1>1, SpecIInv, PTL

(* OpenListCount is the number of records, and at most one driver manages  *)
(* an interface.                                                           *)
THEOREM OpensCorrect == DBSpec => []OpensConsistent
  <1>1. IInv => OpensConsistent
    BY DEF IInv, Opens, OpensConsistent
  <1>2. QED
    BY <1>1, SpecIInv, PTL
===============================================================================
