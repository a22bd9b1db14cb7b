----------------------------- MODULE LookupProofs -----------------------------
(* Proofs about the services that look things up, and about the SMM database.*)
(* What lookups change of the database is what the database allows, and what *)
(* they return is exact.  The SMM database is consistent whatever its        *)
(* notification functions do in the middle of an installation, for any depth *)
(* of calls.                                                                 *)
(*                                                                           *)
(* The database of both is the one HandleDatabase describes, but for the     *)
(* registrations of SMM, which begin behind everything installed so far.     *)
(* What is new there are the calls that nest: each frame stands somewhere on *)
(* the list of functions of its GUID, and nobody further down that list has  *)
(* been told of its interface, unless the functions freed one of the two;    *)
(* as long as no call has read what was freed, everybody is told.            *)
EXTENDS MCHandleDatabase, HandleDatabaseProofs

-----------------------------------------------------------------------------
(* The search by protocol.                                                 *)

SearchStates == [list : Seq(Handles), marks : [Handles -> Nat]]

(* What has been returned is what carries the number of the search.        *)
Marked(number, search, S) ==
  /\ search \in SearchStates
  /\ IsInjective(search.list)
  /\ ToSet(search.list) = S
  /\ \A h \in Handles : /\ search.marks[h] <= number
                        /\ search.marks[h] = number <=> h \in S

LEMMA VisitType ==
  ASSUME NEW number \in Nat, NEW search \in SearchStates, NEW h \in Handles
  PROVE  Visit(number, search, h) \in SearchStates
  BY DEF Visit, SearchStates

(* A handle is returned when it is met first, and not again.               *)
LEMMA VisitMarks ==
  ASSUME NEW number \in Nat, NEW search, NEW S \in SUBSET Handles,
         Marked(number, search, S), NEW h \in Handles
  PROVE  Marked(number, Visit(number, search, h), S \cup {h})
  <1>1. CASE h \in S
    <2>1. Visit(number, search, h) = search /\ S \cup {h} = S
      BY <1>1 DEF Visit, Marked
    <2>2. QED
      BY <2>1
  <1>2. CASE h \notin S
    <2> DEFINE list == Append(search.list, h)
               marks == [search.marks EXCEPT ![h] = number]
    <2>1. /\ search.list \in Seq(Handles) /\ search.marks \in [Handles -> Nat]
          /\ IsInjective(search.list) /\ h \notin ToSet(search.list)
      BY <1>2 DEF Marked, SearchStates
    <2>2. Visit(number, search, h) = [list |-> list, marks |-> marks]
      BY <1>2 DEF Visit, Marked
    <2>3. /\ list \in Seq(Handles) /\ IsInjective(list)
          /\ ToSet(list) = ToSet(search.list) \cup {h}
      BY <2>1, AppendElement
    <2>4. /\ marks \in [Handles -> Nat]
          /\ \A k \in Handles : marks[k] = IF k = h THEN number ELSE search.marks[k]
      BY <2>1
    <2> HIDE DEF list, marks
    <2>5. [list |-> list, marks |-> marks] \in SearchStates
      BY <2>3, <2>4 DEF SearchStates
    <2>6. QED
      BY <2>2, <2>3, <2>4, <2>5 DEF Marked
  <1>3. QED
    BY <1>1, <1>2

(* The whole list: the handles on it, each once.                           *)
LEMMA VisitsMark ==
  ASSUME NEW number \in Nat, NEW n \in Nat, NEW t \in [1 .. n -> Handles],
         NEW p, Marked(number, p[0], {}),
         \A k \in 1 .. n : p[k] = Visit(number, p[k - 1], t[k])
  PROVE  Marked(number, p[n], { t[k] : k \in 1 .. n })
  <1> DEFINE Met(m) == { t[k] : k \in 1 .. m }
             F == { m \in Nat : m <= n => Marked(number, p[m], Met(m)) }
  <1>1. 0 \in F
    <2>1. Met(0) = {}
      OBVIOUS
    <2> HIDE DEF Met
    <2>2. QED
      BY <2>1
  <1>2. ASSUME NEW m \in F PROVE m + 1 \in F
    <2>1. SUFFICES ASSUME m + 1 <= n PROVE Marked(number, p[m + 1], Met(m + 1))
      <3>1. m \in Nat
        OBVIOUS
      <3> HIDE DEF Met
      <3>2. QED
        BY <3>1
    <2>2. m \in Nat /\ m + 1 \in 1 .. n /\ m + 1 - 1 = m /\ t[m + 1] \in Handles
      BY <2>1
    <2>3. Met(m + 1) = Met(m) \cup {t[m + 1]} /\ Met(m) \in SUBSET Handles
      <3>1. 1 .. m + 1 = (1 .. m) \cup {m + 1}
        BY <2>2
      <3>2. \A k \in 1 .. m : t[k] \in Handles
        BY <2>2
      <3>3. QED
        BY <3>1, <3>2
    <2> HIDE DEF Met
    <2>4. Marked(number, p[m], Met(m))
      BY <2>1, <2>2
    <2>5. p[m + 1] = Visit(number, p[m], t[m + 1])
      BY <2>2
    <2>6. QED
      BY <2>2, <2>3, <2>4, <2>5, VisitMarks
  <1>3. F \subseteq Nat
    OBVIOUS
  <1> HIDE DEF F, Met
  <1>4. F = Nat
    BY <1>1, <1>2, <1>3, SetInduction
  <1>5. n <= n
    OBVIOUS
  <1>6. QED
    BY <1>4, <1>5 DEF F, Met

(* No handle carries a number that is still to be given.                   *)
MarksOld ==
  /\ mEfiLocateHandleRequest \in Nat
  /\ locateRequest \in [Handles -> Nat]
  /\ \A h \in Handles : locateRequest[h] <= mEfiLocateHandleRequest

LEMMA SearchByProtocol ==
  ASSUME TypeOK, Links, MarksOld, NEW g \in Protocols
  PROVE  Marked(mEfiLocateHandleRequest + 1, CoreGetNextLocateByProtocol(g), HandlesWith(g))
  <1> DEFINE Met(s, i) == Visit(mEfiLocateHandleRequest + 1, s, prot[byProtocol[g][i]].handle)
             Start == [list |-> << >>, marks |-> locateRequest]
             Folds(it) ==
               it = [ s \in SUBSET (DOMAIN byProtocol[g]) |->
                        IF s = {} THEN Start ELSE Met(it[s \ {Max(s)}], Max(s)) ]
  <1>1. PICK number, n, t, start :
          /\ number = mEfiLocateHandleRequest + 1
          /\ n = Len(byProtocol[g])
          /\ t = [k \in 1 .. n |-> prot[byProtocol[g][k]].handle]
          /\ start = Start
    OBVIOUS
  <1>2. /\ number \in Nat /\ n \in Nat /\ DOMAIN byProtocol[g] = 1 .. n
        /\ start \in SearchStates
    BY <1>1 DEF MarksOld, TypeOK, SearchStates
  <1>3. t \in [1 .. n -> Handles]
    <2>1. \A k \in 1 .. n : byProtocol[g][k] \in ToSet(byProtocol[g])
      BY <1>2 DEF ToSet
    <2>2. \A i \in ToSet(byProtocol[g]) : prot[i].handle \in Handles
      BY DEF Links, ListsAgree, Allocated, TypeOK, ProtocolInterface
    <2>3. QED
      BY <1>1, <2>1, <2>2
  <1>4. CoreGetNextLocateByProtocol(g) = (CHOOSE it : Folds(it))[DOMAIN byProtocol[g]]
    BY DEF CoreGetNextLocateByProtocol, FoldLeft, MapThenFoldSet
  <1>5. \A s : \A i \in 1 .. n : Met(s, i) = Visit(number, s, t[i])
    BY <1>1
  <1> HIDE DEF Met, Start
  <1>6. \E it : Folds(it)
    <2>1. PICK step : step = [v \in SearchStates \X (1 .. n) |-> Visit(number, v[1], t[v[2]])]
      OBVIOUS
    <2>2. \A s \in SearchStates : \A i \in 1 .. n : Visit(number, s, t[i]) \in SearchStates
      BY <1>2, <1>3, VisitType
    <2>3. step \in [SearchStates \X (1 .. n) -> SearchStates]
      BY <2>1, <2>2
    <2>4. \A s \in SearchStates : \A i \in 1 .. n : step[<< s, i >>] = Visit(number, s, t[i])
      BY <2>1
    <2>5. PICK it \in [SUBSET (1 .. n) -> SearchStates] : IsFold(it, start, n, step)
      BY <1>2, <2>3, FoldExists
    <2>6. ASSUME NEW s \in SUBSET (1 .. n), s # {}
          PROVE  step[<< it[s \ {Max(s)}], Max(s) >>] = Met(it[s \ {Max(s)}], Max(s))
      <3>1. Max(s) \in s
        BY <1>2, <2>6, GreatestIndex
      <3>2. it[s \ {Max(s)}] \in SearchStates
        BY <2>5
      <3>3. QED
        BY <1>5, <2>4, <2>6, <3>1, <3>2
    <2>7. it = [ s \in SUBSET (1 .. n) |->
                   IF s = {} THEN start ELSE Met(it[s \ {Max(s)}], Max(s)) ]
      BY <2>5, <2>6, Zenon DEF IsFold
    <2>8. Folds(it)
      BY <1>1, <1>2, <2>7
    <2>9. QED
      BY <2>8
  <1>7. PICK it : it = CHOOSE x : Folds(x)
    OBVIOUS
  <1>8. Folds(it)
    BY <1>6, <1>7
  <1>9. it = [ s \in SUBSET (1 .. n) |->
                 IF s = {} THEN start ELSE Met(it[s \ {Max(s)}], Max(s)) ]
    BY <1>1, <1>2, <1>8
  <1>10. PICK p : p = [k \in 0 .. n |-> it[1 .. k]]
    OBVIOUS
  <1> HIDE DEF Folds
  <1>11. p[0] = start
    <2>1. 1 .. 0 = {} /\ 0 \in 0 .. n
      BY <1>2
    <2>2. it[{}] = start
      BY <1>9
    <2>3. QED
      BY <1>10, <2>1, <2>2
  <1>12. ASSUME NEW k \in 1 .. n PROVE p[k] = Visit(number, p[k - 1], t[k])
    <2>1. /\ 1 .. k \in SUBSET (1 .. n) /\ 1 .. k # {} /\ Max(1 .. k) = k
          /\ (1 .. k) \ {k} = 1 .. k - 1
      BY <1>2, PrefixIndices
    <2>2. k \in 0 .. n /\ k - 1 \in 0 .. n
      BY <1>2
    <2>3. it[1 .. k] = Met(it[1 .. k - 1], k)
      BY <1>9, <2>1
    <2>4. QED
      BY <1>5, <1>10, <2>2, <2>3
  <1>13. Marked(number, start, {})
    <2>1. start.list = << >> /\ start.marks = locateRequest
      BY <1>1 DEF Start
    <2>2. IsInjective(<< >>) /\ ToSet(<< >>) = {}
      BY DEF IsInjective, ToSet
    <2>3. QED
      BY <1>1, <1>2, <2>1, <2>2 DEF Marked, MarksOld
  <1>14. Marked(number, p[n], { t[k] : k \in 1 .. n })
    BY <1>2, <1>3, <1>11, <1>12, <1>13, VisitsMark
  <1>15. { t[k] : k \in 1 .. n } = HandlesWith(g)
    <2>1. \A k \in 1 .. n : t[k] = prot[byProtocol[g][k]].handle
      BY <1>1
    <2>2. ToSet(byProtocol[g]) = { byProtocol[g][k] : k \in 1 .. n }
      BY <1>2 DEF ToSet
    <2>3. { t[k] : k \in 1 .. n } = { prot[i].handle : i \in ToSet(byProtocol[g]) }
      BY <2>1, <2>2
    <2>4. ASSUME NEW i \in ToSet(byProtocol[g]) PROVE prot[i].handle \in HandlesWith(g)
      <3>1. i \in Allocated /\ prot[i].protocol = g /\ prot[i].handle \in handles
            /\ prot[i].handle \in Handles
        BY <2>4 DEF Links, ListsAgree, HandleLifetime, TypeOK
      <3>2. i \in handleProtocols[prot[i].handle]
        BY <3>1 DEF Links, ListsAgree
      <3>3. QED
        BY <3>1, <3>2 DEF HandlesWith, Lookup
    <2>5. ASSUME NEW h \in HandlesWith(g)
          PROVE  \E i \in ToSet(byProtocol[g]) : prot[i].handle = h
      <3>1. PICK i \in handleProtocols[h] : h \in handles /\ prot[i].protocol = g
        BY <2>5 DEF HandlesWith, Lookup
      <3>2. h \in Handles
        BY <3>1 DEF TypeOK
      <3>3. i \in Allocated /\ prot[i].handle = h
        BY <3>1, <3>2 DEF Links, ListsAgree
      <3>4. QED
        BY <3>1, <3>3 DEF Links, ListsAgree
    <2>6. QED
      BY <2>3, <2>4, <2>5
  <1>16. CoreGetNextLocateByProtocol(g) = p[n]
    BY <1>2, <1>4, <1>7, <1>10
  <1>17. QED
    BY <1>1, <1>14, <1>15, <1>16

-----------------------------------------------------------------------------
(* What each search returns.                                               *)

Finite ==
  /\ IsFiniteSet(handles)
  /\ \A h \in Handles : IsFiniteSet(handleProtocols[h])

(* Only a GUID with an entry has interfaces.                               *)
Entered == \A i \in Allocated : prot[i].protocol \in entries

LEMMA SearchExact ==
  ASSUME IInv, MarksOld, Finite, Entered, NEW type \in {AllHandles, ByProtocol}, NEW key,
         type = ByProtocol => key \in Protocols
  PROVE  /\ Searching(type, key).list \in Seq(Handles)
         /\ IsInjective(Searching(type, key).list)
         /\ ToSet(Searching(type, key).list) = Holders(type, key)
         /\ Len(Searching(type, key).list) = Cardinality(Holders(type, key))
         /\ Searching(type, key).marks \in [Handles -> Nat]
         /\ \A h \in Handles :
              Searching(type, key).marks[h] <=
                mEfiLocateHandleRequest + (IF type = ByProtocol /\ key \notin entries THEN 0 ELSE 1)
  <1>1. TypeOK /\ Links
    BY DEF IInv
  <1>2. CASE type = AllHandles
    <2>1. Searching(type, key) = [list |-> SetToSeq(handles), marks |-> locateRequest]
      BY <1>2 DEF Searching, CoreGetNextLocateAllHandles, AllHandles, ByProtocol,
                  ByRegisterNotify
    <2>2. /\ SetToSeq(handles) \in Seq(handles) /\ Len(SetToSeq(handles)) = Cardinality(handles)
          /\ IsInjective(SetToSeq(handles)) /\ ToSet(SetToSeq(handles)) = handles
      BY SetListed DEF Finite
    <2>3. SetToSeq(handles) \in Seq(Handles)
      BY <1>1, <2>2 DEF TypeOK
    <2>4. Holders(type, key) = handles
      BY <1>2 DEF Holders
    <2>5. \A h \in Handles : locateRequest[h] <= mEfiLocateHandleRequest + 1
      BY DEF MarksOld
    <2>6. QED
      BY <1>2, <2>1, <2>2, <2>3, <2>4, <2>5 DEF MarksOld, AllHandles, ByProtocol
  <1>3. CASE type = ByProtocol /\ key \in entries
    <2>1. Searching(type, key) = CoreGetNextLocateByProtocol(key)
      BY <1>3 DEF Searching, AllHandles, ByProtocol, ByRegisterNotify
    <2>2. Marked(mEfiLocateHandleRequest + 1, Searching(type, key), HandlesWith(key))
      BY <1>1, <1>3, <2>1, SearchByProtocol
    <2>3. Holders(type, key) = HandlesWith(key)
      BY <1>3 DEF Holders, AllHandles, ByProtocol
    <2>4. PICK found1 : found1 = Searching(type, key)
      OBVIOUS
    <2>5. Len(found1.list) = Cardinality(ToSet(found1.list))
      BY <2>2, <2>4, InjectiveLength DEF Marked, SearchStates
    <2>6. QED
      BY <1>3, <2>2, <2>3, <2>4, <2>5 DEF Marked, SearchStates
  <1>4. CASE type = ByProtocol /\ key \notin entries
    <2>1. Searching(type, key) = [list |-> << >>, marks |-> locateRequest]
      BY <1>4 DEF Searching, AllHandles, ByProtocol, ByRegisterNotify
    <2>2. HandlesWith(key) = {}
      <3>1. SUFFICES ASSUME NEW h \in handles, NEW i \in handleProtocols[h],
                            prot[i].protocol = key
                     PROVE  FALSE
        BY DEF HandlesWith, Lookup
      <3>2. i \in Allocated
        BY <1>1, <3>1 DEF TypeOK, Links, ListsAgree
      <3>3. QED
        BY <1>4, <3>1, <3>2 DEF Entered
    <2>3. Holders(type, key) = {}
      BY <1>4, <2>2 DEF Holders, AllHandles, ByProtocol
    <2>4. IsInjective(<< >>) /\ ToSet(<< >>) = {} /\ << >> \in Seq(Handles) /\ Len(<< >>) = 0
      BY DEF IsInjective, ToSet
    <2>5. Cardinality({}) = 0
      BY FS_EmptySet
    <2>6. \A h \in Handles : locateRequest[h] <= mEfiLocateHandleRequest + 0
      BY DEF MarksOld
    <2>7. QED
      BY <1>4, <2>1, <2>3, <2>4, <2>5, <2>6 DEF MarksOld
  <1>5. QED
    BY <1>2, <1>3, <1>4

(* The buffer gets the whole list when there is room for it.               *)
LEMMA WholeList ==
  ASSUME NEW S, NEW list \in Seq(S), NEW n \in Nat, Len(list) <= n
  PROVE  FirstOf(list, n) = list
  <1>1. FirstOf(list, n) = SubSeq(list, 1, Len(list))
    BY DEF FirstOf
  <1>2. QED
    BY <1>1

(* Something is handed out when there is something, and room for it.       *)
LEMMA SomeFirst ==
  ASSUME NEW S, NEW list \in Seq(S), NEW n \in Nat
  PROVE  FirstOf(list, n) = << >> <=> list = << >> \/ n = 0
  <1> DEFINE m == IF Len(list) < n THEN Len(list) ELSE n
  <1>1. m \in Nat /\ m <= Len(list) /\ FirstOf(list, n) = SubSeq(list, 1, m)
    BY DEF FirstOf
  <1>2. m = 0 <=> Len(list) = 0 \/ n = 0
    OBVIOUS
  <1> HIDE DEF m
  <1>3. SubSeq(list, 1, m) \in Seq(S) /\ Len(SubSeq(list, 1, m)) = m
    BY <1>1
  <1>4. \A l \in Seq(S) : l = << >> <=> Len(l) = 0
    OBVIOUS
  <1>5. QED
    BY <1>1, <1>2, <1>3, <1>4

(* What a lookup answers is right in the state it leaves, when that is the *)
(* state it has searched.                                                  *)
LEMMA AnswerExact ==
  ASSUME IInv, MarksOld, Finite, Entered, NEW type \in {AllHandles, ByProtocol}, NEW key,
         type = ByProtocol => key \in Protocols, NEW room \in Nat,
         UNCHANGED << handles, handleProtocols, prot >>,
         found' = Answer(type, key, Status(Searching(type, key).list, room),
                         FirstOf(Searching(type, key).list, room),
                         Len(Searching(type, key).list))
  PROVE  SearchesComplete'
  <1> DEFINE list == Searching(type, key).list
             holders == Holders(type, key)
  <1>1. /\ list \in Seq(Handles) /\ IsInjective(list) /\ ToSet(list) = holders
        /\ Len(list) = Cardinality(holders)
    BY SearchExact
  <1>2. Holders(type, key)' = holders
    BY DEF Holders, HandlesWith, Lookup
  <1> HIDE DEF list, holders
  <1>3. /\ found'.service = type /\ found'.key = key /\ found'.status = Status(list, room)
        /\ found'.list = FirstOf(list, room) /\ found'.size = Len(list)
    BY DEF Answer, list
  <1>4. Status(list, room) = "SUCCESS" => FirstOf(list, room) = list
    <2>1. Status(list, room) = "SUCCESS" => Len(list) <= room
      BY <1>1 DEF Status
    <2>2. Len(list) <= room => FirstOf(list, room) = list
      <3>1. PICK l : l = list
        OBVIOUS
      <3>2. QED
        BY <1>1, <3>1, WholeList
    <2>3. QED
      BY <2>1, <2>2
  <1>5. Status(list, room) = "NOT_FOUND" => holders = {}
    <2>1. Status(list, room) = "NOT_FOUND" => list = << >>
      BY DEF Status
    <2>2. ToSet(<< >>) = {}
      BY DEF ToSet
    <2>3. QED
      BY <1>1, <2>1, <2>2
  <1>6. QED
    BY <1>1, <1>2, <1>3, <1>4, <1>5 DEF SearchesComplete, Holders

-----------------------------------------------------------------------------
(* What the lookups do to the database.                                    *)

(* CoreLocateHandle and CoreLocateProtocol take a registration one step    *)
(* on, exactly when they hand out its next interface.                      *)
LEMMA DeliverSteps ==
  ASSUME NEW s \in Searches, NEW room \in Nat, NEW steps, NEW list,
         list = Searching(s[1], s[2]).list,
         steps = (s[1] = ByRegisterNotify /\ list # << >> /\ room > 0),
         found'.list = FirstOf(list, room),
         Deliver(s[1], s[2], steps)
  PROVE  [DBNext]_dbvars
  <1>1. CASE s[1] # ByRegisterNotify
    <2>1. UNCHANGED << notify, delivered >>
      BY <1>1 DEF Deliver
    <2>2. QED
      BY <2>1 DEF Deliver, dbvars
  <1>2. CASE s[1] = ByRegisterNotify
    <2>1. s[2] \in Registered /\ s[2] \in Registrations
      BY <1>2 DEF Searches, AllHandles, ByProtocol, ByRegisterNotify, Registered
    <2>2. list = IF HasNext(s[2]) THEN << prot[NextInterface(s[2])].handle >> ELSE << >>
      BY <1>2 DEF Searching, CoreGetNextLocateByRegisterNotify, AllHandles, ByProtocol,
                  ByRegisterNotify
    <2>3. FirstOf(list, room) = << >> <=> ~(HasNext(s[2]) /\ room > 0)
      <3>1. PICK l, x : l = list /\ x = prot[NextInterface(s[2])].handle
        OBVIOUS
      <3>2. << x >> \in Seq({x}) /\ << >> \in Seq({x}) /\ << x >> # << >>
        OBVIOUS
      <3>3. l \in Seq({x})
        BY <2>2, <3>1, <3>2
      <3>4. FirstOf(l, room) = << >> <=> l = << >> \/ room = 0
        BY <3>3, SomeFirst
      <3>5. l = << >> <=> ~HasNext(s[2])
        BY <2>2, <3>1, <3>2
      <3>6. QED
        BY <3>1, <3>4, <3>5
    <2>4. steps = (HasNext(s[2]) /\ room > 0)
      <3>1. list # << >> <=> HasNext(s[2])
        BY <2>2
      <3>2. QED
        BY <1>2, <3>1
    <2>5. CASE HasNext(s[2]) /\ room > 0
      <3>1. FirstOf(list, room) # << >> /\ steps
        BY <2>3, <2>4, <2>5
      <3>2. DeliverNext(s[2])
        BY <1>2, <2>1, <2>5, <3>1 DEF Deliver, DeliverNext
      <3>3. QED
        BY <2>1, <3>2 DEF DBNext
    <2>6. CASE ~(HasNext(s[2]) /\ room > 0)
      <3>1. FirstOf(list, room) = << >> /\ ~steps
        BY <2>3, <2>4, <2>6
      <3>2. UNCHANGED << notify, delivered >>
        BY <3>1 DEF Deliver
      <3>3. QED
        BY <3>2 DEF Deliver, dbvars
    <2>7. QED
      BY <2>5, <2>6
  <1>3. QED
    BY <1>1, <1>2

(* What every search finds in the state it starts from.                    *)
Before == IInv /\ MarksOld /\ Finite /\ Entered

SearchKey(s) ==
  \/ s[1] = AllHandles
  \/ s[1] = ByProtocol /\ s[2] \in Protocols
  \/ s[1] = ByRegisterNotify /\ s[2] \in Registered

LEMMA SearchKeys ==
  ASSUME NEW s \in Searches
  PROVE  SearchKey(s)
  BY DEF Searches, SearchKey

(* The number of a search is new, and the marks it leaves are not newer.   *)
LEMMA SearchMarks ==
  ASSUME Before, NEW s \in Searches, Searched(s[1], s[2]),
         locateRequest' = Searching(s[1], s[2]).marks
  PROVE  MarksOld'
  <1>1. MarksOld
    BY DEF Before
  <1>2. CASE s[1] \in {AllHandles, ByProtocol}
    <2>1. s[1] = ByProtocol => s[2] \in Protocols
      BY SearchKeys DEF SearchKey, AllHandles, ByProtocol, ByRegisterNotify
    <2>2. /\ Searching(s[1], s[2]).marks \in [Handles -> Nat]
          /\ \A h \in Handles :
               Searching(s[1], s[2]).marks[h] <=
                 mEfiLocateHandleRequest
                   + (IF s[1] = ByProtocol /\ s[2] \notin entries THEN 0 ELSE 1)
      BY <1>2, <2>1, SearchExact DEF Before
    <2>3. QED
      BY <1>1, <2>2 DEF MarksOld, Searched
  <1>3. CASE s[1] = ByRegisterNotify
    <2>1. Searching(s[1], s[2]).marks = locateRequest
      BY <1>3 DEF Searching, CoreGetNextLocateByRegisterNotify, AllHandles, ByProtocol,
                  ByRegisterNotify
    <2>2. mEfiLocateHandleRequest' = mEfiLocateHandleRequest + 1
      BY <1>3 DEF Searched, ByProtocol, ByRegisterNotify
    <2>3. QED
      BY <1>1, <2>1, <2>2 DEF MarksOld
  <1>4. QED
    BY <1>2, <1>3, SearchKeys DEF SearchKey

Exact == SearchesComplete /\ ArraysFit

LEMMA LocateHandleStep ==
  ASSUME Before, NEW s \in Searches, NEW room \in Nat, CoreLocateHandle(s[1], s[2], room)
  PROVE  [DBNext]_dbvars /\ MarksOld' /\ Exact'
  <1> DEFINE found1 == Searching(s[1], s[2]).list
             status == Status(found1, room)
  <1>1. /\ Searched(s[1], s[2])
        /\ locateRequest' = Searching(s[1], s[2]).marks
        /\ found' = Answer(s[1], s[2], status, FirstOf(found1, room), Len(found1))
        /\ Deliver(s[1], s[2], StepsOn(s[1], status))
    BY DEF CoreLocateHandle
  <1>2. MarksOld'
    BY <1>1, SearchMarks
  <1>3. /\ found'.service = s[1] /\ found'.list = FirstOf(found1, room)
        /\ UNCHANGED << handles, handleProtocols, prot >>
    BY <1>1 DEF Answer, Deliver
  <1>4. [DBNext]_dbvars
    <2>1. PICK steps, list : steps = StepsOn(s[1], status) /\ list = found1
      OBVIOUS
    <2>2. steps = (s[1] = ByRegisterNotify /\ list # << >> /\ room > 0)
      <3>1. CASE s[1] = ByRegisterNotify
        <4>1. found1 = IF HasNext(s[2]) THEN << prot[NextInterface(s[2])].handle >> ELSE << >>
          BY <3>1 DEF Searching, CoreGetNextLocateByRegisterNotify, AllHandles, ByProtocol,
                      ByRegisterNotify
        <4>2. list # << >> => Len(list) = 1
          BY <2>1, <4>1
        <4> HIDE DEF found1
        <4>3. status = "SUCCESS" <=> list # << >> /\ ~(Len(list) > room)
          BY <2>1 DEF Status
        <4> HIDE DEF status
        <4>4. CASE list # << >>
          <5>1. Len(list) = 1 /\ (status = "SUCCESS" <=> ~(Len(list) > room))
            BY <4>2, <4>3, <4>4
          <5>2. (status = "SUCCESS") <=> ~(1 > room)
            BY <5>1
          <5>3. ~(1 > room) <=> room > 0
            OBVIOUS
          <5>4. QED
            BY <2>1, <3>1, <4>4, <5>2, <5>3 DEF StepsOn
        <4>5. CASE list = << >>
          BY <2>1, <3>1, <4>3, <4>5 DEF StepsOn
        <4>6. QED
          BY <4>4, <4>5
      <3>2. CASE s[1] # ByRegisterNotify
        BY <2>1, <3>2 DEF StepsOn
      <3>3. QED
        BY <3>1, <3>2
    <2>3. Deliver(s[1], s[2], steps)
      BY <1>1, <2>1
    <2>4. QED
      BY <1>3, <2>1, <2>2, <2>3, DeliverSteps
  <1>5. SearchesComplete'
    <2>1. CASE s[1] \in {AllHandles, ByProtocol}
      <3>1. s[1] = ByProtocol => s[2] \in Protocols
        BY SearchKeys DEF SearchKey, AllHandles, ByProtocol, ByRegisterNotify
      <3>2. QED
        BY <1>1, <1>3, <2>1, <3>1, AnswerExact DEF Before
    <2>2. CASE s[1] = ByRegisterNotify
      BY <1>3, <2>2 DEF SearchesComplete, AllHandles, ByProtocol, ByRegisterNotify
    <2>3. QED
      BY <2>1, <2>2, SearchKeys DEF SearchKey
  <1>6. ArraysFit'
    <2>1. s[1] \notin {"OpenInformation", "Protocols"}
      BY SearchKeys DEF SearchKey, AllHandles, ByProtocol, ByRegisterNotify
    <2>2. QED
      BY <1>3, <2>1 DEF ArraysFit
  <1>7. QED
    BY <1>2, <1>4, <1>5, <1>6 DEF Exact

LEMMA LocateHandleBufferStep ==
  ASSUME Before, NEW s \in Searches, CoreLocateHandleBuffer(s[1], s[2])
  PROVE  [DBNext]_dbvars /\ MarksOld' /\ Exact'
  <1> DEFINE room == Len(Searching(s[1], s[2]).list)
  <1>1. room \in Nat
    <2>1. CASE s[1] \in {AllHandles, ByProtocol}
      <3>1. s[1] = ByProtocol => s[2] \in Protocols
        BY SearchKeys DEF SearchKey, AllHandles, ByProtocol, ByRegisterNotify
      <3>2. Searching(s[1], s[2]).list \in Seq(Handles)
        BY <2>1, <3>1, SearchExact DEF Before
      <3>3. QED
        BY <3>2
    <2>2. CASE s[1] = ByRegisterNotify
      <3>1. Searching(s[1], s[2]).list
              = IF HasNext(s[2]) THEN << prot[NextInterface(s[2])].handle >> ELSE << >>
        BY <2>2 DEF Searching, CoreGetNextLocateByRegisterNotify, AllHandles, ByProtocol,
                    ByRegisterNotify
      <3>2. QED
        BY <3>1
    <2>3. QED
      BY <2>1, <2>2, SearchKeys DEF SearchKey
  <1>2. CASE CoreLocateHandle(s[1], s[2], room)
    <2>1. PICK n \in Nat : n = room
      BY <1>1
    <2>2. CoreLocateHandle(s[1], s[2], n)
      BY <1>2, <2>1
    <2>3. QED
      BY <2>2, LocateHandleStep
  <1>3. CASE /\ Searched(s[1], s[2])
             /\ locateRequest' = Searching(s[1], s[2]).marks
             /\ found' = Answer(s[1], s[2], "OUT_OF_RESOURCES", << >>, 0)
             /\ UNCHANGED dbvars
    <2>1. MarksOld'
      BY <1>3, SearchMarks
    <2>2. found'.service = s[1] /\ found'.status = "OUT_OF_RESOURCES"
      BY <1>3 DEF Answer
    <2>3. SearchesComplete'
      BY <2>2 DEF SearchesComplete
    <2>4. s[1] \notin {"OpenInformation", "Protocols"}
      BY SearchKeys DEF SearchKey, AllHandles, ByProtocol, ByRegisterNotify
    <2>5. QED
      BY <1>3, <2>1, <2>2, <2>3, <2>4 DEF Exact, ArraysFit
  <1>4. QED
    BY <1>2, <1>3 DEF CoreLocateHandleBuffer

LEMMA LocateProtocolStep ==
  ASSUME Before, NEW s \in Searches, CoreLocateProtocol(s[1], s[2])
  PROVE  [DBNext]_dbvars /\ MarksOld' /\ Exact'
  <1> DEFINE found1 == Searching(s[1], s[2]).list
  <1>1. /\ s[1] # AllHandles
        /\ Searched(s[1], s[2])
        /\ locateRequest' = IF s[1] = ByProtocol /\ found1 # << >>
                            THEN [locateRequest EXCEPT
                                    ![found1[1]] = mEfiLocateHandleRequest + 1]
                            ELSE locateRequest
        /\ found'.service = "LocateProtocol" /\ found'.list = FirstOf(found1, 1)
        /\ Deliver(s[1], s[2], s[1] = ByRegisterNotify /\ found1 # << >>)
    BY DEF CoreLocateProtocol, Answer
  <1>2. MarksOld
    BY DEF Before
  <1>3. MarksOld'
    <2>1. CASE s[1] = ByProtocol /\ found1 # << >>
      <3>1. s[2] \in entries
        BY <2>1 DEF Searching, AllHandles, ByProtocol, ByRegisterNotify
      <3>2. mEfiLocateHandleRequest' = mEfiLocateHandleRequest + 1
        BY <1>1, <3>1 DEF Searched
      <3> HIDE DEF found1
      <3>3. locateRequest' = [locateRequest EXCEPT ![found1[1]] = mEfiLocateHandleRequest + 1]
        BY <1>1, <2>1
      <3>4. PICK n : n = mEfiLocateHandleRequest
        OBVIOUS
      <3>5. /\ n \in Nat /\ n + 1 \in Nat
            /\ \A h \in Handles : /\ locateRequest[h] \in Nat /\ locateRequest[h] <= n + 1
                                  /\ locateRequest'[h] = locateRequest[h]
                                       \/ locateRequest'[h] = n + 1
        BY <1>2, <3>3, <3>4 DEF MarksOld
      <3>6. locateRequest' \in [Handles -> Nat]
        BY <1>2, <3>3, <3>4, <3>5 DEF MarksOld
      <3>7. \A h \in Handles : locateRequest'[h] <= n + 1
        BY <3>5
      <3>8. QED
        BY <3>2, <3>4, <3>5, <3>6, <3>7 DEF MarksOld
    <2>2. CASE ~(s[1] = ByProtocol /\ found1 # << >>)
      <3>1. locateRequest' = locateRequest
        BY <1>1, <2>2
      <3>2. \/ mEfiLocateHandleRequest' = mEfiLocateHandleRequest + 0
            \/ mEfiLocateHandleRequest' = mEfiLocateHandleRequest + 1
        BY <1>1 DEF Searched
      <3>3. QED
        BY <1>2, <3>1, <3>2 DEF MarksOld
    <2>3. QED
      BY <2>1, <2>2
  <1>4. [DBNext]_dbvars
    <2>1. PICK steps, list, room : /\ steps = (s[1] = ByRegisterNotify /\ found1 # << >>)
                                   /\ list = found1 /\ room = 1
      OBVIOUS
    <2>2. steps = (s[1] = ByRegisterNotify /\ list # << >> /\ room > 0)
      BY <2>1
    <2>3. Deliver(s[1], s[2], steps) /\ found'.list = FirstOf(list, room) /\ room \in Nat
      BY <1>1, <2>1
    <2>4. QED
      BY <2>1, <2>2, <2>3, DeliverSteps
  <1>5. Exact'
    BY <1>1 DEF Exact, SearchesComplete, ArraysFit, AllHandles, ByProtocol
  <1>6. QED
    BY <1>3, <1>4, <1>5

(* The arrays of the two calls that copy a list are as long as they say.   *)
LEMMA OpenInformationStep ==
  ASSUME Before, NEW h \in Handles, NEW g \in Protocols, CoreOpenProtocolInformation(h, g)
  PROVE  [DBNext]_dbvars /\ MarksOld' /\ Exact'
  <1>1. UNCHANGED << dbvars, mEfiLocateHandleRequest, locateRequest >>
    BY DEF CoreOpenProtocolInformation
  <1>2. MarksOld'
    BY <1>1 DEF Before, MarksOld
  <1>3. PICK i : \/ found' = Answer("OpenInformation", << h, g >>, "NOT_FOUND", << >>, 0)
                 \/ found' = Answer("OpenInformation", << h, g >>, "OUT_OF_RESOURCES", << >>, 0)
                 \/ /\ i \in Lookup(h, g)
                    /\ found' = Answer("OpenInformation", << h, g >>, "SUCCESS",
                                       SetToSeq(openList[i]), openListCount[i])
    BY DEF CoreOpenProtocolInformation
  <1>4. /\ found'.service = "OpenInformation"
        /\ \/ found'.list = << >> /\ found'.size = 0
           \/ /\ i \in Lookup(h, g)
              /\ found'.list = SetToSeq(openList[i]) /\ found'.size = openListCount[i]
    BY <1>3 DEF Answer
  <1>5. i \in Lookup(h, g) => Len(SetToSeq(openList[i])) = openListCount[i]
    <2>1. SUFFICES ASSUME i \in Lookup(h, g) PROVE Len(SetToSeq(openList[i])) = openListCount[i]
      OBVIOUS
    <2>2. i \in Prots
      BY <2>1 DEF Lookup, Before, IInv, TypeOK
    <2>3. PICK opens : opens = openList[i]
      OBVIOUS
    <2>4. IsFiniteSet(opens) /\ openListCount[i] = Cardinality(opens)
      BY <2>2, <2>3 DEF Before, IInv, Opens, OpenCountsAgree
    <2>5. Len(SetToSeq(opens)) = Cardinality(opens)
      BY <2>4, SetListed
    <2>6. QED
      BY <2>3, <2>4, <2>5
  <1>6. Len(found'.list) = found'.size
    BY <1>4, <1>5
  <1>7. Exact'
    BY <1>4, <1>6 DEF Exact, SearchesComplete, ArraysFit, AllHandles, ByProtocol
  <1>8. QED
    BY <1>1, <1>2, <1>7

LEMMA ProtocolsStep ==
  ASSUME Before, NEW h \in Handles, CoreProtocolsPerHandle(h)
  PROVE  [DBNext]_dbvars /\ MarksOld' /\ Exact'
  <1>1. UNCHANGED << dbvars, mEfiLocateHandleRequest, locateRequest >>
    BY DEF CoreProtocolsPerHandle
  <1>2. MarksOld'
    BY <1>1 DEF Before, MarksOld
  <1>3. PICK guids, of : guids = SetToSeq(handleProtocols[h]) /\ of = handleProtocols[h]
    OBVIOUS
  <1>4. /\ found'.service = "Protocols"
        /\ \/ found'.list = << >> /\ found'.size = 0
           \/ /\ found'.list = [k \in DOMAIN guids |-> prot[guids[k]].protocol]
              /\ found'.size = Len(guids)
    BY <1>3 DEF CoreProtocolsPerHandle, Answer
  <1>5. guids \in Seq(of) /\ IsInjective(guids) /\ ToSet(guids) = of
    BY <1>3, SetListed DEF Before, Finite
  <1>6. ASSUME NEW i \in of, NEW j \in of, prot[i].protocol = prot[j].protocol PROVE i = j
    <2>1. /\ i \in Allocated /\ prot[i].handle = h
          /\ j \in Allocated /\ prot[j].handle = h
      BY <1>3 DEF Before, IInv, Links, ListsAgree
    <2>2. QED
      BY <1>6, <2>1 DEF Before, IInv, Links, UniqueProtocol
  <1>7. PICK n \in Nat : n = Len(guids)
    BY <1>5
  <1>8. DOMAIN guids = 1 .. n /\ \A k \in 1 .. n : guids[k] \in of
    BY <1>5, <1>7
  <1>9. \A k, l \in 1 .. n : prot[guids[k]].protocol = prot[guids[l]].protocol => k = l
    BY <1>5, <1>6, <1>8 DEF IsInjective
  <1>10. Len(found'.list) = found'.size /\ IsInjective(found'.list)
    <2>1. CASE found'.list = << >> /\ found'.size = 0
      <3>1. IsInjective(<< >>) /\ Len(<< >>) = 0
        BY DEF IsInjective
      <3>2. QED
        BY <2>1, <3>1
    <2>2. CASE /\ found'.list = [k \in DOMAIN guids |-> prot[guids[k]].protocol]
               /\ found'.size = Len(guids)
      <3>1. PICK list : list = found'.list
        OBVIOUS
      <3>2. list = [k \in 1 .. n |-> prot[guids[k]].protocol]
        BY <1>8, <2>2, <3>1
      <3>3. Len(list) = n
        BY <3>2
      <3>4. IsInjective(list)
        BY <1>9, <3>2 DEF IsInjective
      <3>5. QED
        BY <1>7, <2>2, <3>1, <3>3, <3>4
    <2>3. QED
      BY <1>4, <2>1, <2>2
  <1>11. SearchesComplete'
    BY <1>4 DEF SearchesComplete, AllHandles, ByProtocol
  <1>12. ArraysFit'
    BY <1>10 DEF ArraysFit
  <1>13. QED
    BY <1>1, <1>2, <1>11, <1>12 DEF Exact

LEMMA LookupStep ==
  ASSUME Before, Lookups
  PROVE  [DBNext]_dbvars /\ MarksOld' /\ Exact'
  <1>1. ASSUME NEW s \in Searches, NEW room \in Rooms, CoreLocateHandle(s[1], s[2], room)
        PROVE  [DBNext]_dbvars /\ MarksOld' /\ Exact'
    <2>1. room \in Nat
      BY RoomsAssumption
    <2>2. QED
      BY <1>1, <2>1, LocateHandleStep
  <1>2. QED
    BY <1>1, LocateHandleBufferStep, LocateProtocolStep, OpenInformationStep, ProtocolsStep
       DEF Lookups

-----------------------------------------------------------------------------
(* The changes in between.                                                 *)

(* Every piece of code that changes the database brings one handle and one *)
(* interface at most, and a GUID gets its entry before its interface.      *)
LEMMA ChangesBound ==
  ASSUME TypeOK, Finite, Entered, [DBNext]_dbvars
  PROVE  Finite' /\ Entered'
  <1>1. ASSUME NEW h \in Handles, NEW g \in Protocols, NEW x \in Interfaces, NEW i \in Prots,
               AddInterface(h, g, x, i)
        PROVE  Finite' /\ Entered'
    <2>1. /\ handles' = handles \cup {h} /\ entries' = entries \cup {g}
          /\ handleProtocols' = [handleProtocols EXCEPT ![h] = @ \cup {i}]
          /\ prot' = [prot EXCEPT ![i] = [handle |-> h, protocol |-> g, interface |-> x]]
      BY <1>1 DEF AddInterface, LinkInterface, CreateEntry
    <2>2. IsFiniteSet(handles')
      BY <2>1, FS_AddElement DEF Finite
    <2>3. ASSUME NEW k \in Handles PROVE IsFiniteSet(handleProtocols'[k])
      <3>1. PICK of : of = handleProtocols[k]
        OBVIOUS
      <3>2. IsFiniteSet(of) /\ IsFiniteSet(of \cup {i})
        BY <3>1, FS_AddElement DEF Finite
      <3>3. QED
        BY <2>1, <3>1, <3>2 DEF TypeOK
    <2>4. Entered'
      BY <2>1 DEF Entered, Allocated, TypeOK
    <2>5. QED
      BY <2>2, <2>3, <2>4 DEF Finite
  <1>2. ASSUME NEW i \in Prots, RemoveInterface(i)
        PROVE  Finite' /\ Entered'
    <2>1. /\ handles' \in SUBSET handles /\ entries' = entries
          /\ handleProtocols' = [handleProtocols EXCEPT ![prot[i].handle] = @ \ {i}]
          /\ prot' = [prot EXCEPT ![i] = NULL]
      BY <1>2 DEF RemoveInterface, UnlinkInterface
    <2>2. IsFiniteSet(handles')
      BY <2>1, FS_Subset DEF Finite
    <2>3. ASSUME NEW k \in Handles PROVE IsFiniteSet(handleProtocols'[k])
      <3>1. handleProtocols'[k] \in SUBSET handleProtocols[k]
        BY <2>1 DEF TypeOK
      <3>2. QED
        BY <3>1, FS_Subset DEF Finite
    <2>4. Entered'
      BY <2>1 DEF Entered, Allocated, TypeOK
    <2>5. QED
      BY <2>2, <2>3, <2>4 DEF Finite
  <1>3. ASSUME NEW i \in Prots, NEW x \in Interfaces, ReplaceInterface(i, x)
        PROVE  Finite' /\ Entered'
    <2>1. prot[i] \in ProtocolInterface /\ i \in Allocated
      BY <1>3 DEF ReplaceInterface, RelinkInterface, Allocated, TypeOK
    <2>2. /\ UNCHANGED << handles, handleProtocols, entries >>
          /\ prot' = [prot EXCEPT ![i].interface = x]
      BY <1>3 DEF ReplaceInterface, RelinkInterface
    <2>3. prot'[i].protocol = prot[i].protocol /\ \A j \in Prots \ {i} : prot'[j] = prot[j]
      BY <2>1, <2>2 DEF TypeOK, ProtocolInterface
    <2>4. Entered'
      BY <2>1, <2>2, <2>3 DEF Entered, Allocated
    <2>5. QED
      BY <2>2, <2>4 DEF Finite
  <1>4. CASE /\ UNCHANGED << handles, handleProtocols, prot >>
             /\ entries \subseteq entries'
    BY <1>4 DEF Finite, Entered, Allocated
  <1>5. ASSUME NEW i \in Prots, NEW a, NEW c, NEW m, AddOpen(i, a, c, m)
        PROVE  Finite' /\ Entered'
    BY <1>4, <1>5 DEF AddOpen, CreateOpen, SetOpenList
  <1>6. QED
    BY <1>1, <1>2, <1>3, <1>4, <1>5
       DEF DBNext, OnlyCreateEntry, CreateEntry, CountOpen, RemoveOpens, SetOpenList,
           RegisterNotify, UnregisterNotify, DeliverNext, dbvars

(* A new handle has the number zero, and what was found before is history. *)
LEMMA ChangeStep ==
  ASSUME Before, Changes
  PROVE  MarksOld' /\ Exact'
  <1>1. MarksOld'
    <2>1. \A h \in Handles : locateRequest'[h] \in {0, locateRequest[h]}
      BY DEF Changes, HandlesCreated
    <2>2. locateRequest' \in [Handles -> Nat]
      <3>1. \A h \in Handles : locateRequest[h] \in Nat /\ 0 \in Nat
        BY DEF Before, MarksOld
      <3>2. QED
        BY <3>1 DEF Changes, HandlesCreated
    <2>3. QED
      BY <2>1, <2>2 DEF Before, MarksOld, Changes, HandlesCreated
  <1>2. found'.service = "none"
    BY DEF Changes, HandlesCreated, NothingFound, Answer
  <1>3. QED
    BY <1>1, <1>2 DEF Exact, SearchesComplete, ArraysFit, AllHandles, ByProtocol

LocateInv == Before /\ Exact

LEMMA InitLocateInv == DBInit /\ LocateInit => LocateInv
  <1> SUFFICES ASSUME DBInit, LocateInit PROVE LocateInv
    OBVIOUS
  <1>1. IInv
    BY InitIInv
  <1>2. MarksOld
    BY DEF LocateInit, MarksOld
  <1>3. Finite /\ Entered
    BY FS_EmptySet DEF DBInit, Finite, Entered, Allocated
  <1>4. found.service = "none"
    BY DEF LocateInit, NothingFound, Answer
  <1>5. Exact
    BY <1>4 DEF Exact, SearchesComplete, ArraysFit, AllHandles, ByProtocol
  <1>6. QED
    BY <1>1, <1>2, <1>3, <1>5 DEF LocateInv, Before

LEMMA NextLocateInv ==
  LocateInv /\ [Lookups \/ Changes]_<< dbvars, locatevars >> => LocateInv' /\ [DBNext]_dbvars
  <1> SUFFICES ASSUME LocateInv, [Lookups \/ Changes]_<< dbvars, locatevars >>
               PROVE  LocateInv' /\ [DBNext]_dbvars
    OBVIOUS
  <1>1. Before /\ Exact /\ TypeOK /\ Finite /\ Entered /\ IInv
    BY DEF LocateInv, Before, IInv
  <1>2. [DBNext]_dbvars /\ MarksOld' /\ Exact'
    <2>1. CASE Lookups
      BY <1>1, <2>1, LookupStep
    <2>2. CASE Changes
      BY <1>1, <2>2, ChangeStep DEF Changes
    <2>3. CASE UNCHANGED << dbvars, locatevars >>
      BY <1>1, <2>3 DEF dbvars, locatevars, Before, MarksOld, Exact, SearchesComplete, ArraysFit,
         Holders, HandlesWith, Lookup
    <2>4. QED
      BY <2>1, <2>2, <2>3
  <1>3. IInv'
    BY <1>1, <1>2, NextIInv
  <1>4. Finite' /\ Entered'
    BY <1>1, <1>2, ChangesBound
  <1>5. QED
    BY <1>2, <1>3, <1>4 DEF LocateInv, Before

-----------------------------------------------------------------------------
(* With lookups the database is still the one HandleDatabase describes:    *)
(* CoreLocateHandle and CoreLocateProtocol change nothing of it but the    *)
(* position of a registration, and that as DeliverNext allows, also when   *)
(* the buffer is too small or cannot be allocated.                         *)
THEOREM LookupsKeepDatabase == LocateSpec => DBSpec
  <1>1. DBInit /\ LocateInit => LocateInv /\ DBInit
    BY InitLocateInv
  <1>2. QED
    BY <1>1, NextLocateInv, PTL DEF LocateSpec, DBSpec

(* A lookup that succeeds returns every handle it is about, each once, and *)
(* tells the right size when there is too little room; the arrays it hands *)
(* out have as many elements as it says; and a registration has been given *)
(* exactly the interfaces up to its position.                              *)
THEOREM LookupsCorrect == LocateSpec => []LookupsExact
  <1>1. LocateInv => LookupsExact
    BY DEF LocateInv, Before, IInv, Walks, Exact, LookupsExact
  <1>2. QED
    BY <1>1, InitLocateInv, NextLocateInv, PTL DEF LocateSpec


-----------------------------------------------------------------------------
(* What lies behind an element of a list without duplicates.               *)

AheadOf(s, e) == { s[j] : j \in IndexOf(s, e) + 1 .. Len(s) }

LEMMA AheadIndex ==
  ASSUME NEW S, NEW s \in Seq(S), IsInjective(s), NEW e \in ToSet(s), NEW x
  PROVE  x \in AheadOf(s, e) <=> x \in ToSet(s) /\ IndexOf(s, x) > IndexOf(s, e)
  <1>1. Len(s) \in Nat /\ DOMAIN s = 1 .. Len(s)
    OBVIOUS
  <1>2. IndexOf(s, e) \in 1 .. Len(s)
    BY IndexOfElement
  <1>3. ASSUME x \in AheadOf(s, e)
        PROVE  x \in ToSet(s) /\ IndexOf(s, x) > IndexOf(s, e)
    <2>1. PICK j \in IndexOf(s, e) + 1 .. Len(s) : x = s[j]
      BY <1>3 DEF AheadOf
    <2>2. j \in 1 .. Len(s) /\ j > IndexOf(s, e)
      BY <1>1, <1>2
    <2>3. x \in ToSet(s)
      BY <1>1, <2>1, <2>2 DEF ToSet
    <2>4. j = IndexOf(s, x)
      BY <2>1, <2>2, <2>3, IndexOfElement
    <2>5. QED
      BY <2>2, <2>3, <2>4
  <1>4. ASSUME x \in ToSet(s), IndexOf(s, x) > IndexOf(s, e)
        PROVE  x \in AheadOf(s, e)
    <2>1. IndexOf(s, x) \in 1 .. Len(s) /\ s[IndexOf(s, x)] = x
      BY <1>4, IndexOfElement
    <2>2. IndexOf(s, x) \in IndexOf(s, e) + 1 .. Len(s)
      BY <1>1, <1>2, <1>4, <2>1
    <2>3. QED
      BY <2>1, <2>2 DEF AheadOf
  <1>5. QED
    BY <1>3, <1>4

(* Behind the first element are all the others.                            *)
LEMMA AheadOfFirst ==
  ASSUME NEW S, NEW s \in Seq(S), IsInjective(s), s # << >>
  PROVE  /\ s[1] \in ToSet(s)
         /\ AheadOf(s, s[1]) = { s[j] : j \in 2 .. Len(s) }
         /\ s[1] \notin AheadOf(s, s[1])
  <1>1. 1 \in 1 .. Len(s) /\ DOMAIN s = 1 .. Len(s)
    OBVIOUS
  <1>2. s[1] \in ToSet(s)
    BY <1>1 DEF ToSet
  <1>3. IndexOf(s, s[1]) = 1
    BY <1>1, <1>2, IndexOfElement
  <1>4. s[1] \notin AheadOf(s, s[1])
    <2>1. s[1] \in AheadOf(s, s[1]) => IndexOf(s, s[1]) > IndexOf(s, s[1])
      BY <1>2, AheadIndex
    <2>2. QED
      BY <1>3, <2>1
  <1>5. QED
    BY <1>2, <1>3, <1>4 DEF AheadOf

LEMMA AheadOfNext ==
  ASSUME NEW S, NEW s \in Seq(S), IsInjective(s), NEW e \in ToSet(s),
         NEW k, k = IndexOf(s, e)
  PROVE  /\ k = Len(s) => AheadOf(s, e) = {}
         /\ k # Len(s) => /\ s[k + 1] \in AheadOf(s, e) /\ s[k + 1] \in ToSet(s)
                          /\ AheadOf(s, s[k + 1]) = AheadOf(s, e) \ {s[k + 1]}
  <1>1. Len(s) \in Nat /\ DOMAIN s = 1 .. Len(s) /\ k \in 1 .. Len(s)
    BY IndexOfElement
  <1>2. ASSUME k = Len(s) PROVE AheadOf(s, e) = {}
    <2>1. k + 1 .. Len(s) = {}
      BY <1>1, <1>2
    <2>2. QED
      BY <2>1 DEF AheadOf
  <1>3. ASSUME k # Len(s)
        PROVE  /\ s[k + 1] \in AheadOf(s, e) /\ s[k + 1] \in ToSet(s)
               /\ AheadOf(s, s[k + 1]) = AheadOf(s, e) \ {s[k + 1]}
    <2>1. k + 1 \in 1 .. Len(s) /\ k + 1 \in k + 1 .. Len(s)
      BY <1>1, <1>3
    <2>2. s[k + 1] \in ToSet(s)
      BY <1>1, <2>1 DEF ToSet
    <2>3. IndexOf(s, s[k + 1]) = k + 1
      BY <2>1, <2>2, IndexOfElement
    <2>4. ASSUME NEW x
          PROVE  x \in AheadOf(s, s[k + 1]) <=> x \in AheadOf(s, e) /\ x # s[k + 1]
      <3>1. x \in AheadOf(s, s[k + 1]) <=> x \in ToSet(s) /\ IndexOf(s, x) > k + 1
        BY <2>2, <2>3, AheadIndex
      <3>2. x \in AheadOf(s, e) <=> x \in ToSet(s) /\ IndexOf(s, x) > k
        BY AheadIndex
      <3>3. ASSUME x \in ToSet(s)
            PROVE  IndexOf(s, x) > k + 1 <=> IndexOf(s, x) > k /\ x # s[k + 1]
        <4>1. IndexOf(s, x) \in 1 .. Len(s) /\ s[IndexOf(s, x)] = x
          BY <3>3, IndexOfElement
        <4>2. x = s[k + 1] <=> IndexOf(s, x) = k + 1
          BY <2>3, <4>1
        <4>3. QED
          BY <1>1, <4>1, <4>2
      <3>4. QED
        BY <3>1, <3>2, <3>3
    <2>5. s[k + 1] \in AheadOf(s, e)
      BY <2>1 DEF AheadOf
    <2>6. QED
      BY <2>2, <2>4, <2>5
  <1>4. QED
    BY <1>2, <1>3

(* A new element is behind everybody.                                      *)
LEMMA AheadAppended ==
  ASSUME NEW S, NEW s \in Seq(S), IsInjective(s), NEW r \in S, r \notin ToSet(s),
         NEW e \in ToSet(s)
  PROVE  AheadOf(Append(s, r), e) = AheadOf(s, e) \cup {r}
  <1> DEFINE t == Append(s, r)
  <1>1. /\ t \in Seq(S) /\ IsInjective(t) /\ ToSet(t) = ToSet(s) \cup {r}
    BY AppendElement
  <1>2. Len(t) = Len(s) + 1 /\ t[Len(s) + 1] = r /\ Len(s) \in Nat
    OBVIOUS
  <1> HIDE DEF t
  <1>3. IndexOf(t, r) = Len(s) + 1
    <2>1. Len(s) + 1 \in 1 .. Len(t)
      BY <1>2
    <2>2. QED
      BY <1>1, <1>2, <2>1, IndexOfElement
  <1>4. \A x \in ToSet(s) : IndexOf(t, x) = IndexOf(s, x) /\ IndexOf(s, x) \in 1 .. Len(s)
    BY IndexAfterAppend, IndexOfElement DEF t
  <1>5. ASSUME NEW x
        PROVE  x \in AheadOf(t, e) <=> x \in AheadOf(s, e) \/ x = r
    <2>1. x \in AheadOf(t, e) <=> x \in ToSet(t) /\ IndexOf(t, x) > IndexOf(t, e)
      BY <1>1, AheadIndex
    <2>2. x \in AheadOf(s, e) <=> x \in ToSet(s) /\ IndexOf(s, x) > IndexOf(s, e)
      BY AheadIndex
    <2>3. CASE x = r
      BY <1>1, <1>2, <1>3, <1>4, <2>1, <2>3
    <2>4. CASE x # r
      BY <1>1, <1>4, <2>1, <2>2, <2>4
    <2>5. QED
      BY <2>3, <2>4
  <1>6. AheadOf(t, e) = AheadOf(s, e) \cup {r}
    BY <1>5
  <1>7. QED
    BY <1>6 DEF t

(* Taking somebody else out changes nothing for the others.                *)
LEMMA AheadWithout ==
  ASSUME NEW S, NEW s \in Seq(S), IsInjective(s), NEW r \in ToSet(s),
         NEW e \in ToSet(s), e # r
  PROVE  AheadOf(WithoutInterface(s, r), e) = AheadOf(s, e) \ {r}
  <1> DEFINE t == WithoutInterface(s, r)
  <1>1. t \in Seq(S) /\ IsInjective(t) /\ ToSet(t) = ToSet(s) \ {r}
    BY WithoutElement
  <1>2. /\ IndexOf(s, r) \in 1 .. Len(s) /\ s[IndexOf(s, r)] = r
        /\ \A x \in ToSet(s) : IndexOf(s, x) \in 1 .. Len(s) /\ s[IndexOf(s, x)] = x
    BY IndexOfElement
  <1>3. \A x \in ToSet(s) \ {r} :
          IndexOf(t, x) = IF IndexOf(s, x) < IndexOf(s, r) THEN IndexOf(s, x)
                          ELSE IndexOf(s, x) - 1
    BY IndexAfterRemove
  <1> HIDE DEF t
  <1>4. ASSUME NEW x \in ToSet(s) \ {r}
        PROVE  IndexOf(t, x) > IndexOf(t, e) <=> IndexOf(s, x) > IndexOf(s, e)
    <2>1. PICK a, b, c : a = IndexOf(s, x) /\ b = IndexOf(s, e) /\ c = IndexOf(s, r)
      OBVIOUS
    <2>2. a \in Nat /\ b \in Nat /\ c \in Nat /\ a # c /\ b # c
      BY <1>2, <2>1
    <2>3. /\ IndexOf(t, x) = IF a < c THEN a ELSE a - 1
          /\ IndexOf(t, e) = IF b < c THEN b ELSE b - 1
      BY <1>3, <2>1
    <2>4. QED
      BY <2>1, <2>2, <2>3
  <1>5. ASSUME NEW x
        PROVE  x \in AheadOf(t, e) <=> x \in AheadOf(s, e) /\ x # r
    <2>1. x \in AheadOf(t, e) <=> x \in ToSet(t) /\ IndexOf(t, x) > IndexOf(t, e)
      BY <1>1, AheadIndex
    <2>2. x \in AheadOf(s, e) <=> x \in ToSet(s) /\ IndexOf(s, x) > IndexOf(s, e)
      BY AheadIndex
    <2>3. QED
      BY <1>1, <1>4, <2>1, <2>2
  <1>6. AheadOf(t, e) = AheadOf(s, e) \ {r}
    BY <1>5
  <1>7. QED
    BY <1>6 DEF t

-----------------------------------------------------------------------------
(* The calls that run: a stack of frames about different interfaces, but   *)
(* for those whose interface has been freed.                               *)

Frame == [prot : Prots \cup {NULL}, entry : Protocols, link : Registrations \cup {NULL}]

Apart(s) ==
  \A k, l \in DOMAIN s : s[k].prot \in Prots /\ s[k].prot = s[l].prot => k = l

Stack == { s \in Seq(Frame) : Apart(s) }

LEMMA PushFrame ==
  ASSUME NEW s \in Stack, NEW f \in Frame,
         \A e \in ToSet(s) : f.prot \in Prots => e.prot # f.prot
  PROVE  Append(s, f) \in Stack /\ ToSet(Append(s, f)) = ToSet(s) \cup {f}
  <1> DEFINE t == Append(s, f)
  <1>1. /\ s \in Seq(Frame) /\ Len(s) \in Nat /\ DOMAIN s = 1 .. Len(s)
        /\ \A k, l \in DOMAIN s : s[k].prot \in Prots /\ s[k].prot = s[l].prot => k = l
    BY DEF Stack, Apart
  <1>2. /\ t \in Seq(Frame) /\ DOMAIN t = 1 .. Len(s) + 1
        /\ t[Len(s) + 1] = f /\ \A k \in 1 .. Len(s) : t[k] = s[k]
    BY <1>1
  <1>3. \A k \in 1 .. Len(s) + 1 : k \in 1 .. Len(s) \/ k = Len(s) + 1
    BY <1>1
  <1> HIDE DEF t
  <1>4. \A k \in 1 .. Len(s) : f.prot \in Prots => s[k].prot # f.prot
    BY <1>1 DEF ToSet
  <1>5. ASSUME NEW k \in DOMAIN t, NEW l \in DOMAIN t,
               t[k].prot \in Prots, t[k].prot = t[l].prot
        PROVE k = l
    <2>1. CASE k \in 1 .. Len(s) /\ l \in 1 .. Len(s)
      BY <1>1, <1>2, <1>5, <2>1
    <2>2. CASE k \in 1 .. Len(s) /\ l = Len(s) + 1
      BY <1>2, <1>4, <1>5, <2>2
    <2>3. CASE k = Len(s) + 1 /\ l \in 1 .. Len(s)
      BY <1>2, <1>4, <1>5, <2>3
    <2>4. QED
      BY <1>2, <1>3, <2>1, <2>2, <2>3
  <1>6. ToSet(t) = ToSet(s) \cup {f}
    <2>1. ASSUME NEW x PROVE x \in ToSet(t) <=> x \in ToSet(s) \/ x = f
      <3>1. Len(s) + 1 \in 1 .. Len(s) + 1 /\ \A k \in 1 .. Len(s) : k \in 1 .. Len(s) + 1
        BY <1>1
      <3>2. QED
        BY <1>1, <1>2, <1>3, <3>1 DEF ToSet
    <2>2. QED
      BY <2>1
  <1>7. t \in Stack
    BY <1>2, <1>5 DEF Stack, Apart
  <1>8. QED
    BY <1>6, <1>7 DEF t

LEMMA PopFrame ==
  ASSUME NEW s \in Stack, s # << >>, NEW rest, rest = SubSeq(s, 1, Len(s) - 1)
  PROVE  /\ Last(s) \in Frame /\ rest \in Stack
         /\ ToSet(s) = ToSet(rest) \cup {Last(s)}
         /\ \A e \in ToSet(rest) : e.prot \in Prots => e.prot # Last(s).prot
  <1>1. /\ s \in Seq(Frame) /\ Len(s) \in Nat /\ DOMAIN s = 1 .. Len(s)
        /\ \A k, l \in DOMAIN s : s[k].prot \in Prots /\ s[k].prot = s[l].prot => k = l
    BY DEF Stack, Apart
  <1>2. PICK n \in Nat : n = Len(s) - 1 /\ Len(s) = n + 1
    <2>1. Len(s) # 0
      BY <1>1
    <2>2. Len(s) - 1 \in Nat /\ Len(s) = (Len(s) - 1) + 1
      BY <1>1, <2>1
    <2>3. QED
      BY <2>2
  <1>3. /\ rest \in Seq(Frame) /\ Len(rest) = n /\ DOMAIN rest = 1 .. n
        /\ \A k \in 1 .. n : rest[k] = s[k]
    BY <1>1, <1>2
  <1>4. Last(s) = s[n + 1]
    BY <1>2 DEF Last
  <1>5. /\ n + 1 \in DOMAIN s /\ \A k \in DOMAIN s : k \in 1 .. n \/ k = n + 1
        /\ \A k \in 1 .. n : k \in DOMAIN s /\ k # n + 1
    <2>1. DOMAIN s = 1 .. n + 1
      BY <1>1, <1>2
    <2>2. /\ n + 1 \in 1 .. n + 1 /\ \A k \in 1 .. n + 1 : k \in 1 .. n \/ k = n + 1
          /\ \A k \in 1 .. n : k \in 1 .. n + 1 /\ k # n + 1
      OBVIOUS
    <2>3. QED
      BY <2>1, <2>2
  <1>6. Last(s) \in Frame
    BY <1>1, <1>4, <1>5
  <1>7. rest \in Stack
    <2>1. ASSUME NEW k \in 1 .. n, NEW l \in 1 .. n,
                 rest[k].prot \in Prots, rest[k].prot = rest[l].prot
          PROVE k = l
      <3>1. s[k].prot \in Prots /\ s[k].prot = s[l].prot
        BY <1>3, <2>1
      <3>2. QED
        BY <1>1, <1>5, <3>1
    <2>2. QED
      BY <1>3, <2>1 DEF Stack, Apart
  <1>8. ASSUME NEW k \in 1 .. n, rest[k].prot \in Prots PROVE rest[k].prot # Last(s).prot
    <2>1. k \in DOMAIN s /\ n + 1 \in DOMAIN s /\ k # n + 1 /\ s[k].prot \in Prots
      BY <1>3, <1>5, <1>8
    <2>2. s[k].prot # s[n + 1].prot
      BY <1>1, <2>1
    <2>3. QED
      BY <1>3, <1>4, <2>2
  <1>9. ASSUME NEW x PROVE x \in ToSet(s) <=> x \in ToSet(rest) \/ x = Last(s)
    BY <1>3, <1>4, <1>5 DEF ToSet
  <1>10. ToSet(s) = ToSet(rest) \cup {Last(s)}
    BY <1>9
  <1>11. \A e \in ToSet(rest) : e.prot \in Prots => e.prot # Last(s).prot
    BY <1>3, <1>8 DEF ToSet
  <1>12. QED
    BY <1>6, <1>7, <1>10, <1>11

(* Pointers of frames that become NULL leave the frames apart.             *)
LEMMA FreedFrames ==
  ASSUME NEW s \in Stack, NEW new \in [Frame -> Frame],
         \A f \in Frame : new[f].prot \in {f.prot, NULL},
         NEW t, t = [k \in DOMAIN s |-> new[s[k]]]
  PROVE  t \in Stack /\ ToSet(t) = { new[f] : f \in ToSet(s) }
  <1>1. /\ s \in Seq(Frame) /\ Len(s) \in Nat /\ DOMAIN s = 1 .. Len(s)
        /\ \A k, l \in DOMAIN s : s[k].prot \in Prots /\ s[k].prot = s[l].prot => k = l
    BY DEF Stack, Apart
  <1>2. /\ DOMAIN t = 1 .. Len(s) /\ \A k \in 1 .. Len(s) : s[k] \in Frame /\ t[k] = new[s[k]]
    BY <1>1
  <1>3. t \in Seq(Frame)
    <2>1. t \in [1 .. Len(s) -> Frame]
      BY <1>1, <1>2
    <2>2. QED
      BY <1>1, <2>1
  <1>4. ASSUME NEW k \in 1 .. Len(s), NEW l \in 1 .. Len(s),
               t[k].prot \in Prots, t[k].prot = t[l].prot
        PROVE k = l
    <2>1. t[k].prot = s[k].prot /\ t[l].prot = s[l].prot
      BY <1>2, <1>4, RegistrationsAssumption
    <2>2. QED
      BY <1>1, <1>4, <2>1
  <1>5. t \in Stack
    BY <1>2, <1>3, <1>4 DEF Stack, Apart
  <1>6. ToSet(t) = { new[f] : f \in ToSet(s) }
    BY <1>1, <1>2 DEF ToSet
  <1>7. QED
    BY <1>5, <1>6

-----------------------------------------------------------------------------
(* The invariant.                                                          *)

Active == ToSet(running)

FunctionsFor(f) == functions[f.entry]

StillToTell(f) == AheadOf(FunctionsFor(f), f.link)

(* A call stands on the list of its GUID with an interface that is still   *)
(* there, of which nobody further down has been told; or what it stands on *)
(* or tells of has been freed.                                             *)
FrameOK(f) ==
  /\ f.prot # NULL => f.prot \in Allocated
  /\ f.link # NULL => f.link \in ToSet(FunctionsFor(f))
  /\ freedRead = {} /\ f.prot # NULL /\ f.link # NULL =>
       \A r \in Registrations : r \in StillToTell(f) => told[<< r, f.prot >>] = 0

Frames ==
  /\ running \in Stack
  /\ \A f \in Frame : f \in Active => FrameOK(f)

(* Only live functions are told, of interfaces that are there.             *)
Told ==
  /\ told \in [Registrations \X Prots -> {0, 1, 2}]
  /\ freedRead = {} =>
       \A r \in Registrations, i \in Prots :
         /\ told[<< r, i >>] # 2
         /\ told[<< r, i >>] = 1 => r \in Registered /\ i \in Allocated

(* Whoever is due to be told lies further down the list of a call, unless  *)
(* that call has lost its place on the list.                               *)
Due ==
  /\ due \subseteq Registrations \X Prots
  /\ freedRead = {} =>
       \A r \in Registrations, i \in Prots :
         << r, i >> \in due =>
           \E f \in Frame : /\ f \in Active /\ f.prot = i
                            /\ f.link # NULL => r \in StillToTell(f)

FunctionsOK == functions \in [Protocols -> Seq(Registrations)] /\ FunctionsLive

(* The SMM core has no OpenProtocol.                                       *)
NoOpens == \A i \in Prots : openListCount[i] = 0

Table == [guid : Protocols, table : Tables]

TablesOK == tables \in Seq(Table) /\ TablesDistinct

SmmInv ==
  /\ LocateInv /\ NoOpens /\ FunctionsOK
  /\ Frames /\ Told /\ Due /\ TablesOK

LEMMA InitSmmInv == SmmInit => SmmInv
  <1> SUFFICES ASSUME SmmInit PROVE SmmInv
    OBVIOUS
  <1>1. LocateInv
    BY InitLocateInv DEF SmmInit
  <1>2. NoOpens /\ Registered = {} /\ Allocated = {}
    BY DEF SmmInit, DBInit, NoOpens, Registered, Allocated
  <1>3. ToSet(<< >>) = {} /\ IsInjective(<< >>) /\ DOMAIN << >> = {}
    BY DEF ToSet, IsInjective
  <1>4. FunctionsOK
    BY <1>2, <1>3 DEF SmmInit, FunctionsOK, FunctionsLive
  <1>5. Frames /\ Due
    <2>1. << >> \in Stack
      BY <1>3 DEF Stack, Apart
    <2>2. Active = {}
      BY <1>3 DEF SmmInit, Active
    <2>3. QED
      BY <2>1, <2>2 DEF SmmInit, Frames, Due
  <1>6. Told
    BY DEF SmmInit, Told
  <1>7. TablesOK
    BY <1>3 DEF SmmInit, TablesOK, TablesDistinct
  <1>8. QED
    BY <1>1, <1>2, <1>4, <1>5, <1>6, <1>7 DEF SmmInv

(* What the invariant says of a call and of the list it walks.             *)
LEMMA ActiveFrame ==
  ASSUME SmmInv, NEW f \in Frame, f \in Active
  PROVE  /\ f.entry \in Protocols
         /\ FunctionsFor(f) \in Seq(Registrations) /\ IsInjective(FunctionsFor(f))
         /\ ToSet(FunctionsFor(f)) \subseteq Registered
         /\ f.prot # NULL => f.prot \in Allocated /\ f.prot \in Prots
         /\ f.link # NULL => f.link \in ToSet(FunctionsFor(f)) /\ f.link \in Registrations
         /\ freedRead = {} /\ f.prot # NULL /\ f.link # NULL =>
              \A r \in Registrations : r \in StillToTell(f) => told[<< r, f.prot >>] = 0
  <1>1. FrameOK(f)
    BY DEF SmmInv, Frames
  <1>2. /\ f.entry \in Protocols /\ f.prot \in Prots \cup {NULL}
        /\ f.link \in Registrations \cup {NULL}
    BY DEF Frame
  <1>3. QED
    BY <1>1, <1>2 DEF FrameOK, SmmInv, FunctionsOK, FunctionsLive, FunctionsFor

(* A step that changes nothing but what the clients of a lookup see.       *)
LEMMA KeptSmmInv ==
  ASSUME SmmInv, LocateInv', UNCHANGED << functions, running, freedRead, due, told, prot, openListCount >>,
         Registered' = Registered,
         \A r \in Registered : notify'[r].protocol = notify[r].protocol,
         TablesOK'
  PROVE  SmmInv'
  <1>1. NoOpens' /\ Allocated' = Allocated /\ Active' = Active
    BY DEF SmmInv, NoOpens, Allocated, Active
  <1>2. FunctionsOK'
    <2>1. \A g \in Protocols : { r \in Registered' : notify'[r].protocol = g }
                                 = { r \in Registered : notify[r].protocol = g }
      OBVIOUS
    <2>2. QED
      BY <2>1 DEF SmmInv, FunctionsOK, FunctionsLive
  <1>3. \A f \in Frame : FunctionsFor(f)' = FunctionsFor(f) /\ StillToTell(f)' = StillToTell(f)
    BY DEF FunctionsFor, StillToTell
  <1>4. Frames'
    BY <1>1, <1>3 DEF SmmInv, Frames, FrameOK
  <1>5. Told'
    BY <1>1 DEF SmmInv, Told
  <1>6. Due'
    BY <1>1, <1>3 DEF SmmInv, Due
  <1>7. QED
    BY <1>1, <1>2, <1>4, <1>5, <1>6 DEF SmmInv

-----------------------------------------------------------------------------
(* The services that leave the lists of functions alone.                   *)

(* Stuttering, or a step of the table alone.                               *)
LEMMA SameDatabase ==
  ASSUME SmmInv, TablesOK',
         UNCHANGED << dbvars, locatevars, functions, running, freedRead, due, told >>
  PROVE  SmmInv'
  <1>1. LocateInv'
    BY NextLocateInv DEF SmmInv
  <1>2. UNCHANGED << prot, openListCount, notify >> /\ Registered' = Registered
    BY DEF dbvars, Registered
  <1>3. QED
    BY <1>1, <1>2, KeptSmmInv

LEMMA TablesStep ==
  ASSUME TablesOK, NEW g \in Protocols,
         RemoveTable(g) \/ \E t \in Tables : ReplaceTable(g, t) \/ AddTable(g, t)
  PROVE  TablesOK'
  <1>1. /\ tables \in Seq(Table) /\ Len(tables) \in Nat /\ DOMAIN tables = 1 .. Len(tables)
        /\ \A k, l \in 1 .. Len(tables) : tables[k].guid = tables[l].guid => k = l
    BY DEF TablesOK, TablesDistinct
  <1>2. ASSUME NEW t \in Tables, ReplaceTable(g, t) PROVE TablesOK'
    <2>1. PICK k \in DOMAIN tables : tables' = [tables EXCEPT ![k].table = t]
      BY <1>2 DEF ReplaceTable, TableIndex
    <2>0. tables[k] \in Table
      BY <1>1
    <2>2. /\ [tables[k] EXCEPT !.table = t] \in Table
          /\ [tables[k] EXCEPT !.table = t].guid = tables[k].guid
      BY <2>0 DEF Table
    <2>3. /\ tables' \in Seq(Table) /\ DOMAIN tables' = DOMAIN tables
          /\ \A j \in DOMAIN tables : tables'[j].guid = tables[j].guid
      BY <1>1, <2>1, <2>2
    <2>4. QED
      BY <1>1, <2>3 DEF TablesOK, TablesDistinct
  <1>3. CASE RemoveTable(g)
    <2>1. PICK k \in 1 .. Len(tables) : tables' = RemoveAt(tables, k)
      BY <1>1, <1>3 DEF RemoveTable, TableIndex
    <2>2. /\ tables' \in Seq(Table) /\ Len(tables') = Len(tables) - 1
          /\ \A j \in 1 .. Len(tables) - 1 :
               tables'[j] = IF j < k THEN tables[j] ELSE tables[j + 1]
      BY <1>1, <2>1, RemoveElementAt
    <2>3. DOMAIN tables' = 1 .. Len(tables) - 1
      BY <2>2
    <2>4. ASSUME NEW i \in 1 .. Len(tables) - 1, NEW j \in 1 .. Len(tables) - 1,
                 tables'[i].guid = tables'[j].guid
          PROVE  i = j
      <3>1. PICK a, b : /\ a = (IF i < k THEN i ELSE i + 1) /\ b = (IF j < k THEN j ELSE j + 1)
        OBVIOUS
      <3>2. a \in 1 .. Len(tables) /\ b \in 1 .. Len(tables)
        BY <1>1, <3>1
      <3>3. tables[a].guid = tables[b].guid
        BY <2>2, <2>4, <3>1
      <3>4. a = b
        BY <1>1, <3>2, <3>3
      <3>5. QED
        BY <1>1, <3>1, <3>4
    <2>5. QED
      BY <2>2, <2>3, <2>4 DEF TablesOK, TablesDistinct
  <1>4. ASSUME NEW t \in Tables, AddTable(g, t) PROVE TablesOK'
    <2>1. CASE tables' = tables
      BY <2>1 DEF TablesOK, TablesDistinct
    <2>2. CASE tables' = Append(tables, [guid |-> g, table |-> t])
      <3>1. [guid |-> g, table |-> t] \in Table
        BY DEF Table
      <3>2. PICK n \in Nat : n = Len(tables)
        BY <1>1
      <3>3. /\ tables' \in Seq(Table) /\ DOMAIN tables' = 1 .. n + 1
            /\ tables'[n + 1].guid = g /\ \A j \in 1 .. n : tables'[j] = tables[j]
        BY <1>1, <2>2, <3>1, <3>2
      <3>4. \A j \in 1 .. n : tables[j].guid # g
        BY <1>1, <1>4, <3>2 DEF AddTable, TableIndex
      <3>5. \A j \in 1 .. n + 1 : j \in 1 .. n \/ j = n + 1
        BY <3>2
      <3>6. ASSUME NEW i \in 1 .. n + 1, NEW j \in 1 .. n + 1,
                   tables'[i].guid = tables'[j].guid
            PROVE  i = j
        BY <1>1, <3>2, <3>3, <3>4, <3>5, <3>6
      <3>7. QED
        BY <3>3, <3>6 DEF TablesOK, TablesDistinct
    <2>3. QED
      BY <1>4, <2>1, <2>2 DEF AddTable
  <1>5. QED
    BY <1>2, <1>3, <1>4

(* SmmInstallConfigurationTable: a GUID keeps one table.                   *)
LEMMA TableSmmInv ==
  ASSUME SmmInv, SmmInstallConfigurationTable
  PROVE  SmmInv'
  <1>1. UNCHANGED << dbvars, locatevars, functions, running, freedRead, due, told >>
    BY DEF SmmInstallConfigurationTable, DatabaseUnchanged, NotifyingUnchanged
  <1>2. TablesOK'
    BY TablesStep DEF SmmInv, SmmInstallConfigurationTable
  <1>3. QED
    BY <1>1, <1>2, SameDatabase

(* A lookup moves the position of a registration at most.                  *)
LEMMA DeliverKeeps ==
  ASSUME TypeOK, Links, Walks, NEW s \in Searches, NEW steps,
         steps => s[1] = ByRegisterNotify /\ Searching(s[1], s[2]).list # << >>,
         Deliver(s[1], s[2], steps)
  PROVE  /\ UNCHANGED << prot, openListCount >> /\ Registered' = Registered
         /\ \A r \in Registered : notify'[r].protocol = notify[r].protocol
  <1>1. UNCHANGED << prot, openListCount >>
    BY DEF Deliver
  <1>2. CASE ~steps
    <2>1. notify' = notify
      BY <1>2 DEF Deliver
    <2>2. QED
      BY <1>1, <2>1 DEF Registered
  <1>3. CASE steps
    <2>1. PICK r \in Registered : s[1] = ByRegisterNotify /\ s[2] = r
      BY <1>3, SearchKeys DEF SearchKey, AllHandles, ByProtocol, ByRegisterNotify
    <2>2. HasNext(r)
      BY <1>3, <2>1 DEF Searching, CoreGetNextLocateByRegisterNotify, AllHandles, ByProtocol,
                        ByRegisterNotify
    <2>3. PICK x : x = NextInterface(r)
      OBVIOUS
    <2>4. x \in Prots
      BY <2>2, <2>3, NextType
    <2>5. notify[r] \in ProtocolNotify /\ r \in Registrations
      BY DEF Registered, TypeOK
    <2>6. [notify[r] EXCEPT !.position = x] \in ProtocolNotify
          /\ [notify[r] EXCEPT !.position = x].protocol = notify[r].protocol
      BY <2>4, <2>5 DEF ProtocolNotify
    <2>7. notify' = [notify EXCEPT ![r].position = x]
      BY <1>3, <2>1, <2>3 DEF Deliver
    <2>8. \A q \in Registrations : notify'[q] = IF q = r THEN [notify[r] EXCEPT !.position = x]
                                                ELSE notify[q]
      BY <2>5, <2>7 DEF TypeOK
    <2>9. QED
      BY <1>1, <2>5, <2>6, <2>8, FreeMemoryAssumption DEF Registered
  <1>4. QED
    BY <1>2, <1>3

LEMMA LookupSmmInv ==
  ASSUME SmmInv, SmmLookups
  PROVE  SmmInv'
  <1>1. PICK s \in Searches : \/ \E room \in Rooms : CoreLocateHandle(s[1], s[2], room)
                              \/ CoreLocateHandleBuffer(s[1], s[2])
                              \/ CoreLocateProtocol(s[1], s[2])
    BY DEF SmmLookups, SmmLocateHandle, SmmLocateHandleBuffer, SmmLocateProtocol
  <1>2. LocateInv'
    <2>1. Lookups
      BY <1>1 DEF SmmLookups, Lookups
    <2>2. QED
      BY <2>1, NextLocateInv DEF SmmInv
  <1>3. TypeOK /\ Links /\ Walks
    BY DEF SmmInv, LocateInv, Before, IInv
  <1>4. ASSUME NEW room, CoreLocateHandle(s[1], s[2], room)
        PROVE  /\ UNCHANGED << prot, openListCount >> /\ Registered' = Registered
               /\ \A r \in Registered : notify'[r].protocol = notify[r].protocol
    <2>1. PICK steps : steps = StepsOn(s[1], Status(Searching(s[1], s[2]).list, room))
      OBVIOUS
    <2>2. Deliver(s[1], s[2], steps)
      BY <1>4, <2>1 DEF CoreLocateHandle
    <2>3. steps => s[1] = ByRegisterNotify /\ Searching(s[1], s[2]).list # << >>
      BY <2>1 DEF StepsOn, Status
    <2>4. QED
      BY <1>3, <2>2, <2>3, DeliverKeeps
  <1>5. /\ UNCHANGED << prot, openListCount >> /\ Registered' = Registered
        /\ \A r \in Registered : notify'[r].protocol = notify[r].protocol
    <2>1. CASE CoreLocateProtocol(s[1], s[2])
      <3>1. PICK steps : steps = (s[1] = ByRegisterNotify /\ Searching(s[1], s[2]).list # << >>)
        OBVIOUS
      <3>2. Deliver(s[1], s[2], steps)
        BY <2>1, <3>1 DEF CoreLocateProtocol
      <3>3. QED
        BY <1>3, <3>1, <3>2, DeliverKeeps
    <2>2. CASE UNCHANGED dbvars
      BY <2>2 DEF dbvars, Registered
    <2>3. QED
      BY <1>1, <1>4, <2>1, <2>2 DEF CoreLocateHandleBuffer
  <1>6. UNCHANGED << functions, running, freedRead, due, told, tables >>
    BY DEF SmmLookups, TableUnchanged, NotifyingUnchanged
  <1>7. TablesOK'
    BY <1>6 DEF SmmInv, TablesOK, TablesDistinct
  <1>8. QED
    BY <1>2, <1>5, <1>6, <1>7, KeptSmmInv

-----------------------------------------------------------------------------
(* A function returns: the next one is told, or the call ends.             *)

(* Nothing of the database or of the lists changes.                        *)
LEMMA ReturnKeeps ==
  ASSUME SmmInv, NotifyReturns
  PROVE  /\ LocateInv' /\ NoOpens' /\ FunctionsOK' /\ TablesOK'
         /\ Registered' = Registered /\ Allocated' = Allocated
         /\ \A f \in Frame : /\ FunctionsFor(f)' = FunctionsFor(f)
                             /\ StillToTell(f)' = StillToTell(f)
  <1>1. UNCHANGED << dbvars, locatevars, functions, tables >>
    BY DEF NotifyReturns, TableUnchanged
  <1>2. LocateInv'
    BY <1>1, NextLocateInv DEF SmmInv
  <1>3. UNCHANGED << prot, openListCount, notify >>
    BY <1>1 DEF dbvars
  <1>4. NoOpens' /\ FunctionsOK' /\ TablesOK' /\ Registered' = Registered /\ Allocated' = Allocated
    BY <1>1, <1>3 DEF SmmInv, NoOpens, FunctionsOK, FunctionsLive, TablesOK, TablesDistinct,
                      Registered, Allocated
  <1>5. \A f \in Frame : /\ FunctionsFor(f)' = FunctionsFor(f)
                         /\ StillToTell(f)' = StillToTell(f)
    BY <1>1, <1>3 DEF FunctionsFor, StillToTell
  <1>6. QED
    BY <1>2, <1>4, <1>5

LEMMA ReturnSmmInv ==
  ASSUME SmmInv, NotifyReturns
  PROVE  SmmInv'
  <1>1. /\ LocateInv' /\ NoOpens' /\ FunctionsOK' /\ TablesOK'
        /\ Registered' = Registered /\ Allocated' = Allocated
        /\ \A f \in Frame : /\ FunctionsFor(f)' = FunctionsFor(f)
                            /\ StillToTell(f)' = StillToTell(f)
    BY ReturnKeeps
  <1>2. PICK rest, f : rest = SubSeq(running, 1, Len(running) - 1) /\ f = Last(running)
    OBVIOUS
  <1>3. PICK next \in Successors(f) :
          /\ running' = IF next = ListHead THEN rest
                        ELSE Append(rest, [f EXCEPT !.link = next])
          /\ freedRead' = freedRead \cup FreedReads(f, next)
          /\ IF next \in Registrations /\ f.prot # NULL
               THEN Tell(next, f.prot) ELSE UNCHANGED << due, told >>
    BY <1>2 DEF NotifyReturns
  <1>4. PICK list, k : list = FunctionsFor(f) /\ k = IndexOf(list, f.link)
    OBVIOUS
  <1>5. /\ f \in Frame /\ rest \in Stack /\ Active = ToSet(rest) \cup {f}
        /\ \A e \in ToSet(rest) : e.prot \in Prots => e.prot # f.prot
    <2>1. running \in Stack /\ running # << >>
      BY DEF SmmInv, Frames, NotifyReturns
    <2>2. PICK s \in Stack : s = running
      BY <2>1
    <2>3. QED
      BY <1>2, <2>1, <2>2, PopFrame DEF Active
  <1>6. /\ list \in Seq(Registrations) /\ IsInjective(list)
        /\ ToSet(list) \subseteq Registered /\ ToSet(list) \subseteq Registrations
        /\ f.prot # NULL => f.prot \in Allocated /\ f.prot \in Prots
        /\ f.link # NULL => f.link \in ToSet(list)
        /\ freedRead = {} /\ f.prot # NULL /\ f.link # NULL =>
             \A r \in Registrations : r \in StillToTell(f) => told[<< r, f.prot >>] = 0
    BY <1>4, <1>5, ActiveFrame DEF Registered
  <1>7. StillToTell(f) = AheadOf(list, f.link)
    BY <1>4 DEF StillToTell
  <1>8. \A e \in ToSet(rest) : e \in Frame /\ FrameOK(e)
    BY <1>5 DEF SmmInv, Frames, Stack, ToSet
  <1>9. ASSUME freedRead' = {}
        PROVE  /\ freedRead = {} /\ f.link # NULL /\ next # NULL
               /\ next # ListHead => f.prot # NULL
    BY <1>3, <1>9 DEF FreedReads
  <1>10. f.link # NULL => next = IF k = Len(list) THEN ListHead ELSE list[k + 1]
    BY <1>3, <1>4 DEF Successors, FunctionsFor
  <1>11. CASE next = ListHead
    <2>1. running' = rest /\ UNCHANGED << due, told >>
      BY <1>3, <1>11, RegistrationsAssumption
    <2>2. freedRead' = {} => StillToTell(f) = {}
      <3>1. SUFFICES ASSUME freedRead' = {} PROVE AheadOf(list, f.link) = {}
        BY <1>7
      <3>2. f.link \in ToSet(list)
        BY <1>6, <1>9, <3>1
      <3>3. k = Len(list)
        <4>1. SUFFICES ASSUME k # Len(list) PROVE FALSE
          OBVIOUS
        <4>2. list[k + 1] \in ToSet(list)
          BY <1>4, <1>6, <3>2, <4>1, AheadOfNext
        <4>3. QED
          BY <1>6, <1>9, <1>10, <1>11, <3>1, <4>1, <4>2, RegistrationsAssumption
      <3>4. QED
        BY <1>4, <1>6, <3>2, <3>3, AheadOfNext
    <2>3. Active' = ToSet(rest)
      BY <2>1 DEF Active
    <2>4. Frames'
      BY <1>1, <1>5, <1>8, <1>9, <2>1, <2>3 DEF Frames, FrameOK
    <2>5. Told'
      BY <1>1, <1>9, <2>1 DEF SmmInv, Told
    <2>6. Due'
      BY <1>1, <1>5, <1>9, <2>1, <2>2, <2>3 DEF SmmInv, Due
    <2>7. QED
      BY <1>1, <2>4, <2>5, <2>6 DEF SmmInv
  <1>12. CASE next # ListHead
    <2>1. PICK new : new = [f EXCEPT !.link = next]
      OBVIOUS
    <2>2. next \in ToSet(list) \cup {NULL}
      <3>1. CASE f.link = NULL
        BY <1>3, <1>4, <1>12, <3>1 DEF Successors, FunctionsFor
      <3>2. CASE f.link # NULL
        <4>1. k # Len(list) /\ next = list[k + 1] /\ f.link \in ToSet(list)
          BY <1>6, <1>10, <1>12, <3>2
        <4>2. QED
          BY <1>4, <1>6, <4>1, AheadOfNext
      <3>3. QED
        BY <3>1, <3>2
    <2>3. new \in Frame /\ new.prot = f.prot /\ new.link = next /\ new.entry = f.entry
      BY <1>5, <1>6, <2>1, <2>2 DEF Frame
    <2>4. FunctionsFor(new) = list /\ StillToTell(new) = AheadOf(list, next)
      BY <1>4, <2>3 DEF FunctionsFor, StillToTell
    <2>5. running' \in Stack /\ Active' = ToSet(rest) \cup {new}
      <3>1. running' = Append(rest, new)
        BY <1>3, <1>12, <2>1
      <3>2. \A e \in ToSet(rest) : new.prot \in Prots => e.prot # new.prot
        BY <1>5, <2>3
      <3>3. QED
        BY <1>5, <2>3, <3>1, <3>2, PushFrame DEF Active
    <2>6. /\ told \in [Registrations \X Prots -> {0, 1, 2}]
          /\ told' \in [Registrations \X Prots -> {0, 1, 2}]
          /\ due' \subseteq due
          /\ \A r \in Registrations, i \in Prots :
               r # next \/ i # f.prot => told'[<< r, i >>] = told[<< r, i >>]
      BY <1>3 DEF SmmInv, Told, Tell
    <2>7. ASSUME freedRead' = {}
          PROVE  /\ freedRead = {} /\ next \in Registrations /\ next \in Registered
                 /\ f.prot \in Prots /\ f.prot \in Allocated
                 /\ told[<< next, f.prot >>] = 0 /\ told'[<< next, f.prot >>] = 1
                 /\ due' = due \ {<< next, f.prot >>}
                 /\ next \in StillToTell(f) /\ StillToTell(new) = StillToTell(f) \ {next}
                 /\ \A r \in Registrations :
                      r \in StillToTell(f) => told[<< r, f.prot >>] = 0
      <3>1. /\ freedRead = {} /\ f.link # NULL /\ f.prot # NULL
            /\ f.link \in ToSet(list) /\ next \in ToSet(list)
        BY <1>6, <1>9, <1>12, <2>2, <2>7
      <3>2. k # Len(list) /\ next = list[k + 1]
        BY <1>10, <1>12, <3>1
      <3>3. next \in StillToTell(f) /\ StillToTell(new) = StillToTell(f) \ {next}
        BY <1>4, <1>6, <1>7, <2>4, <3>1, <3>2, AheadOfNext
      <3>4. next \in Registrations /\ next \in Registered
        BY <1>6, <3>1
      <3>5. told[<< next, f.prot >>] = 0 /\ f.prot \in Prots /\ f.prot \in Allocated
        BY <1>6, <3>1, <3>3, <3>4
      <3>6. Tell(next, f.prot)
        BY <1>3, <3>1, <3>4
      <3>7. told'[<< next, f.prot >>] = 1
        BY <2>6, <3>4, <3>5, <3>6 DEF Tell
      <3>8. QED
        BY <1>6, <3>1, <3>3, <3>4, <3>5, <3>6, <3>7 DEF Tell
    <2>8. Told'
      <3>1. ASSUME freedRead' = {}, NEW r \in Registrations, NEW i \in Prots
            PROVE  /\ told'[<< r, i >>] # 2
                   /\ told'[<< r, i >>] = 1 => r \in Registered /\ i \in Allocated
        <4>1. CASE r = next /\ i = f.prot
          BY <2>7, <3>1, <4>1
        <4>2. CASE r # next \/ i # f.prot
          BY <2>6, <2>7, <3>1, <4>2 DEF SmmInv, Told
        <4>3. QED
          BY <4>1, <4>2
      <3>2. QED
        BY <1>1, <2>6, <3>1 DEF Told
    <2>9. ASSUME NEW e \in ToSet(rest) PROVE FrameOK(e)'
      <3>1. /\ e \in Frame /\ FrameOK(e) /\ e.prot \in Prots \cup {NULL}
            /\ e.prot \in Prots => e.prot # f.prot
        BY <1>5, <1>8, <2>9 DEF Frame
      <3>2. \A r \in Registrations :
              e.prot # NULL => told'[<< r, e.prot >>] = told[<< r, e.prot >>]
        BY <2>6, <3>1
      <3>3. QED
        BY <1>1, <1>9, <3>1, <3>2 DEF FrameOK
    <2>10. FrameOK(new)'
      <3>1. new.prot # NULL => new.prot \in Allocated'
        BY <1>1, <1>6, <2>3
      <3>2. new.link # NULL => new.link \in ToSet(FunctionsFor(new)')
        BY <1>1, <2>2, <2>3, <2>4
      <3>3. ASSUME freedRead' = {}, NEW r \in Registrations, r \in StillToTell(new)'
            PROVE  told'[<< r, new.prot >>] = 0
        <4>1. r \in StillToTell(f) /\ r # next
          BY <1>1, <2>3, <2>7, <3>3
        <4>2. QED
          BY <2>3, <2>6, <2>7, <3>3, <4>1
      <3>4. QED
        BY <3>1, <3>2, <3>3 DEF FrameOK
    <2>11. Frames'
      BY <2>5, <2>9, <2>10 DEF Frames
    <2>12. Due'
      <3>1. ASSUME freedRead' = {}, NEW r \in Registrations, NEW i \in Prots, << r, i >> \in due'
            PROVE  \E e \in Frame : /\ e \in Active' /\ e.prot = i
                                    /\ e.link # NULL => r \in StillToTell(e)'
        <4>1. << r, i >> \in due /\ ~(r = next /\ i = f.prot) /\ freedRead = {}
          BY <2>7, <3>1
        <4>2. PICK e \in Frame : /\ e \in Active /\ e.prot = i
                                 /\ e.link # NULL => r \in StillToTell(e)
          BY <4>1 DEF SmmInv, Due
        <4>3. CASE e = f
          <5>1. r \in StillToTell(new)
            BY <1>9, <2>7, <3>1, <4>1, <4>2, <4>3
          <5>2. QED
            BY <1>1, <2>3, <2>5, <4>2, <4>3, <5>1
        <4>4. CASE e # f
          BY <1>1, <1>5, <2>5, <4>2, <4>4
        <4>5. QED
          BY <4>3, <4>4
      <3>2. due' \subseteq Registrations \X Prots
        BY <2>6 DEF SmmInv, Due
      <3>3. QED
        BY <3>1, <3>2 DEF Due
    <2>13. QED
      BY <1>1, <2>8, <2>11, <2>12 DEF SmmInv
  <1>13. QED
    BY <1>11, <1>12

-----------------------------------------------------------------------------
(* SmmInstallProtocolInterface: the functions registered for the GUID are  *)
(* told of the new interface, which nobody had been told of.               *)
LEMMA InstallSmmInv ==
  ASSUME SmmInv, SmmInstallProtocolInterface
  PROVE  SmmInv'
  <1>1. PICK h \in Handles, g \in Protocols, x \in Interfaces, i \in Prots :
          /\ SmmHandleProtocol(h, g) = {} /\ LinkInterface(h, g, x, i)
          /\ HandlesCreated /\ SmmNotifyProtocol(i, g) /\ UNCHANGED functions
          /\ TableUnchanged
    BY DEF SmmInstallProtocolInterface
  <1>2. LocateInv'
    <2>1. AddInterface(h, g, x, i)
      BY <1>1 DEF AddInterface, SmmHandleProtocol, SmmGetProtocolInterface
    <2>2. Changes
      BY <1>1, <2>1 DEF Changes, DBNext
    <2>3. QED
      BY <2>2, NextLocateInv DEF SmmInv
  <1>3. /\ TypeOK /\ i \notin Allocated
        /\ prot' = [prot EXCEPT ![i] = [handle |-> h, protocol |-> g, interface |-> x]]
        /\ openListCount' = [openListCount EXCEPT ![i] = 0]
        /\ notify' = notify /\ functions' = functions /\ tables' = tables
    BY <1>1 DEF SmmInv, LocateInv, Before, IInv, LinkInterface, Allocated, TableUnchanged
  <1>4. /\ \A j \in Allocated : prot'[j] = prot[j] /\ j # i
        /\ prot'[i].protocol = g /\ Allocated' = Allocated \cup {i}
        /\ Registered' = Registered
    BY <1>3, FreeMemoryAssumption DEF TypeOK, Allocated, ProtocolInterface, Registered
  <1>5. NoOpens' /\ FunctionsOK' /\ TablesOK'
    BY <1>3, <1>4 DEF SmmInv, NoOpens, TypeOK, FunctionsOK, FunctionsLive, TablesOK,
                      TablesDistinct
  <1>6. ASSUME NEW f \in Frame, f \in Active
        PROVE  /\ f.prot # NULL => f.prot \in Allocated
               /\ f.prot # i /\ FrameOK(f)
               /\ FunctionsFor(f)' = FunctionsFor(f) /\ StillToTell(f)' = StillToTell(f)
    <2>1. FrameOK(f) /\ (f.prot # NULL => f.prot \in Allocated) /\ i # NULL
      BY <1>6, RegistrationsAssumption DEF SmmInv, Frames, FrameOK
    <2>2. QED
      BY <1>3, <1>4, <2>1 DEF FunctionsFor, StillToTell
  <1>7. freedRead = {} => \A r \in Registrations : told[<< r, i >>] = 0
    BY <1>3 DEF SmmInv, Told
  <1>8. CASE functions[g] = << >>
    <2>1. UNCHANGED << running, freedRead, due, told >> /\ Active' = Active
      BY <1>1, <1>8 DEF SmmNotifyProtocol, NotifyingUnchanged, Active
    <2>2. Frames'
      BY <1>4, <1>6, <2>1 DEF SmmInv, Frames, FrameOK
    <2>3. Told'
      BY <1>4, <2>1 DEF SmmInv, Told
    <2>4. Due'
      BY <1>6, <2>1 DEF SmmInv, Due
    <2>5. QED
      BY <1>2, <1>5, <2>2, <2>3, <2>4 DEF SmmInv
  <1>9. CASE functions[g] # << >>
    <2>1. PICK list, new : list = functions[g] /\ new = [prot |-> i, entry |-> g, link |-> list[1]]
      OBVIOUS
    <2>2. /\ running' = Append(running, new)
          /\ told' = [told EXCEPT ![<< list[1], i >>] = IF @ = 2 THEN 2 ELSE @ + 1]
          /\ due' = due \cup { << list[k], i >> : k \in 2 .. Len(list) }
          /\ freedRead' = freedRead
      BY <1>1, <1>9, <2>1 DEF SmmNotifyProtocol
    <2>3. /\ list \in Seq(Registrations) /\ IsInjective(list) /\ list # << >>
          /\ ToSet(list) \subseteq Registered
      BY <1>9, <2>1 DEF SmmInv, FunctionsOK, FunctionsLive
    <2>4. /\ list[1] \in ToSet(list) /\ list[1] \notin AheadOf(list, list[1])
          /\ AheadOf(list, list[1]) = { list[k] : k \in 2 .. Len(list) }
      BY <2>3, AheadOfFirst
    <2>5. list[1] \in Registered /\ list[1] \in Registrations
      BY <2>3, <2>4 DEF Registered
    <2>6. new \in Frame /\ new.prot = i /\ new.link = list[1] /\ new.entry = g
      BY <2>1, <2>5 DEF Frame
    <2>7. FunctionsFor(new)' = list /\ StillToTell(new)' = AheadOf(list, list[1])
      BY <1>3, <2>1, <2>6 DEF FunctionsFor, StillToTell
    <2>8. running' \in Stack /\ Active' = Active \cup {new}
      <3>1. running \in Stack
        BY DEF SmmInv, Frames
      <3>2. \A e \in ToSet(running) : e \in Frame
        BY <3>1 DEF Stack, ToSet
      <3>3. \A e \in ToSet(running) : e.prot # new.prot
        BY <1>6, <2>6, <3>2 DEF Active
      <3>4. QED
        BY <2>2, <2>6, <3>1, <3>3, PushFrame DEF Active
    <2>9. /\ told \in [Registrations \X Prots -> {0, 1, 2}]
          /\ told' \in [Registrations \X Prots -> {0, 1, 2}]
          /\ \A r \in Registrations, j \in Prots :
               r # list[1] \/ j # i => told'[<< r, j >>] = told[<< r, j >>]
          /\ freedRead = {} => told'[<< list[1], i >>] = 1
      <3>1. told \in [Registrations \X Prots -> {0, 1, 2}]
        BY DEF SmmInv, Told
      <3>2. freedRead = {} => told[<< list[1], i >>] = 0
        BY <1>7, <2>5
      <3>3. QED
        BY <2>2, <2>5, <3>1, <3>2
    <2>10. Told'
      <3>1. ASSUME freedRead = {}, NEW r \in Registrations, NEW j \in Prots
            PROVE  /\ told'[<< r, j >>] # 2
                   /\ told'[<< r, j >>] = 1 => r \in Registered' /\ j \in Allocated'
        <4>1. CASE r = list[1] /\ j = i
          BY <1>4, <2>5, <2>9, <3>1, <4>1
        <4>2. CASE r # list[1] \/ j # i
          BY <1>4, <2>9, <3>1, <4>2 DEF SmmInv, Told
        <4>3. QED
          BY <4>1, <4>2
      <3>2. QED
        BY <2>2, <2>9, <3>1 DEF Told
    <2>11. ASSUME NEW f \in Frame, f \in Active PROVE FrameOK(f)'
      <3>1. f.prot \in Prots \cup {NULL} /\ f.prot # i
        BY <1>6, <2>11 DEF Frame
      <3>2. \A r \in Registrations :
              f.prot # NULL => told'[<< r, f.prot >>] = told[<< r, f.prot >>]
        BY <2>9, <3>1
      <3>3. QED
        BY <1>4, <1>6, <2>2, <2>11, <3>2 DEF FrameOK
    <2>12. FrameOK(new)'
      <3>1. \A r \in Registrations : freedRead = {} /\ r # list[1] => told'[<< r, i >>] = 0
        BY <1>7, <2>9
      <3>2. QED
        BY <1>4, <2>2, <2>4, <2>6, <2>7, <3>1 DEF FrameOK
    <2>13. Frames'
      BY <2>8, <2>11, <2>12 DEF Frames
    <2>14. Due'
      <3>1. ASSUME freedRead' = {}, NEW r \in Registrations, NEW j \in Prots, << r, j >> \in due'
            PROVE  \E e \in Frame : /\ e \in Active' /\ e.prot = j
                                    /\ e.link # NULL => r \in StillToTell(e)'
        <4>1. CASE << r, j >> \in due
          <5>1. PICK e \in Frame : /\ e \in Active /\ e.prot = j
                                   /\ e.link # NULL => r \in StillToTell(e)
            BY <2>2, <3>1, <4>1 DEF SmmInv, Due
          <5>2. QED
            BY <1>6, <2>8, <5>1
        <4>2. CASE << r, j >> \notin due
          <5>1. r \in { list[k] : k \in 2 .. Len(list) } /\ j = i
            BY <2>2, <3>1, <4>2
          <5>2. QED
            BY <2>4, <2>6, <2>7, <2>8, <5>1
        <4>3. QED
          BY <4>1, <4>2
      <3>2. due' \subseteq Registrations \X Prots
        <4>1. { list[k] : k \in 2 .. Len(list) } \subseteq Registrations
          BY <2>3
        <4>2. due \subseteq Registrations \X Prots
          BY DEF SmmInv, Due
        <4>3. QED
          BY <2>2, <4>1, <4>2
      <3>3. QED
        BY <3>1, <3>2 DEF Due
    <2>15. QED
      BY <1>2, <1>5, <2>10, <2>13, <2>14 DEF SmmInv
  <1>10. QED
    BY <1>8, <1>9

-----------------------------------------------------------------------------
(* SmmUninstallProtocolInterface: the interface leaves the database with   *)
(* what has been told of it; a call about it goes on without it.           *)
LEMMA UninstallSmmInv ==
  ASSUME SmmInv, SmmUninstallProtocolInterface
  PROVE  SmmInv'
  <1>1. PICK h, g, x, i :
          /\ h \in Handles /\ g \in Protocols /\ x \in Interfaces
          /\ i \in SmmFindProtocolInterface(h, g, x)
          /\ SmmRemoveInterfaceFromProtocol(i)
          /\ handleProtocols' = [handleProtocols EXCEPT ![h] = @ \ {i}]
          /\ prot' = [prot EXCEPT ![i] = NULL]
          /\ handles' = IF LastInterface(i) THEN handles \ {h} ELSE handles
          /\ HandlesCreated
          /\ UNCHANGED << entries, openList, openListCount >>
          /\ told' = [y \in DOMAIN told |-> IF y[2] = i THEN 0 ELSE told[y]]
          /\ due' = { y \in due : y[2] # i }
          /\ InterfaceFreed(i)
          /\ UNCHANGED << functions, freedRead >>
          /\ TableUnchanged
    BY DEF SmmUninstallProtocolInterface
  <1>2. TypeOK /\ Links
    BY DEF SmmInv, LocateInv, Before, IInv
  <1>3. i \in Allocated /\ i \in Prots /\ prot[i].handle = h
    <2>1. h \in Handles /\ i \in handleProtocols[h]
      BY <1>1 DEF SmmFindProtocolInterface, Find, Lookup
    <2>2. QED
      BY <1>2, <2>1 DEF Links, ListsAgree, Allocated
  <1>4. LocateInv'
    <2>1. RemoveInterface(i)
      BY <1>1, <1>3 DEF SmmInv, NoOpens, RemoveInterface, UnlinkInterface,
                        SmmRemoveInterfaceFromProtocol
    <2>2. Changes
      BY <1>1, <1>3, <2>1 DEF Changes, DBNext
    <2>3. QED
      BY <2>2, NextLocateInv DEF SmmInv
  <1>5. /\ Allocated' = Allocated \ {i}
        /\ \A j \in Prots \ {i} : prot'[j] = prot[j]
    BY <1>1, <1>2, <1>3 DEF TypeOK, Allocated
  <1>6. /\ Registered' = Registered
        /\ \A r \in Registered : notify'[r].protocol = notify[r].protocol
    <2>1. notify' \in [Registrations -> ProtocolNotify \cup {NULL}]
      BY <1>4 DEF LocateInv, Before, IInv, TypeOK
    <2>2. BackUpPositions(i)
      BY <1>1 DEF SmmRemoveInterfaceFromProtocol
    <2>3. PICK back : back = BackLink(byProtocol[prot[i].protocol], i)
      OBVIOUS
    <2>4. back \in Prots \cup {ListHead}
      <3>1. PICK s : s = byProtocol[prot[i].protocol]
        OBVIOUS
      <3>2. s \in Seq(Prots) /\ IsInjective(s) /\ i \in ToSet(s)
        BY <1>2, <1>3, <3>1 DEF TypeOK, Allocated, ProtocolInterface, Links, ListsAgree
      <3>3. IndexOf(s, i) \in 1 .. Len(s)
        BY <3>2, IndexOfElement
      <3>4. QED
        BY <2>3, <3>1, <3>2, <3>3 DEF BackLink
    <2>5. ASSUME NEW r \in Registered
          PROVE  /\ notify[r] \in ProtocolNotify /\ r \in Registrations
                 /\ [notify[r] EXCEPT !.position = back] \in ProtocolNotify
                 /\ [notify[r] EXCEPT !.position = back].protocol = notify[r].protocol
      <3>1. notify[r] \in ProtocolNotify /\ r \in Registrations
        BY <1>2 DEF Registered, TypeOK
      <3>2. QED
        BY <2>4, <3>1 DEF ProtocolNotify
    <2>6. \A r \in Registrations :
            \/ notify'[r] = notify[r]
            \/ r \in Registered /\ notify'[r] = [notify[r] EXCEPT !.position = back]
      BY <2>2, <2>3 DEF BackUpPositions
    <2>7. ASSUME NEW r \in Registered
          PROVE  notify'[r] # NULL /\ notify'[r].protocol = notify[r].protocol
      <3>1. notify'[r] \in ProtocolNotify /\ notify'[r].protocol = notify[r].protocol
        BY <2>5, <2>6
      <3>2. QED
        BY <3>1, FreeMemoryAssumption
    <2>8. \A r \in Registrations : r \notin Registered => notify'[r] = NULL
      BY <2>6 DEF Registered
    <2>9. QED
      BY <2>7, <2>8 DEF Registered
  <1>7. NoOpens' /\ FunctionsOK' /\ TablesOK'
    <2>1. \A q \in Protocols : { r \in Registered' : notify'[r].protocol = q }
                                 = { r \in Registered : notify[r].protocol = q }
      BY <1>6
    <2>2. FunctionsOK'
      BY <1>1, <2>1 DEF SmmInv, FunctionsOK, FunctionsLive
    <2>3. QED
      BY <1>1, <2>2 DEF SmmInv, NoOpens, TablesOK, TablesDistinct, TableUnchanged
  <1>8. PICK new : new = [f \in Frame |-> IF f.prot = i THEN [f EXCEPT !.prot = NULL] ELSE f]
    OBVIOUS
  <1>9. /\ new \in [Frame -> Frame]
        /\ \A f \in Frame : /\ new[f].entry = f.entry /\ new[f].link = f.link
                            /\ new[f].prot = IF f.prot = i THEN NULL ELSE f.prot
    BY <1>8 DEF Frame
  <1>10. running' \in Stack /\ Active' = { new[f] : f \in Active }
    <2>1. running \in Stack
      BY DEF SmmInv, Frames
    <2>2. \A k \in DOMAIN running : running[k] \in Frame
      BY <2>1 DEF Stack
    <2>3. running' = [k \in DOMAIN running |-> new[running[k]]]
      BY <1>1, <1>8, <2>2 DEF InterfaceFreed
    <2>4. PICK s \in Stack : s = running
      BY <2>1
    <2>5. running' \in Stack /\ ToSet(running') = { new[f] : f \in ToSet(s) }
      BY <1>9, <2>3, <2>4, FreedFrames
    <2>6. QED
      BY <2>4, <2>5 DEF Active
  <1>11. /\ told \in [Registrations \X Prots -> {0, 1, 2}]
         /\ told' \in [Registrations \X Prots -> {0, 1, 2}]
         /\ \A r \in Registrations, j \in Prots :
              told'[<< r, j >>] = IF j = i THEN 0 ELSE told[<< r, j >>]
    <2>1. told \in [Registrations \X Prots -> {0, 1, 2}]
      BY DEF SmmInv, Told
    <2>2. told' = [y \in Registrations \X Prots |-> IF y[2] = i THEN 0 ELSE told[y]]
      BY <1>1, <2>1
    <2>3. QED
      BY <2>1, <2>2
  <1>12. Told'
    BY <1>1, <1>5, <1>6, <1>11 DEF SmmInv, Told
  <1>13. ASSUME NEW f \in Frame, f \in Active
         PROVE  /\ FrameOK(f) /\ f.prot \in Prots \cup {NULL}
                /\ FunctionsFor(new[f])' = FunctionsFor(f)
                /\ StillToTell(new[f])' = StillToTell(f)
    BY <1>1, <1>9, <1>13 DEF SmmInv, Frames, Frame, FunctionsFor, StillToTell
  <1>14. ASSUME NEW f \in Frame, f \in Active PROVE FrameOK(new[f])'
    <2>1. FrameOK(f) /\ f.prot \in Prots \cup {NULL}
      BY <1>13, <1>14
    <2>2. new[f].prot # NULL => new[f].prot = f.prot /\ f.prot # i
      BY <1>9
    <2>3. new[f].prot # NULL => new[f].prot \in Allocated'
      BY <1>5, <2>1, <2>2 DEF FrameOK
    <2>4. new[f].link # NULL => new[f].link \in ToSet(FunctionsFor(new[f])')
      BY <1>9, <1>13, <1>14, <2>1 DEF FrameOK
    <2>5. ASSUME freedRead' = {}, new[f].prot # NULL, new[f].link # NULL,
                 NEW r \in Registrations, r \in StillToTell(new[f])'
          PROVE  told'[<< r, new[f].prot >>] = 0
      <3>1. freedRead = {} /\ f.link # NULL /\ r \in StillToTell(f)
        BY <1>1, <1>9, <1>13, <1>14, <2>5
      <3>2. new[f].prot = f.prot /\ f.prot # NULL /\ f.prot \in Prots
        BY <2>1, <2>2, <2>5
      <3>3. told[<< r, f.prot >>] = 0
        BY <2>1, <3>1, <3>2 DEF FrameOK
      <3>4. QED
        BY <1>11, <3>2, <3>3
    <2>6. QED
      BY <2>3, <2>4, <2>5 DEF FrameOK
  <1>15. Frames'
    BY <1>10, <1>14 DEF Frames, SmmInv, Stack, ToSet, Active
  <1>16. Due'
    <2>1. ASSUME freedRead' = {}, NEW r \in Registrations, NEW j \in Prots, << r, j >> \in due'
          PROVE  \E e \in Frame : /\ e \in Active' /\ e.prot = j
                                  /\ e.link # NULL => r \in StillToTell(e)'
      <3>1. << r, j >> \in due /\ j # i /\ freedRead = {}
        BY <1>1, <2>1
      <3>2. PICK f \in Frame : /\ f \in Active /\ f.prot = j
                               /\ f.link # NULL => r \in StillToTell(f)
        BY <3>1 DEF SmmInv, Due
      <3>3. /\ new[f] \in Frame /\ new[f] \in Active' /\ new[f].prot = j
            /\ new[f].link # NULL => r \in StillToTell(new[f])'
        BY <1>9, <1>10, <1>13, <3>1, <3>2
      <3>4. QED
        BY <3>3
    <2>2. due' \subseteq Registrations \X Prots
      BY <1>1 DEF SmmInv, Due
    <2>3. QED
      BY <2>1, <2>2 DEF Due
  <1>17. QED
    BY <1>4, <1>7, <1>12, <1>15, <1>16 DEF SmmInv

-----------------------------------------------------------------------------
(* Registrations come and go.                                              *)

LEMMA RegistrationsKept ==
  ASSUME LocateInv, UNCHANGED locatevars, entries \subseteq entries', TypeOK', Walks',
         UNCHANGED << handles, handleProtocols, byProtocol, prot, openList, openListCount >>
  PROVE  LocateInv'
  <1>1. Before /\ IInv
    BY DEF LocateInv, Before
  <1>2. Links'
    BY <1>1, LinksUnchanged DEF IInv
  <1>3. Opens' /\ DriverAccess'
    BY <1>1 DEF IInv, Opens, OpenCountsAgree, DistinctIds, DriverAccess, Allocated
  <1>4. MarksOld' /\ Finite' /\ Entered'
    BY <1>1 DEF locatevars, Before, MarksOld, Finite, Entered, Allocated
  <1>5. Exact'
    BY DEF LocateInv, locatevars, Exact, SearchesComplete, ArraysFit, Holders, HandlesWith, Lookup
  <1>6. QED
    BY <1>2, <1>3, <1>4, <1>5 DEF LocateInv, Before, IInv

(* At the end of a list everything on it has been passed.                  *)
LEMMA SeenAll ==
  ASSUME NEW S, NEW s \in Seq(S), IsInjective(s), ListHead \notin S,
         NEW p, p = IF s = << >> THEN ListHead ELSE Last(s)
  PROVE  p \in ToSet(s) \cup {ListHead} /\ UpTo(s, PlaceOf(s, p)) = ToSet(s)
  <1>1. DOMAIN s = 1 .. Len(s) /\ Len(s) \in Nat
    OBVIOUS
  <1>2. CASE s = << >>
    <2>1. p = ListHead /\ ToSet(s) = {} /\ UpTo(s, 0) = {}
      BY <1>2 DEF ToSet, UpTo
    <2>2. QED
      BY <2>1 DEF PlaceOf
  <1>3. CASE s # << >>
    <2>1. Len(s) \in 1 .. Len(s) /\ p = s[Len(s)] /\ p \in S
      BY <1>1, <1>3 DEF Last
    <2>2. p \in ToSet(s) /\ p # ListHead
      BY <1>1, <2>1 DEF ToSet
    <2>3. IndexOf(s, p) = Len(s)
      BY <2>1, <2>2, IndexOfElement
    <2>4. QED
      BY <1>1, <2>2, <2>3 DEF PlaceOf, UpTo, ToSet
  <1>4. QED
    BY <1>2, <1>3

(* SmmRegisterProtocolNotify: a new function is told of what is installed  *)
(* from now on, and after everybody who is still to be told.               *)
LEMMA RegisterSmmInv ==
  ASSUME SmmInv, SmmRegisterProtocolNotify
  PROVE  SmmInv'
  <1>1. PICK g \in Protocols, e \in Events, r \in Registrations :
          /\ notify[r] = NULL
          /\ SmmFindProtocolEntry(g, TRUE)
          /\ notify' = [notify EXCEPT ![r] =
                          [ protocol |-> g, event |-> e,
                            position |-> IF byProtocol[g] = << >> THEN ListHead
                                         ELSE Last(byProtocol[g]) ]]
          /\ delivered' = [delivered EXCEPT ![r] = ToSet(byProtocol[g])]
          /\ functions' = [functions EXCEPT ![g] = Append(@, r)]
          /\ UNCHANGED << handles, handleProtocols, byProtocol, prot, openList,
                          openListCount, running, freedRead, due, told >>
          /\ UNCHANGED locatevars
          /\ TableUnchanged
    BY DEF SmmRegisterProtocolNotify, NotifyingUnchanged
  <1>2. LocateInv /\ TypeOK /\ Links /\ Walks
    BY DEF SmmInv, LocateInv, Before, IInv
  <1>3. PICK p : p = IF byProtocol[g] = << >> THEN ListHead ELSE Last(byProtocol[g])
    OBVIOUS
  <1>4. /\ byProtocol[g] \in Seq(Prots) /\ IsInjective(byProtocol[g])
        /\ ToSet(byProtocol[g]) \subseteq Prots
    BY <1>2 DEF TypeOK, Links, ListsAgree, Allocated
  <1>5. /\ p \in ToSet(byProtocol[g]) \cup {ListHead}
        /\ UpTo(byProtocol[g], PlaceOf(byProtocol[g], p)) = ToSet(byProtocol[g])
    BY <1>3, <1>4, ListHeadAssumption, SeenAll
  <1>6. PICK new : new = [protocol |-> g, event |-> e, position |-> p]
    OBVIOUS
  <1>7. new \in ProtocolNotify /\ new.protocol = g /\ new.position = p
    BY <1>4, <1>5, <1>6 DEF ProtocolNotify
  <1>8. notify' = [notify EXCEPT ![r] = new]
    BY <1>1, <1>3, <1>6
  <1>9. /\ notify'[r] = new /\ delivered'[r] = ToSet(byProtocol[g])
        /\ \A q \in Registrations \ {r} : notify'[q] = notify[q] /\ delivered'[q] = delivered[q]
    BY <1>1, <1>2, <1>8 DEF TypeOK
  <1>10. Registered' = Registered \cup {r} /\ r \notin Registered
    BY <1>1, <1>7, <1>9, FreeMemoryAssumption DEF Registered
  <1>11. LocateInv'
    <2>1. TypeOK'
      <3>1. notify' \in [Registrations -> ProtocolNotify \cup {NULL}]
        BY <1>2, <1>7, <1>8 DEF TypeOK
      <3>2. delivered' \in [Registrations -> SUBSET Prots]
        BY <1>1, <1>2, <1>4 DEF TypeOK
      <3>3. QED
        BY <1>1, <1>2, <3>1, <3>2 DEF TypeOK, SmmFindProtocolEntry
    <2>2. Walks'
      <3>1. byProtocol' = byProtocol
        BY <1>1
      <3>2. ASSUME NEW q \in Registered'
            PROVE  /\ notify'[q].position # ListHead =>
                        notify'[q].position \in ToSet(byProtocol[notify'[q].protocol])
                   /\ delivered'[q] =
                        UpTo(byProtocol[notify'[q].protocol],
                             PlaceOf(byProtocol[notify'[q].protocol], notify'[q].position))
        <4>1. CASE q = r
          BY <1>5, <1>7, <1>9, <4>1
        <4>2. CASE q # r
          <5>1. q \in Registered /\ notify'[q] = notify[q] /\ delivered'[q] = delivered[q]
            BY <1>9, <1>10, <4>2 DEF Registered
          <5>2. QED
            BY <1>2, <5>1 DEF Walks, PositionsLive, DeliveredOnce, PositionIndex
        <4>3. QED
          BY <4>1, <4>2
      <3>3. QED
        BY <3>1, <3>2 DEF Walks, PositionsLive, DeliveredOnce, PositionIndex
    <2>3. entries \subseteq entries'
      BY <1>1 DEF SmmFindProtocolEntry
    <2>4. QED
      BY <1>1, <1>2, <2>1, <2>2, <2>3, RegistrationsKept
  <1>12. /\ functions \in [Protocols -> Seq(Registrations)]
         /\ \A q \in Protocols : /\ ToSet(functions[q]) = { c \in Registered : notify[c].protocol = q }
                                 /\ IsInjective(functions[q])
    BY DEF SmmInv, FunctionsOK, FunctionsLive
  <1>13. /\ functions'[g] = Append(functions[g], r)
         /\ functions' \in [Protocols -> Seq(Registrations)]
         /\ \A q \in Protocols \ {g} : functions'[q] = functions[q]
         /\ \A q \in Protocols : r \notin ToSet(functions[q])
    BY <1>1, <1>10, <1>12
  <1>14. FunctionsOK'
    <2>1. /\ ToSet(functions'[g]) = ToSet(functions[g]) \cup {r}
          /\ IsInjective(functions'[g])
      BY <1>12, <1>13, AppendElement
    <2>2. ASSUME NEW q \in Protocols
          PROVE  /\ ToSet(functions'[q]) = { c \in Registered' : notify'[c].protocol = q }
                 /\ IsInjective(functions'[q])
      <3>1. \A c \in Registered : notify'[c] = notify[c]
        BY <1>9, <1>10 DEF Registered
      <3>2. CASE q = g
        BY <1>7, <1>9, <1>10, <1>12, <2>1, <3>1, <3>2
      <3>3. CASE q # g
        BY <1>7, <1>9, <1>10, <1>12, <1>13, <3>1, <3>3
      <3>4. QED
        BY <3>2, <3>3
    <2>3. QED
      BY <1>13, <2>2 DEF FunctionsOK, FunctionsLive
  <1>15. NoOpens' /\ TablesOK' /\ Allocated' = Allocated /\ Active' = Active
    BY <1>1 DEF SmmInv, NoOpens, TablesOK, TablesDistinct, TableUnchanged, Allocated, Active
  <1>16. freedRead = {} => \A i \in Prots : told[<< r, i >>] = 0
    BY <1>10 DEF SmmInv, Told
  <1>17. ASSUME NEW f \in Frame, f \in Active
         PROVE  /\ FrameOK(f)'
                /\ f.link # NULL => StillToTell(f) \subseteq StillToTell(f)'
    <2>1. PICK q, i, c : /\ q = f.entry /\ i = f.prot /\ c = f.link
      OBVIOUS
    <2>2. /\ q \in Protocols /\ (i # NULL => i \in Allocated /\ i \in Prots)
          /\ c # NULL => c \in ToSet(functions[q])
          /\ freedRead = {} /\ i # NULL /\ c # NULL =>
               \A b \in Registrations : b \in AheadOf(functions[q], c) => told[<< b, i >>] = 0
      BY <1>17, <2>1, ActiveFrame DEF FunctionsFor, StillToTell
    <2>3. /\ FunctionsFor(f)' = functions'[q] /\ StillToTell(f)' = AheadOf(functions'[q], c)
          /\ StillToTell(f) = AheadOf(functions[q], c)
      BY <2>1 DEF FunctionsFor, StillToTell
    <2>4. CASE q # g
      BY <1>1, <1>13, <1>15, <2>1, <2>2, <2>3, <2>4 DEF FrameOK
    <2>5. CASE c = NULL
      BY <1>1, <1>15, <2>1, <2>2, <2>5 DEF FrameOK
    <2>6. CASE q = g /\ c # NULL
      <3>0. PICK list : list = functions[q]
        OBVIOUS
      <3>1. /\ list \in Seq(Registrations) /\ IsInjective(list) /\ r \notin ToSet(list)
            /\ c \in ToSet(list) /\ functions'[q] = Append(list, r)
        BY <1>12, <1>13, <2>2, <2>6, <3>0
      <3>2. /\ AheadOf(functions'[q], c) = AheadOf(functions[q], c) \cup {r}
            /\ ToSet(functions'[q]) = ToSet(functions[q]) \cup {r}
        BY <3>0, <3>1, AheadAppended, AppendElement
      <3>3. QED
        BY <1>1, <1>15, <1>16, <2>1, <2>2, <2>3, <3>2 DEF FrameOK
    <2>7. QED
      BY <2>4, <2>5, <2>6
  <1>18. Frames'
    BY <1>1, <1>15, <1>17 DEF SmmInv, Frames
  <1>19. Told'
    BY <1>1, <1>10, <1>15 DEF SmmInv, Told
  <1>20. Due'
    <2>1. ASSUME freedRead' = {}, NEW b \in Registrations, NEW i \in Prots, << b, i >> \in due'
          PROVE  \E f \in Frame : /\ f \in Active' /\ f.prot = i
                                  /\ f.link # NULL => b \in StillToTell(f)'
      <3>1. PICK f \in Frame : /\ f \in Active /\ f.prot = i
                               /\ f.link # NULL => b \in StillToTell(f)
        BY <1>1, <2>1 DEF SmmInv, Due
      <3>2. QED
        BY <1>15, <1>17, <3>1
    <2>2. QED
      BY <1>1, <2>1 DEF SmmInv, Due
  <1>21. QED
    BY <1>11, <1>14, <1>15, <1>18, <1>19, <1>20 DEF SmmInv

(* SmmUnregisterProtocolNotify: a function leaves the list and is due to   *)
(* be told nothing any more; a call that stood on it has lost its place.   *)
LEMMA UnregisterSmmInv ==
  ASSUME SmmInv, SmmUnregisterProtocolNotify
  PROVE  SmmInv'
  <1>1. PICK r \in Registered :
          /\ notify' = [notify EXCEPT ![r] = NULL]
          /\ delivered' = [delivered EXCEPT ![r] = {}]
          /\ functions' = [functions EXCEPT ![notify[r].protocol] = WithoutInterface(@, r)]
          /\ told' = [y \in DOMAIN told |-> IF y[1] = r THEN 0 ELSE told[y]]
          /\ due' = { y \in due : y[1] # r }
          /\ RecordFreed(r)
          /\ UNCHANGED << handles, handleProtocols, entries, byProtocol, prot, openList,
                          openListCount, freedRead >>
          /\ UNCHANGED locatevars
          /\ TableUnchanged
    BY DEF SmmUnregisterProtocolNotify
  <1>2. LocateInv /\ TypeOK /\ Links /\ Walks /\ r \in Registrations
    BY DEF SmmInv, LocateInv, Before, IInv, Registered
  <1>3. PICK g \in Protocols : g = notify[r].protocol
    BY <1>2 DEF Registered, TypeOK, ProtocolNotify
  <1>4. /\ \A q \in Registrations \ {r} : notify'[q] = notify[q] /\ delivered'[q] = delivered[q]
        /\ notify'[r] = NULL
    BY <1>1, <1>2 DEF TypeOK
  <1>5. Registered' = Registered \ {r}
    BY <1>4 DEF Registered
  <1>6. LocateInv'
    <2>1. TypeOK'
      BY <1>1, <1>2 DEF TypeOK
    <2>2. Walks'
      <3>1. \A q \in Registered' : /\ q \in Registered /\ notify'[q] = notify[q]
                                   /\ delivered'[q] = delivered[q]
        BY <1>4, <1>5 DEF Registered
      <3>2. byProtocol' = byProtocol
        BY <1>1
      <3>3. QED
        BY <1>2, <3>1, <3>2 DEF Walks, PositionsLive, DeliveredOnce, PositionIndex
    <2>3. QED
      BY <1>1, <1>2, <2>1, <2>2, RegistrationsKept
  <1>7. /\ functions \in [Protocols -> Seq(Registrations)]
        /\ \A q \in Protocols : /\ ToSet(functions[q]) = { c \in Registered : notify[c].protocol = q }
                                /\ IsInjective(functions[q])
    BY DEF SmmInv, FunctionsOK, FunctionsLive
  <1>8. PICK list : list = functions[g]
    OBVIOUS
  <1>9. /\ list \in Seq(Registrations) /\ IsInjective(list) /\ r \in ToSet(list)
        /\ functions' = [functions EXCEPT ![g] = WithoutInterface(list, r)]
    BY <1>1, <1>3, <1>7, <1>8
  <1>10. /\ WithoutInterface(list, r) \in Seq(Registrations)
         /\ IsInjective(WithoutInterface(list, r))
         /\ ToSet(WithoutInterface(list, r)) = ToSet(list) \ {r}
    BY <1>9, WithoutElement
  <1>11. /\ functions'[g] = WithoutInterface(list, r)
         /\ functions' \in [Protocols -> Seq(Registrations)]
         /\ \A q \in Protocols \ {g} : functions'[q] = functions[q]
    BY <1>7, <1>9, <1>10
  <1>12. FunctionsOK'
    <2>1. ASSUME NEW q \in Protocols
          PROVE  /\ ToSet(functions'[q]) = { c \in Registered' : notify'[c].protocol = q }
                 /\ IsInjective(functions'[q])
      <3>1. \A c \in Registered \ {r} : notify'[c] = notify[c]
        BY <1>4 DEF Registered
      <3>2. { c \in Registered' : notify'[c].protocol = q }
              = { c \in Registered : notify[c].protocol = q } \ {r}
        BY <1>5, <3>1
      <3>3. CASE q = g
        BY <1>7, <1>8, <1>10, <1>11, <3>2, <3>3
      <3>4. CASE q # g
        BY <1>3, <1>7, <1>11, <3>2, <3>4
      <3>5. QED
        BY <3>3, <3>4
    <2>2. QED
      BY <1>11, <2>1 DEF FunctionsOK, FunctionsLive
  <1>13. NoOpens' /\ TablesOK' /\ Allocated' = Allocated
    BY <1>1 DEF SmmInv, NoOpens, TablesOK, TablesDistinct, TableUnchanged, Allocated
  <1>14. /\ told \in [Registrations \X Prots -> {0, 1, 2}]
         /\ told' \in [Registrations \X Prots -> {0, 1, 2}]
         /\ \A q \in Registrations, i \in Prots :
              told'[<< q, i >>] = IF q = r THEN 0 ELSE told[<< q, i >>]
    <2>1. told \in [Registrations \X Prots -> {0, 1, 2}]
      BY DEF SmmInv, Told
    <2>2. told' = [y \in Registrations \X Prots |-> IF y[1] = r THEN 0 ELSE told[y]]
      BY <1>1, <2>1
    <2>3. QED
      BY <2>1, <2>2
  <1>15. PICK new : new = [f \in Frame |-> IF f.link = r THEN [f EXCEPT !.link = NULL] ELSE f]
    OBVIOUS
  <1>16. /\ new \in [Frame -> Frame]
         /\ \A f \in Frame : /\ new[f].entry = f.entry /\ new[f].prot = f.prot
                             /\ new[f].link = IF f.link = r THEN NULL ELSE f.link
    BY <1>15 DEF Frame
  <1>17. running' \in Stack /\ Active' = { new[f] : f \in Active }
    <2>1. running \in Stack
      BY DEF SmmInv, Frames
    <2>2. \A k \in DOMAIN running : running[k] \in Frame
      BY <2>1 DEF Stack
    <2>3. running' = [k \in DOMAIN running |-> new[running[k]]]
      BY <1>1, <1>15, <2>2 DEF RecordFreed
    <2>4. PICK s \in Stack : s = running
      BY <2>1
    <2>5. running' \in Stack /\ ToSet(running') = { new[f] : f \in ToSet(s) }
      BY <1>16, <2>3, <2>4, FreedFrames
    <2>6. QED
      BY <2>4, <2>5 DEF Active
  <1>18. ASSUME NEW f \in Frame, f \in Active
         PROVE  /\ FrameOK(new[f])'
                /\ new[f].link # NULL =>
                     f.link # NULL /\ StillToTell(new[f])' = StillToTell(f) \ {r}
    <2>1. PICK q, i, c : /\ q = f.entry /\ i = f.prot /\ c = f.link
      OBVIOUS
    <2>2. /\ q \in Protocols /\ (i # NULL => i \in Allocated /\ i \in Prots)
          /\ c # NULL => c \in ToSet(functions[q]) /\ c \in Registrations
          /\ freedRead = {} /\ i # NULL /\ c # NULL =>
               \A b \in Registrations : b \in AheadOf(functions[q], c) => told[<< b, i >>] = 0
      BY <1>18, <2>1, ActiveFrame DEF FunctionsFor, StillToTell
    <2>3. CASE new[f].link = NULL
      BY <1>13, <1>16, <2>1, <2>2, <2>3 DEF FrameOK
    <2>4. CASE new[f].link # NULL
      <3>1. c # NULL /\ c # r /\ new[f].link = c /\ new[f].prot = i /\ new[f].entry = q
        BY <1>16, <2>1, <2>4
      <3>2. /\ FunctionsFor(new[f])' = functions'[q]
            /\ StillToTell(new[f])' = AheadOf(functions'[q], c)
            /\ StillToTell(f) = AheadOf(functions[q], c)
        BY <2>1, <3>1 DEF FunctionsFor, StillToTell
      <3>3. /\ c \in ToSet(functions'[q])
            /\ AheadOf(functions'[q], c) = AheadOf(functions[q], c) \ {r}
        <4>1. CASE q = g
          <5>1. AheadOf(WithoutInterface(list, r), c) = AheadOf(list, c) \ {r}
            BY <1>8, <1>9, <2>2, <3>1, <4>1, AheadWithout
          <5>2. QED
            BY <1>8, <1>10, <1>11, <2>2, <3>1, <4>1, <5>1
        <4>2. CASE q # g
          <5>1. PICK other : other = functions[q]
            OBVIOUS
          <5>2. /\ other \in Seq(Registrations) /\ IsInjective(other) /\ c \in ToSet(other)
                /\ r \notin ToSet(other)
            BY <1>3, <1>7, <2>2, <3>1, <4>2, <5>1
          <5>3. r \notin AheadOf(other, c)
            BY <5>2, AheadIndex
          <5>4. QED
            BY <1>11, <2>2, <3>1, <4>2, <5>1, <5>3
        <4>3. QED
          BY <4>1, <4>2
      <3>4. ASSUME freedRead' = {}, i # NULL, NEW b \in Registrations,
                   b \in AheadOf(functions'[q], c)
            PROVE  told'[<< b, i >>] = 0
        BY <1>1, <1>14, <2>2, <3>1, <3>3, <3>4
      <3>5. QED
        BY <1>13, <2>1, <2>2, <3>1, <3>2, <3>3, <3>4 DEF FrameOK
    <2>5. QED
      BY <2>3, <2>4
  <1>19. Frames'
    BY <1>17, <1>18 DEF Frames, SmmInv, Stack, ToSet, Active
  <1>20. Told'
    BY <1>1, <1>5, <1>13, <1>14 DEF SmmInv, Told
  <1>21. Due'
    <2>1. ASSUME freedRead' = {}, NEW b \in Registrations, NEW i \in Prots, << b, i >> \in due'
          PROVE  \E f \in Frame : /\ f \in Active' /\ f.prot = i
                                  /\ f.link # NULL => b \in StillToTell(f)'
      <3>1. << b, i >> \in due /\ b # r /\ freedRead = {}
        BY <1>1, <2>1
      <3>2. PICK f \in Frame : /\ f \in Active /\ f.prot = i
                               /\ f.link # NULL => b \in StillToTell(f)
        BY <3>1 DEF SmmInv, Due
      <3>3. /\ new[f] \in Frame /\ new[f] \in Active' /\ new[f].prot = i
            /\ new[f].link # NULL => b \in StillToTell(new[f])'
        BY <1>16, <1>17, <1>18, <3>1, <3>2
      <3>4. QED
        BY <3>3
    <2>2. due' \subseteq Registrations \X Prots
      BY <1>1 DEF SmmInv, Due
    <2>3. QED
      BY <2>1, <2>2 DEF Due
  <1>22. QED
    BY <1>6, <1>12, <1>13, <1>19, <1>20, <1>21 DEF SmmInv

-----------------------------------------------------------------------------
LEMMA NextSmmInv == SmmInv /\ [SmmNext]_<< dbvars, locatevars, smmvars >> => SmmInv'
  <1> SUFFICES ASSUME SmmInv, [SmmNext]_<< dbvars, locatevars, smmvars >> PROVE SmmInv'
    OBVIOUS
  <1>1. CASE UNCHANGED << dbvars, locatevars, smmvars >>
    <2>1. UNCHANGED << dbvars, locatevars, functions, running, freedRead, due, told, tables >>
      BY <1>1 DEF smmvars
    <2>2. TablesOK'
      BY <2>1 DEF SmmInv, TablesOK, TablesDistinct
    <2>3. QED
      BY <2>1, <2>2, SameDatabase
  <1>2. QED
    BY <1>1, InstallSmmInv, UninstallSmmInv, RegisterSmmInv, UnregisterSmmInv, ReturnSmmInv,
       LookupSmmInv, TableSmmInv DEF SmmNext

LEMMA SmmInvConsistent == SmmInv => SmmConsistent
  <1> SUFFICES ASSUME SmmInv PROVE SmmConsistent
    OBVIOUS
  <1>1. ListsAgree /\ HandleLifetime /\ UniqueProtocol /\ PositionsLive /\ LookupsExact
    BY DEF SmmInv, LocateInv, Before, IInv, Links, Walks, Exact, LookupsExact
  <1>2. FunctionsLive /\ TablesDistinct
    BY DEF SmmInv, FunctionsOK, TablesOK
  <1>3. freedRead = {} /\ running = << >> => due = {}
    <2>1. SUFFICES ASSUME freedRead = {}, running = << >>, NEW x \in due PROVE FALSE
      OBVIOUS
    <2>2. PICK r \in Registrations, i \in Prots : x = << r, i >>
      BY DEF SmmInv, Due
    <2>3. \E f \in Frame : f \in Active
      BY <2>1, <2>2 DEF SmmInv, Due
    <2>4. Active = {}
      BY <2>1 DEF Active, ToSet
    <2>5. QED
      BY <2>3, <2>4
  <1>4. freedRead = {} => \A x \in DOMAIN told : told[x] <= 1
    <2>1. told \in [Registrations \X Prots -> {0, 1, 2}]
      BY DEF SmmInv, Told
    <2>2. ASSUME freedRead = {}, NEW x \in Registrations \X Prots PROVE told[x] <= 1
      <3>1. PICK r \in Registrations, i \in Prots : x = << r, i >>
        BY <2>2
      <3>2. told[x] \in {0, 1, 2} /\ told[x] # 2
        BY <2>1, <2>2, <3>1 DEF SmmInv, Told
      <3>3. QED
        BY <3>2
    <2>3. QED
      BY <2>1, <2>2
  <1>5. QED
    BY <1>1, <1>2, <1>3, <1>4 DEF SmmConsistent, EveryoneTold

(* Whatever the notification functions install, remove, register and look  *)
(* up in the middle of an installation, to any depth of calls: the lists,  *)
(* the handles and the positions agree and lookups are exact; and as long  *)
(* as no walk reads a record or an interface that its functions freed,     *)
(* every function registered for a GUID is told of each interface          *)
(* installed after it exactly once.                                        *)
THEOREM SmmStaysConsistent == SmmSpec => []SmmConsistent
  BY InitSmmInv, NextSmmInv, SmmInvConsistent, PTL DEF SmmSpec

(* So does the instance of the run that is the SMM database.               *)
THEOREM SmmCorrect == MCSpec => []SmmInstanceConsistent
  <1> DEFINE MCInv == instance = "smm" => SmmInv
  <1>1. MCInit => MCInv
    BY InitSmmInv DEF MCInit
  <1>2. MCInv /\ [MCNext]_<< dbvars, locatevars, smmvars, instance >> => MCInv'
    <2> SUFFICES ASSUME MCInv, [MCNext]_<< dbvars, locatevars, smmvars, instance >>,
                        instance' = "smm"
                 PROVE  SmmInv'
      OBVIOUS
    <2>1. instance' = instance
      BY DEF MCNext
    <2>2. instance = "smm" /\ SmmInv
      BY <2>1
    <2>3. [SmmNext]_<< dbvars, locatevars, smmvars >>
      BY <2>2 DEF MCNext, BootNext, SmmFinished
    <2>4. QED
      BY <2>2, <2>3, NextSmmInv
  <1>3. MCInv => SmmInstanceConsistent
    BY SmmInvConsistent DEF SmmInstanceConsistent
  <1>4. QED
    BY <1>1, <1>2, <1>3, PTL DEF MCSpec
===============================================================================
