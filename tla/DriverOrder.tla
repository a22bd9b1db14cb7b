----------------------------- MODULE DriverOrder -----------------------------
(***************************************************************************)
(* The order in which CoreConnectSingleController tries the drivers it     *)
(* finds for a controller (UefiBootServicesTableLibHost/DriverSupport.c).  *)
(* Five sources name drivers one after the other: the caller, the          *)
(* platform, the drivers' families, the bus, and at last every driver in   *)
(* the order of its version.  Between them run the functions of protocols, *)
(* which may install further drivers: then the whole search is repeated.   *)
(* They may uninstall drivers too, which nothing looks for.                *)
(*                                                                         *)
(* A driver is named by its handle, and a binding protocol by one of the   *)
(* handles it is on: two handles may have the same.                        *)
(*                                                                         *)
(* BootServices has what the drivers do and what happens around them; here *)
(* they are tried in any order, there in the one of this module.           *)
(***************************************************************************)
EXTENDS Integers, Sequences, FiniteSetsExt, SequencesExt

CONSTANTS
  Drivers,     \* handles that have, or will get, a driver binding
  Images,      \* image handles
  Bindings,    \* for each driver its binding protocol, with the protocol's
               \* image and version, and the handle's family version
  Overrides,   \* the lists of drivers callers give
  ImageLists,  \* the lists of images the override protocols give
  MaxLeaves,   \* bound: the number of drivers that are uninstalled
  NULL

VARIABLES
  installed,   \* the drivers whose handle has a binding protocol
  bindings,    \* [Drivers -> EFI_DRIVER_BINDING_PROTOCOL]
  asked,       \* what the caller, the platform and the bus prescribe
  pc,          \* where CoreConnectSingleController is
  next,        \* which image an override protocol gives next
  handleBuffer,  \* DriverBindingHandleBuffer, NULL where a driver was taken
  sorted,      \* SortedDriverBindingProtocols, NULL where one was tried
  sortIndex,   \* SortIndex
  oneStarted,  \* OneStarted
  tried,       \* history: the bindings started, in order
  left         \* history: which drivers were uninstalled, and in which search

vars == << installed, bindings, asked, pc, next, handleBuffer, sorted, sortIndex, oneStarted,
           tried, left >>

NoFamily == -1

Init ==
  /\ installed \in SUBSET Drivers
  /\ bindings \in Bindings
  /\ asked \in [context : Overrides, platform : ImageLists, bus : ImageLists]
  /\ pc = "collect" /\ next = 1
  /\ left = [d \in Drivers |-> "never"]
  /\ handleBuffer = << >> /\ sorted = << >> /\ sortIndex = 0
  /\ oneStarted = FALSE /\ tried = << >>

-----------------------------------------------------------------------------
(* A search under way: the buffer it draws from and the list it builds.    *)
Search(buffer, list) == [buffer |-> buffer, list |-> list]
Now == Search(handleBuffer, sorted)

Protocol(d) == bindings[d].protocol

Take_LeavesBuffer(search, d) == Search(search.buffer, Append(search.list, Protocol(d)))
(* The driver's binding goes to the end of the list, its handle out of the *)
(* buffer.                                                                 *)
Take(search, d) ==
  Search([k \in DOMAIN search.buffer |-> IF search.buffer[k] = d THEN NULL ELSE search.buffer[k]],
         Append(search.list, Protocol(d)))

(* AddSortedDriverBindingProtocol for a driver's own handle: not when the  *)
(* handle has no driver binding or the list has it already; the handle     *)
(* stays in the buffer then.                                               *)
AddDriver(search, d) ==
  IF d \notin installed \/ Protocol(d) \in ToSet(search.list) THEN search ELSE Take(search, d)

(* The same for an image handle: all drivers of that image, in the order   *)
(* of the buffer.                                                          *)
AddImage(search, image) ==
  FoldLeft(LAMBDA s, d : IF d \in installed /\ bindings[d].image = image THEN AddDriver(s, d) ELSE s,
           search, search.buffer)

Found(search) == handleBuffer' = search.buffer /\ sorted' = search.list

Goto(label) == pc' = label
Fixed == UNCHANGED << bindings, asked >>
Same  == Fixed /\ UNCHANGED << installed, oneStarted, tried >>

(* CoreLocateHandleBuffer for the driver binding protocol.                 *)
Collect ==
  /\ pc = "collect"
  /\ IF installed = {} THEN Goto("NOT_FOUND") /\ UNCHANGED handleBuffer
     ELSE Goto("context") /\ handleBuffer' = SetToSeq(installed)
  /\ sorted' = << >>
  /\ left' = [d \in Drivers |-> IF left[d] = "now" THEN "before" ELSE left[d]]
  /\ Same /\ UNCHANGED << next, sortIndex >>

Context ==
  /\ pc = "context" /\ Goto("platform") /\ next' = 1
  /\ Found(FoldLeft(AddDriver, Now, asked.context))
  /\ Same /\ UNCHANGED << sortIndex, left >>

(* GetDriver of an override protocol is asked until it has no more images. *)
AskForImages(images, after) ==
  /\ IF next > Len(images) THEN Goto(after) /\ next' = 1 /\ UNCHANGED << handleBuffer, sorted >>
     ELSE next' = next + 1 /\ Found(AddImage(Now, images[next])) /\ UNCHANGED pc
  /\ Same /\ UNCHANGED << sortIndex, left >>

Platform    == pc = "platform" /\ AskForImages(asked.platform, "family")
BusSpecific == pc = "bus" /\ AskForImages(asked.bus, "rest")

(* The drivers left in the buffer that have a driver family override, with *)
(* a binding or without.                                                   *)
Family == { d \in ToSet(handleBuffer) \ {NULL} : bindings[d].family # NoFamily }
Highest(S) == { d \in S : \A e \in S : bindings[d].family >= bindings[e].family }
FirstHighest == handleBuffer[Min({ k \in DOMAIN handleBuffer : handleBuffer[k] \in Highest(Family) })]

(* The loop goes on until no driver with a family override is left.        *)
FamilyOverride ==
  /\ pc = "family"
  /\ IF Family = {} THEN Goto("bus") /\ UNCHANGED << handleBuffer, sorted >>
     ELSE Found(AddDriver(Now, FirstHighest)) /\ UNCHANGED pc
  /\ Same /\ UNCHANGED << next, sortIndex, left >>

Rest ==
  /\ pc = "rest" /\ Goto("recheck")
  /\ sortIndex' = Len(sorted) + 1
  /\ Found(FoldLeft(LAMBDA s, d : IF d = NULL THEN s ELSE AddDriver(s, d), Now, handleBuffer))
  /\ Same /\ UNCHANGED << next, left >>

(* There are more drivers than there were: EFI_NOT_READY, and              *)
(* CoreConnectController calls again.                                      *)
Recheck ==
  /\ pc = "recheck"
  /\ Goto(IF Cardinality(installed) > Len(handleBuffer) THEN "collect" ELSE "sort")
  /\ Same /\ UNCHANGED << next, handleBuffer, sorted, sortIndex, left >>

HighestIndex_Lowest ==
  LET places == sortIndex .. Len(sorted)
  IN  Min({ k \in places : \A j \in places :
              bindings[sorted[k]].version <= bindings[sorted[j]].version })

(* Selection sort of the last part of the list: the first of the highest   *)
(* version changes places with the driver at SortIndex.                    *)
HighestIndex ==
  LET places == sortIndex .. Len(sorted)
      top == { k \in places : \A j \in places :
                 bindings[sorted[k]].version >= bindings[sorted[j]].version }
  IN  Min(top)

SortVersions ==
  /\ pc = "sort"
  /\ IF sortIndex > Len(sorted)
     THEN Goto("try") /\ UNCHANGED << sorted, sortIndex >>
     ELSE /\ sorted' = [sorted EXCEPT ![sortIndex] = sorted[HighestIndex],
                                      ![HighestIndex] = sorted[sortIndex]]
          /\ sortIndex' = sortIndex + 1
          /\ UNCHANGED pc
  /\ Same /\ UNCHANGED << next, handleBuffer, left >>

(* From the beginning of the list, the first driver that supports the      *)
(* controller is started, once; after each start the search begins anew.   *)
TryDriver ==
  /\ pc = "try"
  /\ \E k \in DOMAIN sorted :
       /\ sorted[k] # NULL
       /\ sorted' = [sorted EXCEPT ![k] = NULL]
       /\ tried' = Append(tried, sorted[k])
       /\ oneStarted' \in {oneStarted, TRUE}
  /\ UNCHANGED pc
  /\ Fixed /\ UNCHANGED << installed, next, handleBuffer, sortIndex, left >>

(* No driver that is left supports it.                                     *)
Finish ==
  /\ pc = "try"
  /\ Goto(IF oneStarted THEN "SUCCESS" ELSE "NOT_FOUND")
  /\ Same /\ UNCHANGED << next, handleBuffer, sorted, sortIndex, left >>

(* A function of an override protocol installs another driver, once.       *)
Asking == pc \in {"platform", "family", "bus", "rest"}

InstallDriver ==
  /\ Asking
  /\ \E d \in Drivers \ installed : left[d] = "never" /\ installed' = installed \cup {d}
  /\ Fixed
  /\ UNCHANGED << pc, next, handleBuffer, sorted, sortIndex, oneStarted, tried, left >>

(* It uninstalls one, its binding alone or all the protocols of its handle.*)
UninstallDriver ==
  /\ Asking
  /\ Cardinality({ d \in Drivers : left[d] # "never" }) < MaxLeaves
  /\ \E d \in installed :
       /\ installed' = installed \ {d}
       /\ left' = [left EXCEPT ![d] = "now"]
       /\ bindings' \in {bindings, [bindings EXCEPT ![d].family = NoFamily]}
  /\ UNCHANGED << asked, pc, next, handleBuffer, sorted, sortIndex, oneStarted, tried >>

Next == \/ Collect \/ Context \/ Platform \/ FamilyOverride \/ BusSpecific \/ Rest
        \/ Recheck \/ SortVersions \/ TryDriver \/ Finish \/ InstallDriver \/ UninstallDriver

Spec == Init /\ [][Next]_vars
FairSpec == Spec /\ WF_vars(Next)

-----------------------------------------------------------------------------
(* Where a driver belongs: which of the five sources names it first, and   *)
(* how early that source does.  A smaller rank comes first.                *)
Named(d, list) == IF d \in ToSet(list) THEN Min({ k \in DOMAIN list : list[k] = d }) ELSE 0

Rank(d) ==
  CASE Named(d, asked.context) > 0 -> << 1, Named(d, asked.context) >>
    [] Named(d, asked.context) = 0 /\ Named(bindings[d].image, asked.platform) > 0 ->
         << 2, Named(bindings[d].image, asked.platform) >>
    [] /\ Named(d, asked.context) = 0 /\ Named(bindings[d].image, asked.platform) = 0
       /\ bindings[d].family # NoFamily -> << 3, -bindings[d].family >>
    [] OTHER -> IF Named(bindings[d].image, asked.bus) > 0
                THEN << 4, Named(bindings[d].image, asked.bus) >>
                ELSE << 5, -bindings[d].version >>

NotBehind(x, y) == x[1] < y[1] \/ (x[1] = y[1] /\ x[2] <= y[2])

(* The first rank of the handles that have the binding.                    *)
RankOf(binding) ==
  LET ranks == { Rank(d) : d \in { e \in installed : Protocol(e) = binding } }
  IN  CHOOSE x \in ranks : \A y \in ranks : NotBehind(x, y)

NoneLeft == \A d \in Drivers : left[d] # "now"

(* The list a controller's drivers are tried from holds every binding there*)
(* is, once, and in the order of precedence of the five sources, although  *)
(* drivers came while it was built and the sort is not a stable one; the   *)
(* bindings of drivers that left in that search are still in it, and one   *)
(* that came in their place may be missing                                 *)
(* (AddSortedDriverBindingProtocol and CoreConnectSingleController).       *)
PrecedenceKept ==
  (pc = "try" /\ tried = << >>) =>
    /\ IsInjective(sorted)
    /\ NoneLeft =>
         /\ ToSet(sorted) = { Protocol(d) : d \in installed }
         /\ \A j, k \in DOMAIN sorted : j < k => NotBehind(RankOf(sorted[j]), RankOf(sorted[k]))

(* No driver is started twice for a controller in one call.                *)
StartedOnce == IsInjective(tried)

(* The search is over: the call returns.                                   *)
SearchIsOver == pc \in {"SUCCESS", "NOT_FOUND"}

(* The loop over the families is at a driver it can neither take nor clear *)
(* from the buffer: its binding has left, or another handle had the same.  *)
CannotClear ==
  /\ pc = "family"
  /\ Family # {}
  /\ \/ FirstHighest \notin installed
     \/ \E d \in Drivers \ ToSet(handleBuffer) : d # FirstHighest /\ Protocol(d) = Protocol(FirstHighest)
=============================================================================
