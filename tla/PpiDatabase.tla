------------------------------ MODULE PpiDatabase ------------------------------
(***************************************************************************)
(* The PPI database of Host/PeiServicesTablePointerLibHost/Ppi.c: PPIs,    *)
(* notifications called back at once, and notifications called when the    *)
(* dispatcher asks for it.  A notification runs in the middle of the       *)
(* service that caused it and may itself use the services, so calls nest   *)
(* on a stack.                                                             *)
(***************************************************************************)
EXTENDS Integers, Sequences, FiniteSets

CONSTANTS
  PpiLists,      \* what PeiInstallPpi is passed: sequences of descriptors
  NotifyLists,   \* what PeiNotifyPpi is passed
  NewPpis,       \* descriptors PeiReInstallPpi puts in the place of others
  MaxCalls,      \* bound: calls of services that change something
  MaxDepth,      \* bound: how deep calls nest
  MaxPpis, MaxNotifies \* bounds: how long the lists get

VARIABLES
  ppis,          \* PpiList: descriptors in the order they were installed
  notifies,      \* CallbackNotifyList and DispatchNotifyList
  lastPpi,       \* PpiList.LastDispatchedCount
  lastNotify,    \* DispatchNotifyList.LastDispatchedCount
  stack,         \* services and notification functions that are running
  told,          \* how often a notification was called for a slot of ppis
  replaced,      \* the slots of ppis that were reinstalled
  calls          \* how many calls there were

vars == << ppis, notifies, lastPpi, lastNotify, stack, told, replaced, calls >>

Kinds == {"callback", "dispatch"}

(* Descriptors; a flag that is not set makes the list it is in invalid. *)
Ppi(guid, valid)   == [guid |-> guid, valid |-> valid]
Notify(guid, kind) == [guid |-> guid, kind |-> kind]

Slots == Kinds \X (1 .. MaxNotifies) \X (1 .. MaxPpis)

Init ==
  /\ ppis = << >>
  /\ notifies = [k \in Kinds |-> << >>]
  /\ lastPpi = 0 /\ lastNotify = 0
  /\ stack = << >>
  /\ told = [s \in Slots |-> 0]
  /\ replaced = {}
  /\ calls = 0

Top     == stack[Len(stack)]
Below   == SubSeq(stack, 1, Len(stack) - 1)
Running(is) == stack # << >> /\ Top.is = is

(* Services are called by modules, one after the other, or by notifications. *)
MayCall == /\ stack = << >> \/ Running("notification")
           /\ calls < MaxCalls
           /\ Len(stack) < MaxDepth

(***************************************************************************)
(* ProcessNotify: the notifications from n to lastN, each for the slots    *)
(* from first to last, those with the same GUID.  A frame keeps where its  *)
(* loops are.                                                              *)
(***************************************************************************)
Walk(kind, firstP, lastP, firstN, lastN) ==
  [ is |-> "walk", kind |-> kind, firstP |-> firstP, lastP |-> lastP,
    lastN |-> lastN, n |-> firstN, p |-> firstP ]

ProcessNotify(kind, firstP, lastP, firstN, lastN) ==
  stack' = Append(stack, Walk(kind, firstP, lastP, firstN, lastN))

Pending_WithoutPlace(f) ==
  { x \in (f.n .. f.lastN) \X (f.firstP .. f.lastP) :
      notifies[f.kind][x[1]].guid = ppis[x[2]].guid }

(* Where the loops of frame f find the next notification to call. *)
Pending(f) ==
  { x \in (f.n .. f.lastN) \X (f.firstP .. f.lastP) :
      /\ x[1] = f.n => x[2] >= f.p
      /\ notifies[f.kind][x[1]].guid = ppis[x[2]].guid }

FirstOf(S) == CHOOSE x \in S : \A y \in S : x[1] < y[1] \/ (x[1] = y[1] /\ x[2] <= y[2])

CallNotification ==
  /\ Running("walk")
  /\ Pending(Top) # {}
  /\ LET x == FirstOf(Pending(Top))
     IN  /\ stack' = Below \o << [Top EXCEPT !.n = x[1], !.p = x[2] + 1],
                                 [is |-> "notification"] >>
         /\ told' = [told EXCEPT ![<< Top.kind, x[1], x[2] >>] = IF @ = 2 THEN 2 ELSE @ + 1]
  /\ UNCHANGED << ppis, notifies, lastPpi, lastNotify, replaced, calls >>

NotificationReturns ==
  /\ Running("notification")
  /\ stack' = Below
  /\ UNCHANGED << ppis, notifies, lastPpi, lastNotify, told, replaced, calls >>

(* The end of ProcessNotify; the dispatcher below notes how far it got. *)
WalkEnds ==
  /\ Running("walk")
  /\ Pending(Top) = {}
  /\ stack' = Below
  /\ LET caller == IF Below = << >> THEN [is |-> "module"] ELSE Below[Len(Below)]
     IN  /\ lastNotify' = IF caller.is = "dispatcher" /\ caller.loop = "notifies"
                            THEN caller.count ELSE lastNotify
         /\ lastPpi' = IF caller.is = "dispatcher" /\ caller.loop = "ppis"
                         THEN caller.count ELSE lastPpi
  /\ UNCHANGED << ppis, notifies, told, replaced, calls >>

(***************************************************************************)
(* PeiInstallPpi and PeiNotifyPpi append the descriptors of a list up to   *)
(* one that is invalid, which takes all of them off again.                 *)
(***************************************************************************)
PeiInstallPpi ==
  \E list \in PpiLists :
    LET count == Len(ppis)
        all   == ppis \o list
    IN  /\ MayCall
        /\ Len(all) <= MaxPpis
        /\ calls' = calls + 1
        /\ IF \E i \in 1 .. Len(list) : ~list[i].valid
             THEN /\ ppis' = SubSeq(ppis, 1, count)
                  /\ stack' = stack
             ELSE /\ ppis' = all
                  /\ ProcessNotify("callback", count + 1, Len(all), 1, Len(notifies["callback"]))
        /\ UNCHANGED << notifies, lastPpi, lastNotify, told, replaced >>

(* The descriptors of list that go to the list of a kind. *)
OfKind(list, kind) ==
  LET found[n \in 0 .. Len(list)] ==
        IF n = 0 THEN << >>
        ELSE IF list[n].kind = kind THEN Append(found[n - 1], list[n]) ELSE found[n - 1]
  IN  found[Len(list)]

PeiNotifyPpi ==
  \E list \in NotifyLists :
    LET count == Len(notifies["callback"])
        all   == [k \in Kinds |-> notifies[k] \o OfKind(list, k)]
    IN  /\ MayCall
        /\ \A k \in Kinds : Len(all[k]) <= MaxNotifies
        /\ calls' = calls + 1
        /\ IF \E i \in 1 .. Len(list) : list[i].kind \notin Kinds
             THEN notifies' = notifies /\ stack' = stack
             ELSE /\ notifies' = all
                  /\ ProcessNotify("callback", 1, Len(ppis), count + 1, Len(all["callback"]))
        /\ UNCHANGED << ppis, lastPpi, lastNotify, told, replaced >>

(* The instance-th slot with a GUID, counted from zero; 0 if there is none. *)
PeiLocatePpi(guid, instance) ==
  LET hits == { i \in 1 .. Len(ppis) : ppis[i].guid = guid }
      nth  == { i \in hits : Cardinality({ j \in hits : j < i }) = instance }
  IN  IF nth = {} THEN 0 ELSE CHOOSE i \in nth : TRUE

(* A caller locates a descriptor; its first slot takes the new one. *)
PeiReInstallPpi ==
  \E new \in NewPpis, instance \in 0 .. MaxPpis - 1 :
    \E found \in { PeiLocatePpi(d.guid, instance) : d \in NewPpis \cup { ppis[i] : i \in 1 .. Len(ppis) } } :
      LET slots == { i \in 1 .. Len(ppis) : ppis[i] = ppis[found] }
          old   == CHOOSE i \in slots : \A j \in slots : i <= j
      IN  /\ MayCall
          /\ found # 0
          /\ new.valid
          /\ calls' = calls + 1
          /\ ppis' = [ppis EXCEPT ![old] = new]
          /\ replaced' = replaced \cup {old}
          /\ told' = [s \in Slots |-> IF s[3] = old /\ s[1] = "callback" THEN 0 ELSE told[s]]
          /\ ProcessNotify("callback", old, old, 1, Len(notifies["callback"]))
          /\ UNCHANGED << notifies, lastPpi, lastNotify >>

(***************************************************************************)
(* ProcessDispatchNotifyList: new notifications for the PPIs dispatched    *)
(* already, then new PPIs for the notifications dispatched already, as     *)
(* long as there are new ones.                                             *)
(***************************************************************************)
Dispatcher(loop, count) == [is |-> "dispatcher", loop |-> loop, count |-> count]

ProcessDispatchNotifyList ==
  /\ stack = << >>
  /\ calls < MaxCalls
  /\ calls' = calls + 1
  /\ stack' = << Dispatcher("notifies", 0) >>
  /\ UNCHANGED << ppis, notifies, lastPpi, lastNotify, told, replaced >>

DispatchNotifies ==
  LET count == Len(notifies["dispatch"])
  IN  /\ Running("dispatcher") /\ Top.loop = "notifies"
      /\ lastNotify # count
      /\ stack' = << Dispatcher("notifies", count),
                     Walk("dispatch", 1, lastPpi, lastNotify + 1, count) >>
      /\ UNCHANGED << ppis, notifies, lastPpi, lastNotify, told, replaced, calls >>

DispatchPpis ==
  LET count == Len(ppis)
  IN  /\ Running("dispatcher")
      /\ Top.loop = "notifies" => lastNotify = Len(notifies["dispatch"])
      /\ lastPpi # count
      /\ stack' = << Dispatcher("ppis", count),
                     Walk("dispatch", lastPpi + 1, count, 1, lastNotify) >>
      /\ UNCHANGED << ppis, notifies, lastPpi, lastNotify, told, replaced, calls >>

DispatcherReturns ==
  /\ Running("dispatcher")
  /\ Top.loop = "notifies" => lastNotify = Len(notifies["dispatch"])
  /\ lastPpi = Len(ppis)
  /\ stack' = IF lastNotify = Len(notifies["dispatch"]) THEN << >>
              ELSE << Dispatcher("notifies", 0) >>
  /\ UNCHANGED << ppis, notifies, lastPpi, lastNotify, told, replaced, calls >>

Next ==
  \/ PeiInstallPpi \/ PeiNotifyPpi \/ PeiReInstallPpi
  \/ CallNotification \/ NotificationReturns \/ WalkEnds
  \/ ProcessDispatchNotifyList \/ DispatchNotifies \/ DispatchPpis \/ DispatcherReturns

(* Calls that are running go on; nothing makes modules call. *)
Progress == \/ CallNotification \/ NotificationReturns \/ WalkEnds
            \/ DispatchNotifies \/ DispatchPpis \/ DispatcherReturns

Spec == Init /\ [][Next]_vars
FairSpec == Spec /\ WF_vars(Progress)
--------------------------------------------------------------------------------
Matches(kind, n, p) == notifies[kind][n].guid = ppis[p].guid

(***************************************************************************)
(* When no call is running, every callback notification was called for     *)
(* every PPI with its GUID, installed before or after it, by a module or   *)
(* by another notification, and once unless the PPI was reinstalled        *)
(* meanwhile (Ppi.c:113, 211, 422).                                        *)
(***************************************************************************)
CallbacksMade ==
  /\ \A n \in 1 .. Len(notifies["callback"]), p \in 1 .. Len(ppis) :
       stack = << >> /\ Matches("callback", n, p) => told[<< "callback", n, p >>] >= 1
  /\ \A s \in Slots : s[3] \notin replaced => told[s] <= 1

(***************************************************************************)
(* When the dispatcher has caught up, every dispatch notification was      *)
(* called exactly once for every PPI with its GUID, those included that    *)
(* notifications installed or asked for meanwhile (Ppi.c:472 to 518).      *)
(***************************************************************************)
DispatchesMade ==
  LET known == 1 .. lastNotify
  IN  \A n \in known, p \in 1 .. lastPpi :
        /\ stack = << >> /\ p \notin replaced
        => told[<< "dispatch", n, p >>] = IF Matches("dispatch", n, p) THEN 1 ELSE 0

NotificationsMade == CallbacksMade /\ DispatchesMade
================================================================================
