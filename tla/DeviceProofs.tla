----------------------------- MODULE DeviceProofs -----------------------------
(* Proofs about the devices of Platform: the USB hook with the USB stubs, the *)
(* Virtio block driver, the disk and the AHCI driver.                        *)
EXTENDS PlatformProofs

-----------------------------------------------------------------------------
(* The USB hook and the USB stubs.                                         *)

HookConstants ==
  /\ Controllers \cap {"hook", "none", Absent} = {}
  /\ Absent \notin BOOLEAN /\ Absent # "given"

Note == [OrgUsb2Hc : Controllers \cup {"hook"}, Usb2Hc : Interfaces]
NoteOf(n) == mUsb2HcHookQueue[n]
FirstNote(n, i) ==
  /\ n \in 1 .. Len(mUsb2HcHookQueue) /\ NoteOf(n).Usb2Hc = i
  /\ \A m \in 1 .. n - 1 : NoteOf(m).Usb2Hc # i

HookTypes ==
  /\ functions \in [Interfaces -> Controllers \cup {"hook", "none"}]
  /\ owner \in [Interfaces -> Controllers \cup {Absent}]
  /\ unseen \in Seq(Interfaces) /\ IsInjective(unseen)
  /\ pending \in BOOLEAN \cup {Absent} /\ merged \in Nat
  /\ firstOwner \in [Interfaces -> Controllers \cup {Absent}]
  /\ mUsb2HcHookQueue \in Seq(Note)

(* An installed interface has an owner, and its functions or the hook's. *)
OwnFunctions ==
  \A i \in Interfaces :
    /\ functions[i] # "none" => owner[i] \in Controllers
    /\ functions[i] \in Controllers => functions[i] = owner[i] /\ i \in ToSet(unseen)

(* What is unseen is installed. *)
UnseenInstalled == \A i \in ToSet(unseen) : functions[i] # "none"

(* The first note of an interface tells whose it was when it was hooked. *)
NotesTell ==
  /\ \A i \in Interfaces : functions[i] = "hook" => firstOwner[i] \in Controllers
  /\ \A i \in Interfaces : firstOwner[i] \in Controllers =>
       \E n \in 1 .. Len(mUsb2HcHookQueue) : NoteOf(n).Usb2Hc = i
  /\ \A n \in 1 .. Len(mUsb2HcHookQueue) : firstOwner[NoteOf(n).Usb2Hc] \in Controllers
  /\ \A i \in Interfaces : \A n \in 1 .. Len(mUsb2HcHookQueue) :
       FirstNote(n, i) => NoteOf(n).OrgUsb2Hc = firstOwner[i]

(* A signal is for one interface, and those that were merged for one each. *)
OneSignal ==
  /\ pending = FALSE => Len(unseen) <= merged
  /\ pending = TRUE  => Len(unseen) <= merged + 1

CallReaches ==
  /\ hookCall.is \in {"call", "crash"} =>
       hookCall.reached = firstOwner[hookCall.this] /\ firstOwner[hookCall.this] \in Controllers
  /\ hookCall.is = "crash" => hookCall.function = "AsyncInterruptTransfer"

HookInv ==
  HookTypes /\ OwnFunctions /\ UnseenInstalled /\ NotesTell /\ OneSignal /\ CallReaches

LEMMA HookImplies == ASSUME HookInv, HookConstants PROVE HcHook!HookTransparent
  <1>1. CallReaches
    BY DEF HookInv
  <1>2. ASSUME NEW i \in HcHook!Installed
        PROVE  functions[i] = HcHook!Hook \/ \E n \in 1 .. Len(unseen) : unseen[n] = i
    <2>1. i \in Interfaces /\ functions[i] # "none"
      BY DEF HcHook!Installed, HcHook!None
    <2>2. unseen \in Seq(Interfaces)
      BY DEF HookInv, HookTypes
    <2>3. i \in ToSet(unseen) => \E n \in 1 .. Len(unseen) : unseen[n] = i
      BY <2>2 DEF ToSet
    <2>4. functions[i] \notin Controllers \/ i \in ToSet(unseen)
      BY <2>1 DEF HookInv, OwnFunctions
    <2>5. QED
      BY <2>1, <2>3, <2>4 DEF HookInv, HookTypes, HcHook!Hook
  <1>3. pending = FALSE => Len(unseen) <= merged
    BY DEF HookInv, OneSignal
  <1>4. QED
    BY <1>1, <1>2, <1>3 DEF CallReaches, HcHook!HookTransparent

LEMMA HookInit == ASSUME HcHook!Init, HookConstants PROVE HookInv
  <1>1. /\ functions = [i \in Interfaces |-> "none"] /\ owner = [i \in Interfaces |-> Absent]
        /\ unseen = << >> /\ pending = Absent /\ mUsb2HcHookQueue = << >>
        /\ firstOwner = [i \in Interfaces |-> Absent] /\ merged = 0 /\ hookCall = [is |-> "idle"]
    BY DEF HcHook!Init, HcHook!None, HcHook!Idle
  <1>2. ToSet(unseen) = {} /\ IsInjective(unseen)
    BY <1>1 DEF ToSet, IsInjective
  <1>3. HookTypes
    <2>1. functions \in [Interfaces -> Controllers \cup {"hook", "none"}]
      BY <1>1
    <2>2. owner \in [Interfaces -> Controllers \cup {Absent}]
      BY <1>1
    <2>3. unseen \in Seq(Interfaces) /\ mUsb2HcHookQueue \in Seq(Note)
      BY <1>1
    <2>4. /\ pending \in BOOLEAN \cup {Absent} /\ merged \in Nat
          /\ firstOwner \in [Interfaces -> Controllers \cup {Absent}]
      BY <1>1
    <2>5. QED
      BY <1>2, <2>1, <2>2, <2>3, <2>4 DEF HookTypes
  <1>4. OwnFunctions /\ UnseenInstalled /\ OneSignal /\ CallReaches
    BY <1>1, <1>2 DEF OwnFunctions, UnseenInstalled, OneSignal, CallReaches, HookConstants
  <1>5. NotesTell
    <2>1. \A i \in Interfaces : functions[i] # "hook" /\ firstOwner[i] \notin Controllers
      BY <1>1 DEF HookConstants
    <2>2. 1 .. Len(mUsb2HcHookQueue) = {}
      BY <1>1
    <2>3. QED
      BY <2>1, <2>2 DEF NotesTell
  <1>6. QED
    BY <1>3, <1>4, <1>5 DEF HookInv

LEMMA WithoutInterface ==
  ASSUME HookInv, NEW i \in Interfaces
  PROVE  /\ HcHook!Without(i) \in Seq(Interfaces) /\ IsInjective(HcHook!Without(i))
         /\ ToSet(HcHook!Without(i)) = ToSet(unseen) \ {i}
         /\ Len(HcHook!Without(i)) <= Len(unseen)
  <1>1. unseen \in Seq(Interfaces) /\ IsInjective(unseen) /\ Len(unseen) \in Nat
    BY DEF HookInv, HookTypes
  <1>2. CASE \A n \in 1 .. Len(unseen) : unseen[n] # i
    <2>1. HcHook!Without(i) = unseen
      BY <1>2 DEF HcHook!Without
    <2>2. i \notin ToSet(unseen)
      BY <1>1, <1>2 DEF ToSet
    <2>3. QED
      BY <1>1, <2>1, <2>2
  <1>3. CASE ~\A n \in 1 .. Len(unseen) : unseen[n] # i
    <2>1. PICK n : n = CHOOSE m \in 1 .. Len(unseen) : unseen[m] = i
      OBVIOUS
    <2>2. n \in 1 .. Len(unseen) /\ unseen[n] = i
      BY <1>3, <2>1
    <2>3. HcHook!Without(i) = RemoveAt(unseen, n)
      BY <1>3, <2>1 DEF HcHook!Without, HcHook!RemoveAt, RemoveAt
    <2>4. PICK s : s = unseen
      OBVIOUS
    <2>5. /\ RemoveAt(s, n) \in Seq(Interfaces) /\ IsInjective(RemoveAt(s, n))
          /\ ToSet(RemoveAt(s, n)) = ToSet(s) \ {s[n]} /\ Len(RemoveAt(s, n)) = Len(s) - 1
      BY <1>1, <2>2, <2>4, RemoveElement, RemoveElementAt
    <2>6. QED
      BY <1>1, <2>2, <2>3, <2>4, <2>5
  <1>4. QED
    BY <1>2, <1>3

(* Steps of the firmware: what is unseen becomes waiting, without an        *)
(* interface and with it again at the end.                                  *)
LEMMA HookInstalled ==
  ASSUME HookInv, HookConstants, HcHook!InstallProtocol
  PROVE  HookInv'
  <1>1. PICK i \in Interfaces, c \in Controllers :
          /\ functions[i] = "none" /\ functions' = [functions EXCEPT ![i] = c]
          /\ owner' = [owner EXCEPT ![i] = c]
          /\ unseen' = Append(unseen, i)
          /\ pending' = (IF pending = Absent THEN Absent ELSE TRUE)
          /\ merged' = (IF pending = TRUE THEN merged + 1 ELSE merged)
          /\ hookCall' = [is |-> "idle"] /\ UNCHANGED << mUsb2HcHookQueue, firstOwner >>
    BY DEF HcHook!InstallProtocol, HcHook!Signal, HcHook!Idle, HcHook!None
  <1>2. HookTypes /\ unseen \in Seq(Interfaces) /\ Len(unseen) \in Nat
    BY DEF HookInv, HookTypes
  <1>3. i \notin ToSet(unseen)
    BY <1>1 DEF HookInv, UnseenInstalled
  <1>4. /\ unseen' \in Seq(Interfaces) /\ IsInjective(unseen') /\ ToSet(unseen') = ToSet(unseen) \cup {i}
        /\ Len(unseen') = Len(unseen) + 1
    <2>1. PICK s : s = unseen
      OBVIOUS
    <2>2. /\ Append(s, i) \in Seq(Interfaces) /\ IsInjective(Append(s, i))
          /\ ToSet(Append(s, i)) = ToSet(s) \cup {i} /\ Len(Append(s, i)) = Len(s) + 1
      BY <1>2, <1>3, <2>1, AppendElement DEF HookTypes
    <2>3. QED
      BY <1>1, <2>1, <2>2
  <1>5. /\ \A j \in Interfaces : functions'[j] = IF j = i THEN c ELSE functions[j]
        /\ \A j \in Interfaces : owner'[j] = IF j = i THEN c ELSE owner[j]
        /\ functions' \in [Interfaces -> Controllers \cup {"hook", "none"}]
        /\ owner' \in [Interfaces -> Controllers \cup {Absent}]
    BY <1>1, <1>2 DEF HookTypes
  <1>6. c # "hook" /\ c # "none" /\ c # Absent
    BY DEF HookConstants
  <1>7. HookTypes'
    BY <1>1, <1>2, <1>4, <1>5 DEF HookTypes
  <1>8. OwnFunctions'
    BY <1>4, <1>5 DEF HookInv, OwnFunctions
  <1>9. UnseenInstalled'
    <2>1. \A j \in ToSet(unseen) : j \in Interfaces
      BY <1>2 DEF ToSet
    <2>2. QED
      BY <1>4, <1>5, <1>6, <2>1 DEF HookInv, UnseenInstalled
  <1>10. NotesTell'
    <2>1. \A j \in Interfaces : functions'[j] = "hook" => functions[j] = "hook"
      BY <1>5, <1>6
    <2>2. QED
      BY <1>1, <2>1 DEF HookInv, NotesTell, NoteOf, FirstNote
  <1>11. OneSignal'
    <2>1. pending' = Absent \/ (pending' = TRUE /\ pending # Absent)
      BY <1>1
    <2>2. pending' # FALSE /\ (pending' = TRUE => pending # Absent)
      BY <2>1 DEF HookConstants
    <2>3. pending \in BOOLEAN \cup {Absent} /\ merged \in Nat
      BY <1>2 DEF HookTypes
    <2>4. pending = TRUE => Len(unseen') <= merged' + 1
      <3>1. pending = TRUE => Len(unseen) <= merged + 1 /\ merged' = merged + 1
        BY <1>1 DEF HookInv, OneSignal
      <3>2. QED
        BY <1>2, <1>4, <2>3, <3>1
    <2>5. pending = FALSE => Len(unseen') <= merged' + 1
      <3>1. pending = FALSE => Len(unseen) <= merged /\ merged' = merged
        BY <1>1 DEF HookInv, OneSignal
      <3>2. QED
        BY <1>2, <1>4, <2>3, <3>1
    <2>6. QED
      BY <2>2, <2>3, <2>4, <2>5 DEF OneSignal
  <1>12. CallReaches'
    BY <1>1 DEF CallReaches
  <1>13. QED
    BY <1>7, <1>8, <1>9, <1>10, <1>11, <1>12 DEF HookInv

LEMMA HookUninstalled ==
  ASSUME HookInv, HookConstants, HcHook!UninstallProtocol
  PROVE  HookInv'
  <1>1. PICK i \in Interfaces :
          /\ functions' = [functions EXCEPT ![i] = "none"] /\ unseen' = HcHook!Without(i)
          /\ hookCall' = [is |-> "idle"]
          /\ UNCHANGED << owner, pending, mUsb2HcHookQueue, firstOwner, merged >>
    BY DEF HcHook!UninstallProtocol, HcHook!Installed, HcHook!Idle, HcHook!None
  <1>2. HookTypes /\ unseen \in Seq(Interfaces) /\ Len(unseen) \in Nat
    BY DEF HookInv, HookTypes
  <1>3. /\ unseen' \in Seq(Interfaces) /\ IsInjective(unseen') /\ ToSet(unseen') = ToSet(unseen) \ {i}
        /\ Len(unseen') <= Len(unseen) /\ Len(unseen') \in Nat
    BY <1>1, WithoutInterface
  <1>4. /\ \A j \in Interfaces : functions'[j] = IF j = i THEN "none" ELSE functions[j]
        /\ functions' \in [Interfaces -> Controllers \cup {"hook", "none"}]
    BY <1>1, <1>2 DEF HookTypes
  <1>5. HookTypes'
    BY <1>1, <1>2, <1>3, <1>4 DEF HookTypes
  <1>6. OwnFunctions'
    BY <1>1, <1>3, <1>4 DEF HookInv, OwnFunctions, HookConstants
  <1>7. UnseenInstalled'
    <2>1. \A j \in ToSet(unseen) : j \in Interfaces
      BY <1>2 DEF ToSet
    <2>2. QED
      BY <1>3, <1>4, <2>1 DEF HookInv, UnseenInstalled
  <1>8. NotesTell'
    <2>1. \A n, j : FirstNote(n, j)' => FirstNote(n, j)
      BY <1>1 DEF FirstNote, NoteOf
    <2>2. QED
      BY <1>1, <1>4, <2>1 DEF HookInv, NotesTell, NoteOf
  <1>9. OneSignal'
    <2>1. merged \in Nat /\ merged' = merged /\ pending' = pending
      BY <1>1, <1>2 DEF HookTypes
    <2>2. \A k \in Nat : Len(unseen) <= k => Len(unseen') <= k
      BY <1>2, <1>3
    <2>3. merged + 1 \in Nat
      BY <2>1
    <2>4. QED
      BY <2>1, <2>2, <2>3, Zenon DEF HookInv, OneSignal
  <1>10. CallReaches'
    BY <1>1 DEF CallReaches
  <1>11. QED
    BY <1>5, <1>6, <1>7, <1>8, <1>9, <1>10 DEF HookInv

LEMMA HookReinstalled ==
  ASSUME HookInv, HookConstants, HcHook!ReinstallProtocol
  PROVE  HookInv'
  <1>1. PICK i \in Interfaces :
          /\ functions[i] # "none" /\ unseen' = Append(HcHook!Without(i), i)
          /\ pending' = (IF pending = Absent THEN Absent ELSE TRUE)
          /\ merged' = (IF pending = TRUE THEN merged + 1 ELSE merged)
          /\ hookCall' = [is |-> "idle"]
          /\ UNCHANGED << functions, owner, mUsb2HcHookQueue, firstOwner >>
    BY DEF HcHook!ReinstallProtocol, HcHook!Installed, HcHook!Signal, HcHook!Idle, HcHook!None
  <1>2. HookTypes /\ unseen \in Seq(Interfaces) /\ Len(unseen) \in Nat
    BY DEF HookInv, HookTypes
  <1>3. PICK s : s = HcHook!Without(i)
    OBVIOUS
  <1>4. s \in Seq(Interfaces) /\ IsInjective(s) /\ ToSet(s) = ToSet(unseen) \ {i} /\ Len(s) <= Len(unseen)
    BY <1>3, WithoutInterface
  <1>5. /\ unseen' \in Seq(Interfaces) /\ IsInjective(unseen') /\ ToSet(unseen') = ToSet(unseen) \cup {i}
        /\ Len(unseen') <= Len(unseen) + 1 /\ Len(unseen') \in Nat
    <2>1. /\ Append(s, i) \in Seq(Interfaces) /\ IsInjective(Append(s, i))
          /\ ToSet(Append(s, i)) = ToSet(s) \cup {i} /\ Len(Append(s, i)) = Len(s) + 1 /\ Len(s) \in Nat
      BY <1>4, AppendElement
    <2>2. QED
      BY <1>1, <1>2, <1>3, <1>4, <2>1
  <1>6. HookTypes'
    BY <1>1, <1>2, <1>5 DEF HookTypes
  <1>7. OwnFunctions'
    BY <1>1, <1>5 DEF HookInv, OwnFunctions
  <1>8. UnseenInstalled'
    BY <1>1, <1>5 DEF HookInv, UnseenInstalled, ToSet
  <1>9. NotesTell'
    <2>1. \A n, j : FirstNote(n, j)' => FirstNote(n, j)
      BY <1>1 DEF FirstNote, NoteOf
    <2>2. QED
      BY <1>1, <2>1 DEF HookInv, NotesTell, NoteOf
  <1>10. OneSignal'
    <2>1. pending' = Absent \/ (pending' = TRUE /\ pending # Absent)
      BY <1>1
    <2>2. pending' # FALSE /\ (pending' = TRUE => pending # Absent)
      BY <2>1 DEF HookConstants
    <2>3. pending \in BOOLEAN \cup {Absent} /\ merged \in Nat
      BY <1>2 DEF HookTypes
    <2>4. pending = TRUE => Len(unseen') <= merged' + 1
      <3>1. pending = TRUE => Len(unseen) <= merged + 1 /\ merged' = merged + 1
        BY <1>1 DEF HookInv, OneSignal
      <3>2. QED
        BY <1>2, <1>5, <2>3, <3>1
    <2>5. pending = FALSE => Len(unseen') <= merged' + 1
      <3>1. pending = FALSE => Len(unseen) <= merged /\ merged' = merged
        BY <1>1 DEF HookInv, OneSignal
      <3>2. QED
        BY <1>2, <1>5, <2>3, <3>1
    <2>6. QED
      BY <2>2, <2>3, <2>4, <2>5 DEF OneSignal
  <1>11. CallReaches'
    BY <1>1 DEF CallReaches
  <1>12. QED
    BY <1>6, <1>7, <1>8, <1>9, <1>10, <1>11 DEF HookInv

LEMMA HookRegistered ==
  ASSUME HookInv, HookConstants, HcHook!InitializeUsb2HcHook
  PROVE  HookInv'
  <1>1. /\ pending' = TRUE /\ hookCall' = [is |-> "idle"]
        /\ merged' = IF unseen = << >> THEN 0 ELSE Len(unseen) - 1
        /\ UNCHANGED << functions, owner, unseen, mUsb2HcHookQueue, firstOwner >>
    BY DEF HcHook!InitializeUsb2HcHook, HcHook!Idle
  <1>2. /\ HookTypes /\ unseen \in Seq(Interfaces) /\ Len(unseen) \in Nat
        /\ unseen # << >> => 1 <= Len(unseen)
        /\ unseen = << >> => Len(unseen) = 0
    BY DEF HookInv, HookTypes
  <1>9. merged' \in Nat
    BY <1>1, <1>2
  <1>3. HookTypes'
    BY <1>1, <1>2, <1>9 DEF HookTypes
  <1>4. OwnFunctions' /\ UnseenInstalled'
    BY <1>1 DEF HookInv, OwnFunctions, UnseenInstalled
  <1>5. NotesTell'
    BY <1>1 DEF HookInv, NotesTell, NoteOf, FirstNote
  <1>6. OneSignal' /\ CallReaches'
    <2>1. Len(unseen') <= merged' + 1
      BY <1>1, <1>2
    <2>2. QED
      BY <1>1, <2>1 DEF OneSignal, CallReaches
  <1>7. QED
    BY <1>3, <1>4, <1>5, <1>6 DEF HookInv

(* The hook notes whose functions it replaces: of an interface without a    *)
(* note, its owner's.                                                       *)
LEMMA HookDispatched ==
  ASSUME HookInv, HookConstants, HcHook!Usb2HcProtocolCallback
  PROVE  HookInv'
  <1>1. /\ pending = TRUE /\ pending' = FALSE /\ hookCall' = [is |-> "idle"]
        /\ UNCHANGED << owner, merged >>
    BY DEF HcHook!Usb2HcProtocolCallback, HcHook!Idle
  <1>2. /\ HookTypes /\ unseen \in Seq(Interfaces) /\ Len(unseen) \in Nat /\ IsInjective(unseen)
        /\ mUsb2HcHookQueue \in Seq(Note) /\ Len(mUsb2HcHookQueue) \in Nat
    BY DEF HookInv, HookTypes
  <1>3. CallReaches'
    BY <1>1 DEF CallReaches
  <1>4. CASE unseen = << >>
    <2>1. UNCHANGED << functions, unseen, mUsb2HcHookQueue, firstOwner >>
      BY <1>4 DEF HcHook!Usb2HcProtocolCallback
    <2>2. HookTypes'
      BY <1>1, <1>2, <2>1 DEF HookTypes
    <2>3. OwnFunctions' /\ UnseenInstalled' /\ OneSignal'
      <3>1. Len(unseen) = 0 /\ merged \in Nat
        BY <1>2, <1>4 DEF HookTypes
      <3>2. QED
        BY <1>1, <2>1, <3>1 DEF HookInv, OwnFunctions, UnseenInstalled, OneSignal
    <2>4. NotesTell'
      BY <1>1, <2>1 DEF HookInv, NotesTell, NoteOf, FirstNote
    <2>5. QED
      BY <1>3, <2>2, <2>3, <2>4 DEF HookInv
  <1>5. CASE unseen # << >>
    <2>1. PICK i, org, s, queue : /\ i = unseen[1] /\ org = functions[i] /\ s = unseen
                                  /\ queue = mUsb2HcHookQueue
      OBVIOUS
    <2>2. /\ mUsb2HcHookQueue' = Append(queue, [OrgUsb2Hc |-> org, Usb2Hc |-> i])
          /\ functions' = [functions EXCEPT ![i] = "hook"]
          /\ firstOwner' = [firstOwner EXCEPT ![i] = IF @ = Absent THEN owner[i] ELSE @]
          /\ unseen' = SubSeq(s, 2, Len(s))
      BY <1>5, <2>1 DEF HcHook!Usb2HcProtocolCallback, HcHook!Hook
    <2>3. i \in Interfaces /\ i \in ToSet(unseen) /\ 1 <= Len(unseen)
      BY <1>2, <1>5, <2>1 DEF ToSet
    <2>4. org \in Controllers \cup {"hook"} /\ org # "none"
      BY <1>2, <2>1, <2>3 DEF HookInv, HookTypes, UnseenInstalled
    <2>5. /\ unseen' \in Seq(Interfaces) /\ Len(unseen') = Len(unseen) - 1
          /\ IsInjective(unseen') /\ ToSet(unseen') = ToSet(unseen) \ {i}
      <3>1. /\ SubSeq(s, 2, Len(s)) \in Seq(Interfaces) /\ Len(SubSeq(s, 2, Len(s))) = Len(s) - 1
            /\ \A k \in 1 .. Len(s) - 1 : SubSeq(s, 2, Len(s))[k] = s[k + 1]
        <4>1. s \in Seq(Interfaces) /\ Len(s) \in Nat /\ 1 <= Len(s)
          BY <1>2, <2>1, <2>3
        <4>2. SubSeq(s, 2, Len(s)) \in Seq(Interfaces)
          BY ONLY <4>1
        <4>3. Len(SubSeq(s, 2, Len(s))) = Len(s) - 1
          <5>1. PICK m : m = Len(s)
            OBVIOUS
          <5>2. m \in Nat /\ 1 <= m
            BY <4>1, <5>1
          <5>3. SubSeq(s, 2, m) = [k \in 1 .. m - 1 |-> s[k + 1]]
            BY <4>1, <5>1, <5>2
          <5>4. Len(SubSeq(s, 2, m)) = m - 1
            BY ONLY <5>2, <5>3
          <5>5. QED
            BY <5>1, <5>4
        <4>4. \A k \in 1 .. Len(s) - 1 : SubSeq(s, 2, Len(s))[k] = s[k + 1]
          BY ONLY <4>1
        <4>5. QED
          BY <4>2, <4>3, <4>4
      <3>2. PICK t : t = SubSeq(s, 2, Len(s))
        OBVIOUS
      <3>3. /\ t \in Seq(Interfaces) /\ Len(t) = Len(s) - 1
            /\ \A k \in 1 .. Len(s) - 1 : t[k] = s[k + 1]
        BY <3>1, <3>2
      <3>4. /\ s \in Seq(Interfaces) /\ Len(s) \in Nat /\ i = s[1] /\ 1 <= Len(s)
            /\ \A k, m \in 1 .. Len(s) : s[k] = s[m] => k = m
        BY <1>2, <2>1, <2>3 DEF IsInjective
      <3>5. IsInjective(t)
        <4>1. ASSUME NEW k \in 1 .. Len(t), NEW m \in 1 .. Len(t), t[k] = t[m] PROVE k = m
          <5>1. /\ k \in 1 .. Len(s) - 1 /\ k + 1 \in 1 .. Len(s)
                /\ m \in 1 .. Len(s) - 1 /\ m + 1 \in 1 .. Len(s)
            BY <3>3, <3>4, <4>1
          <5>2. s[k + 1] = s[m + 1]
            BY <3>3, <4>1, <5>1
          <5>3. k + 1 = m + 1
            BY <3>4, <5>1, <5>2
          <5>4. QED
            BY <5>1, <5>3
        <4>2. QED
          BY <3>3, <4>1 DEF IsInjective
      <3>6. \A j : j \in ToSet(t) <=> \E k \in 1 .. Len(s) - 1 : s[k + 1] = j
        <4>1. DOMAIN t = 1 .. Len(s) - 1
          BY <3>3
        <4>2. ToSet(t) = { t[k] : k \in 1 .. Len(s) - 1 }
          BY ONLY <4>1 DEF ToSet
        <4>3. QED
          BY ONLY <3>3, <4>2
      <3>7. \A j : j \in ToSet(s) <=> \E k \in 1 .. Len(s) : s[k] = j
        <4>1. DOMAIN s = 1 .. Len(s)
          BY <3>4
        <4>2. QED
          BY ONLY <4>1 DEF ToSet
      <3>8. ASSUME NEW j PROVE j \in ToSet(t) <=> j \in ToSet(s) \ {i}
        <4>1. ASSUME NEW k \in 1 .. Len(s) - 1, s[k + 1] = j PROVE j \in ToSet(s) \ {i}
          <5>1. k + 1 \in 1 .. Len(s) /\ k + 1 # 1 /\ 1 \in 1 .. Len(s)
            BY <3>4
          <5>2. QED
            BY <3>4, <3>7, <4>1, <5>1
        <4>2. ASSUME NEW k \in 1 .. Len(s), s[k] = j, j # i PROVE j \in ToSet(t)
          <5>1. k # 1
            BY <3>4, <4>2
          <5>2. k - 1 \in 1 .. Len(s) - 1 /\ (k - 1) + 1 = k
            BY <3>4, <5>1
          <5>3. QED
            BY <3>6, <4>2, <5>2
        <4>3. QED
          BY <3>6, <3>7, <4>1, <4>2
      <3>9. QED
        BY <2>1, <2>2, <3>2, <3>3, <3>5, <3>8
    <2>6. PICK note \in Note : note = [OrgUsb2Hc |-> org, Usb2Hc |-> i]
      BY <2>3, <2>4 DEF Note
    <2>7. /\ mUsb2HcHookQueue' \in Seq(Note) /\ Len(mUsb2HcHookQueue') = Len(queue) + 1
          /\ NoteOf(Len(queue) + 1)' = note
          /\ \A n \in 1 .. Len(queue) : NoteOf(n)' = NoteOf(n)
      BY <1>2, <2>1, <2>2, <2>6 DEF NoteOf
    <2>8. note.OrgUsb2Hc = org /\ note.Usb2Hc = i
      BY <2>6
    <2>9. /\ \A j \in Interfaces : functions'[j] = IF j = i THEN "hook" ELSE functions[j]
          /\ functions' \in [Interfaces -> Controllers \cup {"hook", "none"}]
      BY <1>2, <2>2 DEF HookTypes
    <2>16. owner[i] \in Controllers /\ owner[i] # Absent
      BY <2>1, <2>3, <2>4 DEF HookInv, OwnFunctions, HookConstants
    <2>17. /\ \A j \in Interfaces : firstOwner'[j] = IF j = i /\ firstOwner[i] = Absent
                                                     THEN owner[i] ELSE firstOwner[j]
           /\ firstOwner' \in [Interfaces -> Controllers \cup {Absent}]
      BY <1>2, <2>2, <2>3, <2>16 DEF HookTypes
    <2>10. HookTypes'
      BY <1>1, <1>2, <2>5, <2>7, <2>9, <2>17 DEF HookTypes
    <2>11. OwnFunctions'
      BY <1>1, <2>5, <2>9, <2>16 DEF HookInv, OwnFunctions, HookConstants
    <2>12. UnseenInstalled'
      <3>1. \A j \in ToSet(unseen) : j \in Interfaces
        BY <1>2 DEF ToSet
      <3>2. QED
        BY <2>5, <2>9, <3>1 DEF HookInv, UnseenInstalled
    <2>13. NotesTell'
      <3>1. /\ firstOwner'[i] \in Controllers
            /\ \A j \in Interfaces : firstOwner[j] \in Controllers => firstOwner'[j] = firstOwner[j]
            /\ \A j \in Interfaces : firstOwner'[j] \in Controllers => firstOwner[j] \in Controllers \/ j = i
        BY <1>2, <2>3, <2>16, <2>17 DEF HookTypes, HookConstants
      <3>2. \A n \in 1 .. Len(queue) + 1 : n \in 1 .. Len(queue) \/ n = Len(queue) + 1
        BY <1>2, <2>1
      <3>3. /\ \A n \in 1 .. Len(queue) : n \in 1 .. Len(queue) + 1
            /\ Len(queue) + 1 \in 1 .. Len(queue) + 1
        BY <1>2, <2>1
      <3>8. \A j \in Interfaces : functions'[j] = "hook" => firstOwner'[j] \in Controllers
        BY <2>9, <3>1 DEF HookInv, NotesTell
      <3>4. ASSUME NEW j \in Interfaces, firstOwner'[j] \in Controllers
            PROVE  \E n \in 1 .. Len(mUsb2HcHookQueue') : NoteOf(n)'.Usb2Hc = j
        <4>1. CASE j = i
          BY <2>7, <2>8, <3>3, <4>1
        <4>2. CASE j # i
          <5>1. PICK n \in 1 .. Len(queue) : NoteOf(n).Usb2Hc = j
            BY <2>1, <3>1, <3>4, <4>2 DEF HookInv, NotesTell
          <5>2. QED
            BY <2>7, <3>3, <5>1
        <4>3. QED
          BY <4>1, <4>2
      <3>9. \A n \in 1 .. Len(queue) : NoteOf(n).Usb2Hc \in Interfaces
        <4>1. \A n \in 1 .. Len(queue) : NoteOf(n) \in Note
          BY <1>2, <2>1 DEF NoteOf
        <4>2. QED
          BY <4>1 DEF Note
      <3>5. \A n \in 1 .. Len(mUsb2HcHookQueue') : firstOwner'[NoteOf(n)'.Usb2Hc] \in Controllers
        BY <2>1, <2>7, <2>8, <3>1, <3>2, <3>9 DEF HookInv, NotesTell
      <3>6. ASSUME NEW j \in Interfaces, NEW n \in 1 .. Len(mUsb2HcHookQueue'), FirstNote(n, j)'
            PROVE  NoteOf(n)'.OrgUsb2Hc = firstOwner'[j]
        <4>1. NoteOf(n)'.Usb2Hc = j /\ \A m \in 1 .. n - 1 : NoteOf(m)'.Usb2Hc # j
          BY <3>6 DEF FirstNote
        <4>2. CASE n \in 1 .. Len(queue)
          <5>1. \A m \in 1 .. n - 1 : m \in 1 .. Len(queue)
            BY <1>2, <2>1, <4>2
          <5>2. FirstNote(n, j)
            BY <2>1, <2>7, <4>1, <4>2, <5>1 DEF FirstNote
          <5>3. NoteOf(n)'.OrgUsb2Hc = firstOwner[j] /\ firstOwner[j] \in Controllers
            BY <2>1, <2>7, <4>1, <4>2, <5>2 DEF HookInv, NotesTell
          <5>4. QED
            BY <3>1, <5>3
        <4>3. CASE n = Len(queue) + 1
          <5>1. j = i /\ NoteOf(n)'.OrgUsb2Hc = org
            BY <2>7, <2>8, <4>1, <4>3
          <5>2. \A m \in 1 .. Len(queue) : NoteOf(m).Usb2Hc # i
            BY <1>2, <2>1, <2>7, <4>1, <4>3, <5>1
          <5>3. firstOwner[i] \notin Controllers /\ functions[i] # "hook"
            BY <2>1, <2>3, <5>2 DEF HookInv, NotesTell
          <5>4. firstOwner[i] = Absent /\ org = owner[i]
            BY <1>2, <2>1, <2>3, <2>4, <5>3 DEF HookInv, OwnFunctions, HookTypes
          <5>5. QED
            BY <2>3, <2>17, <5>1, <5>4
        <4>4. QED
          BY <2>7, <3>2, <4>2, <4>3
      <3>7. QED
        BY <3>4, <3>5, <3>6, <3>8 DEF NotesTell
    <2>14. OneSignal'
      BY <1>1, <1>2, <2>5 DEF HookInv, OneSignal, HookTypes
    <2>15. QED
      BY <1>3, <2>10, <2>11, <2>12, <2>13, <2>14 DEF HookInv
  <1>6. QED
    BY <1>4, <1>5

(* A call through the hook finds the first note of its interface. *)
LEMMA NoteFound ==
  ASSUME HookInv, NEW this \in Interfaces, functions[this] = "hook"
  PROVE  HcHook!GetUsb2HcHookPrivateFromThis(this).OrgUsb2Hc = firstOwner[this]
  <1> DEFINE S == { n \in 1 .. Len(mUsb2HcHookQueue) : mUsb2HcHookQueue[n].Usb2Hc = this }
  <1>1. Len(mUsb2HcHookQueue) \in Nat /\ S # {} /\ S \subseteq Nat
    BY DEF HookInv, HookTypes, NotesTell, NoteOf
  <1>2. PICK s, n : s = S /\ n = CHOOSE k \in s : \A m \in s : k <= m
    OBVIOUS
  <1>3. n \in S /\ \A m \in S : n <= m
    <2>1. PICK l, k : l = Len(mUsb2HcHookQueue) /\ k = Min(s)
      OBVIOUS
    <2>2. k \in s /\ \A x \in s : k <= x
      BY <1>1, <1>2, <2>1, LeastIndex
    <2>3. QED
      BY <1>2, <2>2
  <1>4. FirstNote(n, this)
    <2>1. \A m \in 1 .. n - 1 : m \in 1 .. Len(mUsb2HcHookQueue) /\ ~(n <= m)
      BY <1>1, <1>3
    <2>2. QED
      BY <1>3, <2>1 DEF FirstNote, NoteOf
  <1>5. HcHook!GetUsb2HcHookPrivateFromThis(this) = NoteOf(n)
    BY <1>1, <1>2 DEF HcHook!GetUsb2HcHookPrivateFromThis, NoteOf
  <1>6. QED
    BY <1>4, <1>5 DEF HookInv, NotesTell, FirstNote

LEMMA HookCalled ==
  ASSUME HookInv, HookConstants, NEW this \in HcHook!Installed, HcHook!Call(this)
  PROVE  HookInv'
  <1>1. PICK org : org = HcHook!GetUsb2HcHookPrivateFromThis(this).OrgUsb2Hc
    OBVIOUS
  <1>2. \A function : HcHook!Forward(function, this) =>
          /\ functions[this] = "hook"
          /\ hookCall'.is = "call" /\ hookCall'.this = this
          /\ hookCall'.reached = IF org = "hook" THEN "endless" ELSE org
          /\ UNCHANGED HcHook!Firmware
    BY <1>1 DEF HcHook!Forward, HcHook!Hook
  <1>3. \A function : HcHook!Unsupported(function, this) =>
          functions[this] = "hook" /\ hookCall'.is = "unsupported" /\ UNCHANGED HcHook!Firmware
    BY DEF HcHook!Unsupported, HcHook!Hook
  <1>4. \A function, direction, dataLength, translator, success :
          HcHook!ForwardAndDump(function, this, direction, dataLength, translator, success)
          => /\ functions[this] = "hook" /\ hookCall'.this = this /\ hookCall'.function = function
             /\ hookCall'.is \in {"call", "crash"}
             /\ hookCall'.is = "crash" =>
                  translator = Absent \/ (dataLength = Absent /\ direction # "NoData")
             /\ hookCall'.reached = IF org = "hook" THEN "endless" ELSE org
             /\ UNCHANGED HcHook!Firmware
    BY <1>1 DEF HcHook!ForwardAndDump, HcHook!Hook
  <1>5. \/ \E function : HcHook!Forward(function, this) \/ HcHook!Unsupported(function, this)
        \/ HcHook!Usb2HcHookControlTransfer(this) \/ HcHook!Usb2HcHookBulkTransfer(this)
        \/ HcHook!Usb2HcHookSyncInterruptTransfer(this)
        \/ HcHook!Usb2HcHookAsyncInterruptTransfer(this)
    BY Zenon
       DEF HcHook!Call, HcHook!Usb2HcHookGetCapability, HcHook!Usb2HcHookReset,
           HcHook!Usb2HcHookGetState, HcHook!Usb2HcHookSetState,
           HcHook!Usb2HcHookGetRootHubPortStatus,
           HcHook!Usb2HcHookSetRootHubPortFeature, HcHook!Usb2HcHookClearRootHubPortFeature,
           HcHook!Usb2HcHookIsochronousTransfer, HcHook!Usb2HcHookAsyncIsochronousTransfer
  <1>6. HcHook!Usb2HcHookControlTransfer(this) =>
          \E direction, dataLength, success :
            /\ HcHook!ForwardAndDump("ControlTransfer", this, direction, dataLength, "given", success)
            /\ dataLength = Absent => direction = "NoData"
    BY DEF HcHook!Usb2HcHookControlTransfer, HookConstants
  <1>7. /\ HcHook!Usb2HcHookBulkTransfer(this) =>
             \E direction, success :
               HcHook!ForwardAndDump("BulkTransfer", this, direction, "given", "given", success)
        /\ HcHook!Usb2HcHookSyncInterruptTransfer(this) =>
             \E direction, success :
               HcHook!ForwardAndDump("SyncInterruptTransfer", this, direction, "given", "given", success)
        /\ HcHook!Usb2HcHookAsyncInterruptTransfer(this) =>
             \E translator :
               HcHook!ForwardAndDump("AsyncInterruptTransfer", this, "NoData", Absent, translator, TRUE)
    BY DEF HcHook!Usb2HcHookBulkTransfer, HcHook!Usb2HcHookSyncInterruptTransfer,
           HcHook!Usb2HcHookAsyncInterruptTransfer
  <1> DEFINE Called ==
        /\ functions[this] = "hook" /\ UNCHANGED HcHook!Firmware
        /\ hookCall'.is \in {"call", "crash"} =>
             /\ hookCall'.this = this
             /\ hookCall'.reached = IF org = "hook" THEN "endless" ELSE org
        /\ hookCall'.is = "crash" => hookCall'.function = "AsyncInterruptTransfer"
  <1>8. Called
    <2>1. \A function : HcHook!Forward(function, this) \/ HcHook!Unsupported(function, this) => Called
      BY <1>2, <1>3
    <2>2. "given" # Absent
      BY DEF HookConstants
    <2>3. HcHook!Usb2HcHookControlTransfer(this) => Called
      BY <1>4, <1>6, <2>2
    <2>4. HcHook!Usb2HcHookBulkTransfer(this) \/ HcHook!Usb2HcHookSyncInterruptTransfer(this) => Called
      BY <1>4, <1>7, <2>2
    <2>5. HcHook!Usb2HcHookAsyncInterruptTransfer(this) => Called
      BY <1>4, <1>7
    <2>6. QED
      BY <1>5, <2>1, <2>3, <2>4, <2>5
  <1>9. UNCHANGED << functions, owner, unseen, pending, mUsb2HcHookQueue, firstOwner, merged >>
    BY <1>8 DEF HcHook!Firmware
  <1>10. this \in Interfaces
    BY DEF HcHook!Installed
  <1>11. org = firstOwner[this] /\ firstOwner[this] \in Controllers /\ org # "hook"
    BY <1>1, <1>8, <1>10, NoteFound DEF HookInv, NotesTell, HookConstants
  <1>12. CallReaches'
    BY <1>8, <1>9, <1>11 DEF CallReaches
  <1>13. HookTypes'
    BY <1>9 DEF HookInv, HookTypes
  <1>14. OwnFunctions' /\ UnseenInstalled' /\ OneSignal'
    BY <1>9 DEF HookInv, OwnFunctions, UnseenInstalled, OneSignal
  <1>15. NotesTell'
    BY <1>9 DEF HookInv, NotesTell, NoteOf, FirstNote
  <1>16. QED
    BY <1>12, <1>13, <1>14, <1>15 DEF HookInv

LEMMA HookStutter == ASSUME HookInv, UNCHANGED HcHook!vars PROVE HookInv'
  <1>1. UNCHANGED << functions, owner, unseen, pending, mUsb2HcHookQueue, firstOwner, merged, hookCall >>
    BY DEF HcHook!vars
  <1>2. HookTypes'
    BY <1>1 DEF HookInv, HookTypes
  <1>3. OwnFunctions' /\ UnseenInstalled' /\ OneSignal' /\ CallReaches'
    BY <1>1 DEF HookInv, OwnFunctions, UnseenInstalled, OneSignal, CallReaches
  <1>4. NotesTell'
    BY <1>1 DEF HookInv, NotesTell, NoteOf, FirstNote
  <1>5. QED
    BY <1>2, <1>3, <1>4 DEF HookInv

LEMMA HookCorrect == ASSUME HookConstants PROVE HcHook!Spec => []HcHook!HookTransparent
  <1>1. HcHook!Init => HookInv
    BY HookInit
  <1>2. HookInv /\ [HcHook!Next]_(HcHook!vars) => HookInv'
    BY HookInstalled, HookUninstalled, HookReinstalled, HookRegistered, HookDispatched, HookCalled,
       HookStutter DEF HcHook!Next
  <1>3. HookInv => HcHook!HookTransparent
    BY HookImplies
  <1>4. QED
    BY <1>1, <1>2, <1>3, PTL DEF HcHook!Spec


StubConstants == Sizes \subseteq Nat /\ Lengths \subseteq Nat

StubInv ==
  /\ given \in [Stubs!Stubs -> [Stubs!Kinds -> Sizes \cup {-1}]]
  /\ answer.service = "control" => answer.stub \in Stubs!Stubs /\ answer.asked \in Nat
  /\ Stubs!DescriptorsExact

LEMMA DescriptorFits ==
  ASSUME StubConstants, NEW stub \in Stubs!Stubs, NEW kind \in Stubs!Kinds, NEW asked \in Nat,
         given \in [Stubs!Stubs -> [Stubs!Kinds -> Sizes \cup {-1}]]
  PROVE  LET data == Stubs!Descriptor(stub, kind, asked)
             size == given[stub][kind]
         IN  /\ data.from \in {stub} \X {kind} \X {"given", "built in"}
             /\ data.from[3] = "built in" => size = -1
             /\ data.count <= (IF size = -1 THEN Stubs!SizeOf(kind) ELSE size)
             /\ data.count \in Nat
  <1>1. Stubs!SizeOf(kind) \in Nat
    BY DEF Stubs!SizeOf, Stubs!Kinds, Stubs!mDeviceDesc, Stubs!mConfigDesc, Stubs!mStringDesc
  <1>2. PICK size : size = given[stub][kind]
    OBVIOUS
  <1>3. size \in Nat \cup {-1}
    BY <1>2 DEF StubConstants
  <1>4. CASE size # -1
    <2>1. Stubs!Descriptor(stub, kind, asked)
            = [from |-> << stub, kind, "given" >>, count |-> Stubs!Smaller(asked, size)]
      BY <1>2, <1>4 DEF Stubs!Descriptor, Stubs!NoBuffer
    <2>2. Stubs!Smaller(asked, size) <= size /\ Stubs!Smaller(asked, size) \in Nat
      BY <1>3, <1>4 DEF Stubs!Smaller
    <2>3. PICK data : data = Stubs!Descriptor(stub, kind, asked)
      OBVIOUS
    <2>4. PICK from : from = << stub, kind, "given" >>
      OBVIOUS
    <2>5. data.from = from /\ data.count = Stubs!Smaller(asked, size)
      BY <2>1, <2>3, <2>4
    <2>6. from \in {stub} \X {kind} \X {"given", "built in"} /\ from[3] = "given"
      BY ONLY <2>4
    <2>7. QED
      BY <1>2, <1>4, <2>2, <2>3, <2>5, <2>6
  <1>5. CASE size = -1
    <2>1. Stubs!Descriptor(stub, kind, asked)
            = [from |-> << stub, kind, "built in" >>, count |-> Stubs!Smaller(asked, Stubs!SizeOf(kind))]
      BY <1>2, <1>5 DEF Stubs!Descriptor, Stubs!NoBuffer
    <2>2. /\ Stubs!Smaller(asked, Stubs!SizeOf(kind)) <= Stubs!SizeOf(kind)
          /\ Stubs!Smaller(asked, Stubs!SizeOf(kind)) \in Nat
      BY <1>1 DEF Stubs!Smaller
    <2>3. PICK data : data = Stubs!Descriptor(stub, kind, asked)
      OBVIOUS
    <2>4. PICK from : from = << stub, kind, "built in" >>
      OBVIOUS
    <2>5. data.from = from /\ data.count = Stubs!Smaller(asked, Stubs!SizeOf(kind))
      <3>1. PICK n : n = Stubs!Smaller(asked, Stubs!SizeOf(kind))
        OBVIOUS
      <3>2. data = [from |-> from, count |-> n]
        BY <2>1, <2>3, <2>4, <3>1
      <3>3. QED
        BY <3>1, <3>2
    <2>6. from \in {stub} \X {kind} \X {"given", "built in"} /\ from[3] = "built in"
      BY ONLY <2>4
    <2>7. QED
      BY <1>2, <1>5, <2>2, <2>3, <2>5, <2>6
  <1>6. QED
    BY <1>4, <1>5

LEMMA StubTransfers ==
  ASSUME StubInv, StubConstants, Stubs!ControlTransfer
  PROVE  StubInv'
  <1>1. PICK request \in Stubs!Requests, asked \in Lengths :
          /\ answer' \in {Stubs!Usb2HcStubControlTransfer(request, asked),
                          Stubs!Usb2HcPpiStubControlTransfer(request, asked),
                          Stubs!UsbIoPpiStubControlTransfer(request, asked)}
          /\ given' = given
    BY Zenon DEF Stubs!ControlTransfer
  <1>2. asked \in Nat /\ given \in [Stubs!Stubs -> [Stubs!Kinds -> Sizes \cup {-1}]]
    BY DEF StubConstants, StubInv
  <1>3. PICK stub, transfer :
          /\ stub \in Stubs!Stubs
          /\ transfer = Stubs!Transfer(stub, request, asked)
          /\ (answer' = transfer) \/ (answer' = Stubs!ByReference(transfer))
          /\ stub # "UsbIoPpi" => answer' = Stubs!ByReference(transfer)
    BY <1>1 DEF Stubs!Stubs, Stubs!Usb2HcStubControlTransfer, Stubs!Usb2HcPpiStubControlTransfer,
                Stubs!UsbIoPpiStubControlTransfer
  <1>4. PICK data : /\ data = IF Stubs!Answered(request) THEN Stubs!Descriptor(stub, request.value, asked)
                              ELSE Stubs!Before
                    /\ transfer = [ service |-> "control", stub |-> stub, request |-> request,
                                    asked |-> asked, status |-> Stubs!EFI_SUCCESS, data |-> data ]
    BY <1>3 DEF Stubs!Transfer
  <1>5. Stubs!Answered(request) => request.value \in Stubs!Kinds
    BY DEF Stubs!Answered
  <1>6. Stubs!Answered(request) =>
          /\ data.from \in {stub} \X {request.value} \X {"given", "built in"}
          /\ data.from[3] = "built in" => given[stub][request.value] = -1
          /\ data.count <= (IF given[stub][request.value] = -1 THEN Stubs!SizeOf(request.value)
                            ELSE given[stub][request.value])
          /\ data.count \in Nat
    <2>1. SUFFICES ASSUME Stubs!Answered(request)
                   PROVE  /\ data.from \in {stub} \X {request.value} \X {"given", "built in"}
                          /\ data.from[3] = "built in" => given[stub][request.value] = -1
                          /\ data.count <= (IF given[stub][request.value] = -1
                                            THEN Stubs!SizeOf(request.value)
                                            ELSE given[stub][request.value])
                          /\ data.count \in Nat
      OBVIOUS
    <2>2. PICK kind \in Stubs!Kinds : kind = request.value
      BY <1>5, <2>1
    <2>3. data = Stubs!Descriptor(stub, kind, asked)
      BY <1>4, <2>1, <2>2
    <2>4. stub \in Stubs!Stubs
      BY <1>3
    <2>5. LET it == Stubs!Descriptor(stub, kind, asked)
              size == given[stub][kind]
          IN  /\ it.from \in {stub} \X {kind} \X {"given", "built in"}
              /\ it.from[3] = "built in" => size = -1
              /\ it.count <= (IF size = -1 THEN Stubs!SizeOf(kind) ELSE size)
              /\ it.count \in Nat
      BY ONLY <1>2, <2>4, kind \in Stubs!Kinds, StubConstants, DescriptorFits
    <2>6. QED
      BY <2>2, <2>3, <2>5
  <1>7. PICK said : /\ answer' = [ service |-> "control", stub |-> stub, request |-> request,
                                   asked |-> said, status |-> Stubs!EFI_SUCCESS, data |-> data ]
                    /\ said = asked \/ (Stubs!Answered(request) /\ said = data.count)
                    /\ stub # "UsbIoPpi" /\ Stubs!Answered(request) => said = data.count
    <2>1. Stubs!ByReference(transfer)
            = [ service |-> "control", stub |-> stub, request |-> request,
                asked |-> IF Stubs!Answered(request) THEN data.count ELSE asked,
                status |-> Stubs!EFI_SUCCESS, data |-> data ]
      BY <1>4 DEF Stubs!ByReference
    <2>2. QED
      BY <1>3, <1>4, <2>1
  <1>8. answer'.stub = stub /\ answer'.request = request /\ answer'.data = data /\ answer'.asked = said
    BY <1>7
  <1>9. said \in Nat
    BY <1>2, <1>6, <1>7
  <1>10. Stubs!DescriptorsExact'
    BY <1>1, <1>6, <1>7, <1>8 DEF Stubs!DescriptorsExact, Stubs!NoBuffer
  <1>11. QED
    BY <1>1, <1>2, <1>3, <1>8, <1>9, <1>10 DEF StubInv

LEMMA StubsCorrect == ASSUME StubConstants PROVE Stubs!Spec => []Stubs!DescriptorsExact
  <1>1. Stubs!Init => StubInv
    BY DEF Stubs!Init, Stubs!NoAnswer, StubInv, Stubs!DescriptorsExact, Stubs!NoBuffer
  <1>2. ASSUME StubInv, [Stubs!Next]_(Stubs!vars) PROVE StubInv'
    <2>1. CASE Stubs!Initialize
      <3>1. PICK buffers \in [Stubs!Kinds -> Sizes \cup {-1}] :
              /\ \E stub \in Stubs!Stubs : given' = [given EXCEPT ![stub] = buffers]
              /\ answer' = Stubs!NoAnswer
        BY <2>1 DEF Stubs!Initialize, Stubs!Usb2HcStubInitialize, Stubs!Usb2HcPpiStubInitialize,
                    Stubs!UsbIoPpiStubInitialize, Stubs!Stubs, Stubs!NoBuffer
      <3>2. answer'.service # "control"
        BY <3>1 DEF Stubs!NoAnswer
      <3>3. given' \in [Stubs!Stubs -> [Stubs!Kinds -> Sizes \cup {-1}]]
        BY <1>2, <3>1 DEF StubInv
      <3>4. QED
        BY <3>2, <3>3 DEF StubInv, Stubs!DescriptorsExact
    <2>2. CASE Stubs!ControlTransfer
      BY <1>2, <2>2, StubTransfers
    <2>3. CASE Stubs!OtherService
      <3>1. PICK stub, name :
              /\ stub \in Stubs!Stubs /\ name \in Stubs!Unsupported(stub)
              /\ answer' = [service |-> name, stub |-> stub, status |-> Stubs!EFI_UNSUPPORTED]
              /\ given' = given
        BY <2>3 DEF Stubs!OtherService
      <3>2. name # "control"
        BY <3>1 DEF Stubs!Stubs, Stubs!Unsupported, Stubs!Usb2HcStubStateServices,
                    Stubs!Usb2HcStubOtherServices, Stubs!Usb2HcPpiStubOtherServices,
                    Stubs!UsbIoPpiStubOtherServices
      <3>3. answer'.service # "control" /\ given' = given
        BY <3>1, <3>2
      <3>4. QED
        BY <1>2, <3>3 DEF StubInv, Stubs!DescriptorsExact
    <2>4. CASE Stubs!Return
      BY <1>2, <2>4 DEF Stubs!Return, Stubs!NoAnswer, StubInv, Stubs!DescriptorsExact
    <2>5. CASE UNCHANGED Stubs!vars
      BY <1>2, <2>5 DEF Stubs!vars, StubInv, Stubs!DescriptorsExact
    <2>6. QED
      BY <1>2, <2>1, <2>2, <2>3, <2>4, <2>5 DEF Stubs!Next
  <1>3. StubInv => Stubs!DescriptorsExact
    BY DEF StubInv
  <1>4. QED
    BY <1>1, <1>2, <1>3, PTL DEF Stubs!Spec

(***************************************************************************)
(* However often interfaces are installed, reinstalled, uninstalled and    *)
(* hooked again, a call through the hook reaches the controller that had   *)
(* the interface when it was first hooked, never the hook itself or the    *)
(* assertion, and ends early only at a translator that was not given; and  *)
(* once the event was dispatched, as many interfaces wait for their hook   *)
(* at most as there were signals of an event already signalled             *)
(* (Usb2HcHook.c:193, 216, 474, 677); and a stub answers with bytes of its *)
(* own descriptor, as many as it says and no more than there are           *)
(* (Usb2HcStubLib.c, Usb2HcPpiStubLib.c, UsbIoPpiStubLib.c).               *)
(***************************************************************************)
THEOREM UsbCorrect ==
  ASSUME HookConstants, StubConstants
  PROVE  HcHook!Spec /\ Stubs!Spec => []UsbExact
  <1>1. HcHook!Spec => []HcHook!HookTransparent
    BY HookCorrect
  <1>2. Stubs!Spec => []Stubs!DescriptorsExact
    BY StubsCorrect
  <1>3. HcHook!HookTransparent /\ Stubs!DescriptorsExact => UsbExact
    BY DEF UsbExact
  <1>4. QED
    BY <1>1, <1>2, <1>3, PTL

-----------------------------------------------------------------------------
(* The Virtio block driver.  Registers hold numbers where they are numbers,  *)
(* and capabilities are records.                                             *)
CapabilityLengths == {"short", "base", "whole"}

VirtioConstants ==
  /\ Capacities \subseteq Nat /\ BlkSizes \subseteq Nat /\ BAR_COUNT \in Nat
  /\ Capabilities \subseteq Seq([ type : STRING, capLen : CapabilityLengths, bar : Nat, offset : Nat,
                                  length : Nat, multiplier : Nat ])

Parsing     == {"parse", "parse again", "parsed"}
Negotiating == {"reset", "ack", "driver", "features", "capacity"}
Agreeing    == {"guest", "featuresOk"}
Choosing    == {"select", "queueSize", "ringInit"}
Placing     == {"queueNum", "address"}
Undoing     == {"unmap", "release", "failed"}
Initialising ==
  Negotiating \cup Agreeing \cup Choosing \cup {"ringMap"} \cup Placing \cup {"legacy guest", "driverOk"}

RegisterNames ==
  { "DeviceFeatureSelect", "DeviceFeature", "DriverFeatureSelect", "DriverFeature", "DeviceStatus",
    "QueueSelect", "QueueSize", "QueueEnable", "QueueNotifyOff", "QueueDesc", "QueueAvail",
    "QueueUsed", "Capacity", "BlkSize", "PhysicalBlockExp" }

Locals ==
  {"at", "status", "nextStat", "features", "sectors", "blockSize", "queueSize", "revision", "caps"}

(* What has been read is valid: blocks of whole sectors, and a whole number *)
(* of blocks.                                                               *)
ConfigurationValid ==
  /\ init.blockSize \in Nat \ {0} /\ init.blockSize % 512 = 0
  /\ init.sectors \in Nat /\ init.sectors % (init.blockSize \div 512) = 0
  /\ init.sectors = registers.Capacity /\ init.features \subseteq Virtio10!Known

(* How far the initialisation has come says what there is of the ring, what *)
(* the device has been told and what is known of it.                        *)
InitInv ==
  /\ device = Virtio10!BufferDevice
  /\ init.at \in Initialising \cup Undoing \cup {"done", "notified"}
  /\ "FAILED" \notin init.nextStat
  /\ registers.Capacity \in Nat /\ registers.BlkSize \in Nat
  /\ init.at \notin {"done", "notified"} => "DRIVER_OK" \notin registers.DeviceStatus
  /\ init.at \in Initialising => init.status = "SUCCESS" /\ "DRIVER_OK" \notin init.nextStat
  /\ init.at \in Undoing => init.status # "SUCCESS"
  /\ init.at \in Negotiating \cup Agreeing \cup Choosing \cup {"failed"} => ring = "none"
  /\ init.at \in {"ringMap", "release"} => ring = "allocated"
  /\ init.at \in Placing \cup {"legacy guest", "driverOk", "unmap"} => ring = "mapped"
  /\ init.at \in Agreeing \cup Choosing \cup Placing \cup {"ringMap", "legacy guest", "driverOk"} =>
       ConfigurationValid
  /\ init.at \in Choosing \cup Placing \cup {"ringMap", "driverOk"} /\ init.revision = "1.0" =>
       "FEATURES_OK" \in init.nextStat
  /\ init.at \in (Choosing \ {"select"}) \cup Placing \cup {"ringMap", "legacy guest", "driverOk"} =>
       registers.QueueSelect = 0
  /\ init.at \in {"legacy guest", "driverOk"} => registers.QueueEnable = 1
  /\ init.at = "legacy guest" => init.revision # "1.0"
  /\ Virtio10!InitOutcome
  /\ init.at = "notified" => init.status = "SUCCESS" /\ Virtio10!Live(registers)

VirtioTypes == DOMAIN registers = RegisterNames /\ DOMAIN init = Locals

LEMMA InitStarts ==
  ASSUME VirtioConstants, Virtio10!Init, init.at \notin Parsing
  PROVE  VirtioTypes /\ InitInv
  <1>1. /\ ring = "none" /\ device = Virtio10!BufferDevice /\ registers \in Virtio10!Buffers
        /\ \E r \in {"0.9.5", "1.0"} : init = [Virtio10!Start("reset") EXCEPT !.revision = r]
    BY DEF Virtio10!Init, Virtio10!Start, Parsing
  <1>2. PICK r \in {"0.9.5", "1.0"} : init = [Virtio10!Start("reset") EXCEPT !.revision = r]
    BY <1>1
  <1>3. /\ init.at = "reset" /\ init.status = "SUCCESS" /\ init.nextStat = {} /\ DOMAIN init = Locals
    BY <1>2 DEF Virtio10!Start, Locals
  <1>4. /\ registers.DeviceStatus = {} /\ DOMAIN registers = RegisterNames
        /\ registers.Capacity \in Nat /\ registers.BlkSize \in Nat
    BY <1>1 DEF Virtio10!Buffers, VirtioConstants, RegisterNames
  <1>5. Virtio10!InitOutcome
    BY <1>3, <1>4 DEF Virtio10!InitOutcome, Virtio10!Live
  <1>6. QED
    BY <1>1, <1>3, <1>4, <1>5 DEF VirtioTypes, InitInv, Parsing, Negotiating, Agreeing, Choosing, Placing,
                                  Undoing, Initialising

(* Before the end, nothing is promised of the outcome.                      *)
LEMMA NothingPromised ==
  ASSUME init'.at \notin {"done", "notified"}, "DRIVER_OK" \notin registers'.DeviceStatus
  PROVE  Virtio10!InitOutcome'
  BY DEF Virtio10!InitOutcome, Virtio10!Live

(* What has been read stays valid.                                          *)
LEMMA ConfigurationStays ==
  ASSUME ConfigurationValid, init'.blockSize = init.blockSize, init'.sectors = init.sectors,
         init'.features \subseteq init.features, registers'.Capacity = registers.Capacity
  PROVE  ConfigurationValid'
  BY DEF ConfigurationValid

(* A step that fails goes to the label that undoes what there is.           *)
LEMMA CallUndone ==
  ASSUME VirtioTypes, InitInv, init.at \in Initialising, UNCHANGED << device, registers, ring, blkMedia >>,
         DOMAIN init' = Locals, init'.at = Virtio10!Undo, init'.status # "SUCCESS",
         "FAILED" \notin init'.nextStat
  PROVE  VirtioTypes' /\ InitInv'
  <1>1. /\ ring \in {"none", "allocated", "mapped"}
        /\ ring = "none" => init'.at = "failed"
        /\ ring = "allocated" => init'.at = "release"
        /\ ring = "mapped" => init'.at = "unmap"
    BY DEF InitInv, Initialising, Virtio10!Undo
  <1>2. "DRIVER_OK" \notin registers.DeviceStatus
    BY DEF InitInv, Initialising, Negotiating, Agreeing, Choosing, Placing
  <1>3. init'.at \in Undoing
    BY <1>1 DEF Undoing
  <1>4. Virtio10!InitOutcome'
    BY <1>2, <1>3, NothingPromised DEF Undoing
  <1>5. QED
    BY <1>1, <1>2, <1>3, <1>4 DEF VirtioTypes, InitInv, Negotiating, Agreeing, Choosing, Placing,
       Undoing, Initialising

LEMMA StatusSet ==
  ASSUME VirtioTypes, InitInv, Virtio10!Virtio10SetDeviceStatus
  PROVE  VirtioTypes' /\ InitInv'
  <1>1. /\ init.at \in {"reset", "ack", "driver", "featuresOk"}
        /\ init.at = "reset" => init'.at = "ack" /\ init'.nextStat = {}
        /\ init.at = "ack" => init'.at = "driver" /\ init'.nextStat = init.nextStat \cup {"ACK"}
        /\ init.at = "driver" => init'.at = "features" /\ init'.nextStat = init.nextStat \cup {"DRIVER"}
        /\ init.at = "featuresOk" =>
             init'.at = "select" /\ init'.nextStat = init.nextStat \cup {"FEATURES_OK"}
    BY DEF VirtioTypes, Locals, RegisterNames, Virtio10!Goto, Virtio10!Fail, Virtio10!Virtio10SetDeviceStatus, Virtio10!After, Virtio10!Bit
  <1>2. /\ DOMAIN init' = Locals /\ init'.status = init.status /\ init'.features = init.features
        /\ init'.sectors = init.sectors /\ init'.blockSize = init.blockSize
        /\ init'.revision = init.revision
        /\ device' = device /\ ring' = ring /\ blkMedia' = blkMedia
    BY DEF VirtioTypes, Locals, RegisterNames, Virtio10!Goto, Virtio10!Fail, Virtio10!Virtio10SetDeviceStatus
  <1>3. /\ DOMAIN registers' = RegisterNames /\ registers'.DeviceStatus = init'.nextStat
        /\ registers'.Capacity = registers.Capacity /\ registers'.BlkSize = registers.BlkSize
    BY DEF VirtioTypes, Locals, RegisterNames, Virtio10!Goto, Virtio10!Fail, Virtio10!Virtio10SetDeviceStatus
  <1>4. /\ init.status = "SUCCESS" /\ "DRIVER_OK" \notin init.nextStat /\ "FAILED" \notin init.nextStat
        /\ ring = "none" /\ device = Virtio10!BufferDevice
        /\ registers.Capacity \in Nat /\ registers.BlkSize \in Nat
        /\ init.at = "featuresOk" => ConfigurationValid
    BY <1>1 DEF InitInv, Initialising, Negotiating, Agreeing
  <1>5. init.at = "featuresOk" => ConfigurationValid'
    BY <1>2, <1>3, <1>4 DEF ConfigurationValid
  <1>6. /\ init'.at \in {"ack", "driver", "features", "select"}
        /\ init'.at = "select" => init.at = "featuresOk" /\ "FEATURES_OK" \in init'.nextStat
        /\ "DRIVER_OK" \notin init'.nextStat /\ "FAILED" \notin init'.nextStat
    BY <1>1, <1>4
  <1>7. Virtio10!InitOutcome'
    BY <1>3, <1>6, NothingPromised
  <1>8. QED
    BY <1>2, <1>3, <1>4, <1>5, <1>6, <1>7 DEF VirtioTypes, InitInv, Parsing, Negotiating, Agreeing, Choosing, Placing, Undoing, Initialising

LEMMA FeaturesRead ==
  ASSUME VirtioTypes, InitInv, Virtio10!Virtio10GetDeviceFeatures
  PROVE  VirtioTypes' /\ InitInv'
  <1>1. /\ init.at = "features" /\ init'.at = "capacity" /\ DOMAIN init' = Locals
        /\ init'.status = init.status /\ init'.nextStat = init.nextStat
        /\ init'.revision = init.revision /\ device' = device /\ ring' = ring /\ blkMedia' = blkMedia
    BY DEF VirtioTypes, Locals, RegisterNames, Virtio10!Goto, Virtio10!Fail, Virtio10!Virtio10GetDeviceFeatures
  <1>2. /\ DOMAIN registers' = RegisterNames /\ registers'.DeviceStatus = registers.DeviceStatus
        /\ registers'.Capacity = registers.Capacity /\ registers'.BlkSize = registers.BlkSize
    BY DEF VirtioTypes, Locals, RegisterNames, Virtio10!Goto, Virtio10!Fail, Virtio10!Virtio10GetDeviceFeatures
  <1>3. QED
    BY <1>1, <1>2 DEF VirtioTypes, InitInv, Locals, RegisterNames, ConfigurationValid,
       Parsing, Negotiating, Agreeing, Choosing, Placing, Undoing, Initialising,
       Virtio10!InitOutcome, Virtio10!Live, Virtio10!Known

LEMMA ConfigurationRead ==
  ASSUME VirtioTypes, InitInv, Virtio10!ReadConfiguration
  PROVE  VirtioTypes' /\ InitInv'
  <1> DEFINE hasSize   == "BLK_SIZE" \in init.features
             blockSize == IF hasSize THEN registers.BlkSize ELSE 512
             sectors   == registers.Capacity
             refused   == \/ sectors = 0
                          \/ hasSize /\ (\/ blockSize = 0
                                         \/ blockSize % 512 # 0
                                         \/ sectors % (blockSize \div 512) # 0)
                          \/ "TOPOLOGY" \in init.features /\ registers.PhysicalBlockExp >= 32
  <1>1. /\ init.at = "capacity" /\ init.at \in Initialising
        /\ UNCHANGED << device, registers, ring, blkMedia >>
    BY DEF Virtio10!ReadConfiguration, Initialising, Negotiating
  <1>2. CASE refused
    <2>1. init' = [init EXCEPT !.at = Virtio10!Undo, !.status = "UNSUPPORTED"]
      BY <1>2 DEF Virtio10!ReadConfiguration, Virtio10!Fail
    <2>2. /\ DOMAIN init' = Locals /\ init'.at = Virtio10!Undo /\ init'.status # "SUCCESS"
          /\ init'.nextStat = init.nextStat
      BY <2>1 DEF VirtioTypes, Locals
    <2>3. QED
      BY <1>1, <2>2, CallUndone DEF InitInv
  <1>3. CASE ~refused
    <2>1. init' = [[init EXCEPT !.sectors = sectors, !.blockSize = blockSize,
                                !.features = @ \cap Virtio10!Known]
                     EXCEPT !.at = IF init.revision = "1.0" THEN "guest" ELSE "select"]
      BY <1>3 DEF Virtio10!ReadConfiguration, Virtio10!Goto
    <2>2. /\ DOMAIN init' = Locals /\ init'.at = IF init.revision = "1.0" THEN "guest" ELSE "select"
          /\ init'.status = init.status /\ init'.nextStat = init.nextStat
          /\ init'.revision = init.revision /\ init'.sectors = sectors
          /\ init'.blockSize = blockSize /\ init'.features = init.features \cap Virtio10!Known
      BY <2>1 DEF VirtioTypes, Locals
    <2>3. sectors \in Nat /\ registers.BlkSize \in Nat
      BY DEF InitInv
    <2>4. blockSize \in Nat \ {0} /\ blockSize % 512 = 0 /\ sectors % (blockSize \div 512) = 0
      <3>1. CASE hasSize
        BY <1>3, <2>3, <3>1
      <3>2. CASE ~hasSize
        BY <2>3, <3>2
      <3>3. QED
        BY <3>1, <3>2
    <2>5. ConfigurationValid'
      BY <1>1, <2>2, <2>3, <2>4 DEF ConfigurationValid
    <2> HIDE DEF sectors, blockSize, hasSize, refused
    <2>6. QED
      BY <1>1, <2>2, <2>5 DEF VirtioTypes, InitInv, Locals, Parsing, Negotiating, Agreeing, Choosing,
         Placing, Undoing, Initialising, Virtio10!InitOutcome, Virtio10!Live
  <1>4. QED
    BY <1>2, <1>3

LEMMA FeaturesWritten ==
  ASSUME VirtioTypes, InitInv, Virtio10!Virtio10SetGuestFeatures
  PROVE  VirtioTypes' /\ InitInv'
  <1>1. /\ init.at \in {"guest", "legacy guest"}
        /\ init.at = "guest" => init'.at = "featuresOk"
        /\ init.at = "legacy guest" => init'.at = "driverOk"
        /\ DOMAIN init' = Locals /\ init'.features \subseteq init.features
        /\ init'.status = init.status /\ init'.nextStat = init.nextStat
        /\ init'.sectors = init.sectors /\ init'.blockSize = init.blockSize
        /\ init'.revision = init.revision /\ device' = device /\ ring' = ring /\ blkMedia' = blkMedia
    BY DEF VirtioTypes, Locals, RegisterNames, Virtio10!Goto, Virtio10!Fail, Virtio10!Virtio10SetGuestFeatures
  <1>2. /\ DOMAIN registers' = RegisterNames /\ registers'.DeviceStatus = registers.DeviceStatus
        /\ registers'.Capacity = registers.Capacity /\ registers'.BlkSize = registers.BlkSize
        /\ registers'.QueueSelect = registers.QueueSelect /\ registers'.QueueEnable = registers.QueueEnable
    BY DEF VirtioTypes, Locals, RegisterNames, Virtio10!Goto, Virtio10!Fail, Virtio10!Virtio10SetGuestFeatures
  <1>3. /\ init.status = "SUCCESS" /\ "DRIVER_OK" \notin init.nextStat /\ "FAILED" \notin init.nextStat
        /\ "DRIVER_OK" \notin registers.DeviceStatus /\ device = Virtio10!BufferDevice
        /\ registers.Capacity \in Nat /\ registers.BlkSize \in Nat /\ ConfigurationValid
        /\ init.at = "guest" => ring = "none"
        /\ init.at = "legacy guest" => /\ ring = "mapped" /\ init.revision # "1.0"
                                      /\ registers.QueueSelect = 0 /\ registers.QueueEnable = 1
    BY <1>1 DEF InitInv, Initialising, Agreeing
  <1>4. ConfigurationValid'
    BY <1>1, <1>2, <1>3, ConfigurationStays
  <1>5. Virtio10!InitOutcome'
    BY <1>1, <1>2, <1>3, NothingPromised
  <1>6. QED
    BY <1>1, <1>2, <1>3, <1>4, <1>5 DEF VirtioTypes, InitInv, Parsing, Negotiating, Agreeing, Choosing, Placing, Undoing, Initialising

LEMMA QueueSelected ==
  ASSUME VirtioTypes, InitInv, Virtio10!Virtio10SetQueueSel
  PROVE  VirtioTypes' /\ InitInv'
  <1>1. /\ init.at = "select" /\ init'.at = "queueSize" /\ ring' = ring /\ blkMedia' = blkMedia
        /\ DOMAIN init' = Locals /\ init'.features = init.features
        /\ init'.status = init.status /\ init'.nextStat = init.nextStat
        /\ init'.sectors = init.sectors /\ init'.blockSize = init.blockSize
        /\ init'.revision = init.revision /\ device' = device
    BY DEF VirtioTypes, Locals, RegisterNames, Virtio10!Goto, Virtio10!Fail, Virtio10!Virtio10SetQueueSel
  <1>2. /\ DOMAIN registers' = RegisterNames /\ registers'.DeviceStatus = registers.DeviceStatus
        /\ registers'.Capacity = registers.Capacity /\ registers'.BlkSize = registers.BlkSize
        /\ registers'.QueueSelect = 0
    BY DEF VirtioTypes, Locals, RegisterNames, Virtio10!Goto, Virtio10!Fail, Virtio10!Virtio10SetQueueSel
  <1>3. ConfigurationValid /\ "DRIVER_OK" \notin registers.DeviceStatus
    BY <1>1, <1>2 DEF InitInv, Choosing, Placing
  <1>4. ConfigurationValid'
    BY <1>1, <1>2, <1>3, ConfigurationStays
  <1>5. Virtio10!InitOutcome'
    BY <1>1, <1>2, <1>3, NothingPromised
  <1>6. QED
    BY <1>1, <1>2, <1>3, <1>4, <1>5 DEF VirtioTypes, InitInv, Parsing, Negotiating,
       Agreeing, Choosing, Placing, Undoing, Initialising

LEMMA QueueMeasured ==
  ASSUME VirtioTypes, InitInv, Virtio10!Virtio10GetQueueNumMax
  PROVE  VirtioTypes' /\ InitInv'
  <1>1. /\ init.at = "queueSize" /\ init.at \in Initialising
        /\ UNCHANGED << device, registers, ring, blkMedia >>
    BY DEF Virtio10!Virtio10GetQueueNumMax, Initialising, Choosing
  <1>2. CASE registers.QueueSize < 3
    <2>1. /\ DOMAIN init' = Locals /\ init'.at = Virtio10!Undo /\ init'.status # "SUCCESS"
          /\ init'.nextStat = init.nextStat
      BY <1>2 DEF VirtioTypes, Locals, RegisterNames, Virtio10!Goto, Virtio10!Fail, Virtio10!Virtio10GetQueueNumMax
    <2>2. QED
      BY <1>1, <2>1, CallUndone DEF InitInv
  <1>3. CASE ~(registers.QueueSize < 3)
    <2>1. /\ init'.at = "ringInit"
          /\ DOMAIN init' = Locals /\ init'.features = init.features
          /\ init'.status = init.status /\ init'.nextStat = init.nextStat
          /\ init'.sectors = init.sectors /\ init'.blockSize = init.blockSize
          /\ init'.revision = init.revision /\ device' = device
      BY <1>3 DEF VirtioTypes, Locals, RegisterNames, Virtio10!Goto, Virtio10!Fail, Virtio10!Virtio10GetQueueNumMax
    <2>2. ConfigurationValid /\ "DRIVER_OK" \notin registers.DeviceStatus
      BY <1>1, <2>1 DEF InitInv, Choosing, Placing
    <2>3. ConfigurationValid'
      BY <1>1, <2>1, <2>2, ConfigurationStays
    <2>4. Virtio10!InitOutcome'
      BY <1>1, <2>1, <2>2, NothingPromised
    <2>5. QED
      BY <1>1, <2>1, <2>2, <2>3, <2>4 DEF VirtioTypes, InitInv, Parsing, Negotiating,
         Agreeing, Choosing, Placing, Undoing, Initialising
  <1>4. QED
    BY <1>2, <1>3

LEMMA RingAllocated ==
  ASSUME VirtioTypes, InitInv, Virtio10!AllocateRing
  PROVE  VirtioTypes' /\ InitInv'
  <1>1. /\ registers' = registers /\ blkMedia' = blkMedia
        /\ init.at \in {"ringInit", "ringMap"}
        /\ init.at = "ringInit" => init'.at = "ringMap" /\ ring' = "allocated"
        /\ init.at = "ringMap" => init'.at = "queueNum" /\ ring' = "mapped"
        /\ DOMAIN init' = Locals /\ init'.features = init.features
        /\ init'.status = init.status /\ init'.nextStat = init.nextStat
        /\ init'.sectors = init.sectors /\ init'.blockSize = init.blockSize
        /\ init'.revision = init.revision /\ device' = device
    BY DEF VirtioTypes, Locals, RegisterNames, Virtio10!Goto, Virtio10!Fail, Virtio10!AllocateRing
  <1>2. ConfigurationValid /\ "DRIVER_OK" \notin registers.DeviceStatus
    BY <1>1 DEF InitInv, Choosing, Placing
  <1>3. ConfigurationValid'
    BY <1>1, <1>2, ConfigurationStays
  <1>4. Virtio10!InitOutcome'
    BY <1>1, <1>2, NothingPromised
  <1>5. QED
    BY <1>1, <1>2, <1>3, <1>4 DEF VirtioTypes, InitInv, Parsing, Negotiating,
       Agreeing, Choosing, Placing, Undoing, Initialising

LEMMA QueueSized ==
  ASSUME VirtioTypes, InitInv, Virtio10!Virtio10SetQueueNum
  PROVE  VirtioTypes' /\ InitInv'
  <1>1. /\ init.at = "queueNum" /\ init.at \in Initialising
        /\ UNCHANGED << device, registers, ring, blkMedia >>
    BY DEF Virtio10!Virtio10SetQueueNum, Initialising, Placing
  <1>2. CASE ~(registers.QueueSize = init.queueSize /\ PAGE_SIZE = 4096)
    <2>1. init' = [init EXCEPT !.at = Virtio10!Undo, !.status = "UNSUPPORTED"]
      BY <1>2 DEF Virtio10!Fail, Virtio10!Virtio10SetQueueNum
    <2>2. /\ DOMAIN init' = Locals /\ init'.at = Virtio10!Undo /\ init'.status # "SUCCESS"
          /\ init'.nextStat = init.nextStat
      BY <2>1 DEF VirtioTypes, Locals
    <2>3. QED
      BY <1>1, <2>2, CallUndone DEF InitInv
  <1>3. CASE registers.QueueSize = init.queueSize /\ PAGE_SIZE = 4096
    <2>1. /\ init'.at = "address"
          /\ DOMAIN init' = Locals /\ init'.features = init.features
          /\ init'.status = init.status /\ init'.nextStat = init.nextStat
          /\ init'.sectors = init.sectors /\ init'.blockSize = init.blockSize
          /\ init'.revision = init.revision /\ device' = device
      BY <1>3 DEF VirtioTypes, Locals, RegisterNames, Virtio10!Goto, Virtio10!Fail, Virtio10!Virtio10SetQueueNum
    <2>2. ConfigurationValid /\ "DRIVER_OK" \notin registers.DeviceStatus
      BY <1>1, <2>1 DEF InitInv, Choosing, Placing
    <2>3. ConfigurationValid'
      BY <1>1, <2>1, <2>2, ConfigurationStays
    <2>4. Virtio10!InitOutcome'
      BY <1>1, <2>1, <2>2, NothingPromised
    <2>5. QED
      BY <1>1, <2>1, <2>2, <2>3, <2>4 DEF VirtioTypes, InitInv, Parsing, Negotiating,
         Agreeing, Choosing, Placing, Undoing, Initialising
  <1>4. QED
    BY <1>2, <1>3

LEMMA QueuePlaced ==
  ASSUME VirtioTypes, InitInv, Virtio10!Virtio10SetQueueAddress
  PROVE  VirtioTypes' /\ InitInv'
  <1>1. /\ init.at = "address" /\ ring' = ring /\ blkMedia' = blkMedia
        /\ init'.at = IF init.revision = "1.0" THEN "driverOk" ELSE "legacy guest"
        /\ DOMAIN init' = Locals /\ init'.features = init.features
        /\ init'.status = init.status /\ init'.nextStat = init.nextStat
        /\ init'.sectors = init.sectors /\ init'.blockSize = init.blockSize
        /\ init'.revision = init.revision /\ device' = device
    BY DEF VirtioTypes, Locals, RegisterNames, Virtio10!Goto, Virtio10!Fail, Virtio10!Virtio10SetQueueAddress
  <1>2. /\ DOMAIN registers' = RegisterNames /\ registers'.DeviceStatus = registers.DeviceStatus
        /\ registers'.Capacity = registers.Capacity /\ registers'.BlkSize = registers.BlkSize
        /\ registers'.QueueSelect = registers.QueueSelect /\ registers'.QueueEnable = 1
    BY DEF VirtioTypes, Locals, RegisterNames, Virtio10!Goto, Virtio10!Fail, Virtio10!Virtio10SetQueueAddress
  <1>3. ConfigurationValid /\ "DRIVER_OK" \notin registers.DeviceStatus
    BY <1>1, <1>2 DEF InitInv, Choosing, Placing
  <1>4. ConfigurationValid'
    BY <1>1, <1>2, <1>3, ConfigurationStays
  <1>5. Virtio10!InitOutcome'
    BY <1>1, <1>2, <1>3, NothingPromised
  <1>6. QED
    BY <1>1, <1>2, <1>3, <1>4, <1>5 DEF VirtioTypes, InitInv, Parsing, Negotiating,
       Agreeing, Choosing, Placing, Undoing, Initialising

LEMMA DeviceLive ==
  ASSUME VirtioTypes, InitInv, Virtio10!DriverOk
  PROVE  VirtioTypes' /\ InitInv'
  <1>1. /\ init.at = "driverOk" /\ init'.at = "done" /\ ring' = ring
        /\ DOMAIN init' = Locals /\ init'.features = init.features
        /\ init'.status = init.status /\ init'.nextStat = init.nextStat \cup {"DRIVER_OK"}
        /\ init'.revision = init.revision /\ device' = device
    BY DEF VirtioTypes, Locals, RegisterNames, Virtio10!Goto, Virtio10!Fail, Virtio10!DriverOk
  <1>2. /\ DOMAIN registers' = RegisterNames
        /\ registers'.DeviceStatus = init.nextStat \cup {"DRIVER_OK"}
        /\ registers'.Capacity = registers.Capacity /\ registers'.BlkSize = registers.BlkSize
        /\ registers'.QueueSelect = registers.QueueSelect /\ registers'.QueueEnable = registers.QueueEnable
    BY DEF VirtioTypes, Locals, RegisterNames, Virtio10!Goto, Virtio10!Fail, Virtio10!DriverOk
  <1>3. ConfigurationValid
    BY <1>1 DEF InitInv
  <1>4. blkMedia' = [ blockSize |-> init.blockSize,
                      lastBlock |-> init.sectors \div (init.blockSize \div 512) - 1 ]
    BY DEF Virtio10!DriverOk
  <1>5. (blkMedia'.lastBlock + 1) * (blkMedia'.blockSize \div 512) = registers'.Capacity
    <2>1. PICK size, sectors : size = init.blockSize /\ sectors = init.sectors
      OBVIOUS
    <2>2. PICK n : n = size \div 512
      OBVIOUS
    <2>3. n \in Nat \ {0} /\ sectors \in Nat /\ sectors % n = 0
      BY <1>3, <2>1, <2>2 DEF ConfigurationValid
    <2>4. PICK q : q = sectors \div n
      OBVIOUS
    <2>5. q \in Int /\ sectors = n * q
      BY <2>3, <2>4, DivisionBy
    <2>6. blkMedia'.lastBlock = q - 1 /\ blkMedia'.blockSize = size
      BY <1>4, <2>1, <2>2, <2>4
    <2>7. ((q - 1) + 1) * n = sectors
      BY <2>3, <2>5
    <2>8. registers'.Capacity = sectors
      BY <1>2, <1>3, <2>1 DEF ConfigurationValid
    <2>9. QED
      BY <2>2, <2>6, <2>7, <2>8
  <1>6. /\ ring = "mapped" /\ registers.QueueEnable = 1 /\ registers.QueueSelect = 0
        /\ init.revision = "1.0" => "FEATURES_OK" \in init.nextStat
        /\ init.features \subseteq Virtio10!Known /\ "FAILED" \notin init.nextStat
        /\ init.status = "SUCCESS"
    BY <1>1, <1>3 DEF InitInv, ConfigurationValid, Initialising
  <1>7. Virtio10!InitOutcome'
    BY <1>1, <1>2, <1>5, <1>6 DEF Virtio10!InitOutcome, Virtio10!Live
  <1>8. QED
    BY <1>1, <1>2, <1>6, <1>7 DEF VirtioTypes, InitInv, Locals, RegisterNames,
       Parsing, Negotiating, Agreeing, Choosing, Placing, Undoing, Initialising

LEMMA QueueNotified ==
  ASSUME VirtioTypes, InitInv, NEW index, Virtio10!Virtio10SetQueueNotify(index)
  PROVE  VirtioTypes' /\ InitInv'
  <1>1. Virtio10!Accessible(device, "QueueNotifyOff")
    <2>1. PICK field : field = << "common", 30, 2 >>
      OBVIOUS
    <2>2. Virtio10!Field["QueueNotifyOff"] = field
      BY <2>1 DEF Virtio10!Field
    <2>3. field[1] = "common" /\ field[2] = 30 /\ field[3] = 2
      BY <2>1
    <2>4. device["common"] = [exists |-> TRUE, bar |-> 0, offset |-> 0, length |-> 56]
      BY DEF InitInv, Virtio10!BufferDevice, Virtio10!CommonLength
    <2>5. Virtio10!Transfers(device["common"], 30, 2)
      BY <2>4 DEF Virtio10!Transfers
    <2>6. QED
      BY <2>2, <2>3, <2>5 DEF Virtio10!Accessible
  <1>2. /\ init.at = "done" /\ init.status = "SUCCESS" /\ init'.at \in {"done", "notified"}
        /\ ring' = ring /\ blkMedia' = blkMedia
        /\ DOMAIN init' = Locals /\ init'.features = init.features
        /\ init'.status = init.status /\ init'.nextStat = init.nextStat
        /\ init'.sectors = init.sectors /\ init'.blockSize = init.blockSize
        /\ init'.revision = init.revision /\ device' = device
    BY DEF VirtioTypes, Locals, RegisterNames, Virtio10!Goto, Virtio10!Fail, Virtio10!Virtio10SetQueueNotify
  <1>3. /\ DOMAIN registers' = RegisterNames /\ registers'.DeviceStatus = registers.DeviceStatus
        /\ registers'.Capacity = registers.Capacity /\ registers'.BlkSize = registers.BlkSize
        /\ registers'.QueueSelect = registers.QueueSelect /\ registers'.QueueEnable = registers.QueueEnable
    BY <1>1 DEF VirtioTypes, Locals, RegisterNames, Virtio10!Goto, Virtio10!Fail, Virtio10!Virtio10SetQueueNotify
  <1>4. /\ Virtio10!Live(registers) /\ Virtio10!InitOutcome
        /\ device = Virtio10!BufferDevice /\ "FAILED" \notin init.nextStat
        /\ registers.Capacity \in Nat /\ registers.BlkSize \in Nat
    BY <1>2 DEF InitInv, Virtio10!InitOutcome
  <1>5. Virtio10!Live(registers)' /\ Virtio10!InitOutcome'
    BY <1>2, <1>3, <1>4 DEF Virtio10!InitOutcome, Virtio10!Live
  <1>6. QED
    BY <1>2, <1>3, <1>4, <1>5 DEF VirtioTypes, InitInv, Parsing, Negotiating, Agreeing, Choosing, Placing, Undoing, Initialising

LEMMA CallFailed ==
  ASSUME VirtioTypes, InitInv, Virtio10!CallFails
  PROVE  VirtioTypes' /\ InitInv'
  <1>1. /\ init.at \in Initialising /\ UNCHANGED << device, registers, ring, blkMedia >>
    BY DEF Virtio10!CallFails, InitInv, Initialising, Undoing
  <1>2. PICK next : next = IF init.at \in DOMAIN Virtio10!Bit THEN init.nextStat \cup {Virtio10!Bit[init.at]}
                           ELSE init.nextStat
    OBVIOUS
  <1>3. "FAILED" \notin next
    <2>1. "FAILED" \notin init.nextStat
      BY DEF InitInv
    <2>2. CASE init.at \in DOMAIN Virtio10!Bit
      <3>1. init.at \in {"ack", "driver", "featuresOk", "driverOk"}
        BY <2>2 DEF Virtio10!Bit
      <3>2. Virtio10!Bit[init.at] \in {"ACK", "DRIVER", "FEATURES_OK", "DRIVER_OK"}
        BY <3>1 DEF Virtio10!Bit
      <3>3. QED
        BY <1>2, <2>1, <2>2, <3>2
    <2>3. QED
      BY <1>2, <2>1, <2>2
  <1>4. init' = [[init EXCEPT !.nextStat = next] EXCEPT !.at = Virtio10!Undo, !.status = "DEVICE_ERROR"]
    BY <1>2 DEF Virtio10!CallFails, Virtio10!Fail
  <1>5. /\ DOMAIN init' = Locals /\ init'.at = Virtio10!Undo /\ init'.status # "SUCCESS"
        /\ init'.nextStat = next
    BY <1>4 DEF VirtioTypes, Locals
  <1>6. QED
    BY <1>1, <1>3, <1>5, CallUndone

LEMMA Undone ==
  ASSUME VirtioTypes, InitInv, Virtio10!UnmapQueue \/ Virtio10!ReleaseQueue
  PROVE  VirtioTypes' /\ InitInv'
  <1>1. /\ registers' = registers /\ blkMedia' = blkMedia /\ init.at \in {"unmap", "release"}
        /\ init.at = "unmap" => init'.at = "release" /\ ring' = "allocated"
        /\ init.at = "release" => init'.at = "failed" /\ ring' = "none"
        /\ DOMAIN init' = Locals /\ init'.features = init.features
        /\ init'.status = init.status /\ init'.nextStat = init.nextStat
        /\ init'.sectors = init.sectors /\ init'.blockSize = init.blockSize
        /\ init'.revision = init.revision /\ device' = device
    BY DEF VirtioTypes, Locals, RegisterNames, Virtio10!Goto, Virtio10!Fail, Virtio10!UnmapQueue, Virtio10!ReleaseQueue
  <1>2. QED
    BY <1>1 DEF VirtioTypes, InitInv, Locals, RegisterNames, ConfigurationValid,
       Parsing, Negotiating, Agreeing, Choosing, Placing, Undoing, Initialising,
       Virtio10!InitOutcome, Virtio10!Live, Virtio10!Known

LEMMA DeviceTold ==
  ASSUME VirtioTypes, InitInv, Virtio10!Failed
  PROVE  VirtioTypes' /\ InitInv'
  <1>1. /\ init.at = "failed" /\ init'.at = "done" /\ ring' = ring /\ blkMedia' = blkMedia
        /\ DOMAIN init' = Locals /\ init'.features = init.features
        /\ init'.status = init.status /\ init'.nextStat = init.nextStat
        /\ init'.sectors = init.sectors /\ init'.blockSize = init.blockSize
        /\ init'.revision = init.revision /\ device' = device
    BY DEF VirtioTypes, Locals, RegisterNames, Virtio10!Goto, Virtio10!Fail, Virtio10!Failed
  <1>2. /\ DOMAIN registers' = RegisterNames /\ "FAILED" \in registers'.DeviceStatus
        /\ registers'.Capacity = registers.Capacity /\ registers'.BlkSize = registers.BlkSize
    BY DEF VirtioTypes, Locals, RegisterNames, Virtio10!Goto, Virtio10!Fail, Virtio10!Failed
  <1>3. QED
    BY <1>1, <1>2 DEF VirtioTypes, InitInv, Locals, RegisterNames, ConfigurationValid,
       Parsing, Negotiating, Agreeing, Choosing, Placing, Undoing, Initialising,
       Virtio10!InitOutcome, Virtio10!Live, Virtio10!Known

(* Parsing goes through the capabilities one by one.                        *)
CapabilityRecords ==
  [type : STRING, capLen : CapabilityLengths, bar : Nat, offset : Nat, length : Nat, multiplier : Nat]

ConfigRecords == [exists : BOOLEAN, bar : Nat, offset : Nat, length : Nat]
ConfigNames   == {"common", "notify", "specific"}
DeviceRecords == [ common : ConfigRecords, notify : ConfigRecords, specific : ConfigRecords,
                   multiplier : Nat ]
Parsings      == [status : {"SUCCESS", "INVALID_PARAMETER"}, device : DeviceRecords]

ParseStep(was, cap) ==
  CASE was.status # "SUCCESS" \/ ~Virtio10!Interesting(cap) -> was
    [] was.status = "SUCCESS" /\ Virtio10!Interesting(cap) /\ ~Virtio10!GetBarType(cap) ->
         [was EXCEPT !.status = "INVALID_PARAMETER"]
    [] OTHER -> [was EXCEPT !.device = Virtio10!WithCapability(@, cap)]

IsParse(f, d, caps) ==
  /\ f \in [0 .. Len(caps) -> Parsings]
  /\ f[0] = [status |-> "SUCCESS", device |-> d]
  /\ \A i \in 1 .. Len(caps) : f[i] = ParseStep(f[i - 1], caps[i])

(* What a capability that is taken changes: where its configuration is and  *)
(* that it exists, except that a short notify capability only moves it.     *)
Taken(was, cap) ==
  was.status = "SUCCESS" /\ Virtio10!Interesting(cap) /\ Virtio10!GetBarType(cap)

Sets(cap) == ~(cap.type = "notify" /\ cap.capLen = "base")

LEMMA ParseStepFacts ==
  ASSUME NEW was \in Parsings, NEW cap \in CapabilityRecords, BAR_COUNT \in Nat
  PROVE  /\ ParseStep(was, cap) \in Parsings
         /\ ~Taken(was, cap) => ParseStep(was, cap).device = was.device
         /\ Taken(was, cap) =>
              LET d == ParseStep(was, cap).device
              IN  /\ ParseStep(was, cap).status = "SUCCESS" /\ cap.type \in ConfigNames
                  /\ \A c \in ConfigNames : c # cap.type => d[c] = was.device[c]
                  /\ d[cap.type].bar = cap.bar /\ d[cap.type].offset = cap.offset
                  /\ d[cap.type].length = cap.length /\ cap.bar < BAR_COUNT
                  /\ d[cap.type].exists = (Sets(cap) \/ was.device[cap.type].exists)
                  /\ d.multiplier = IF cap.type = "notify" /\ Sets(cap) THEN cap.multiplier
                                    ELSE was.device.multiplier
  <1>1. PICK d \in DeviceRecords : d = was.device
    BY DEF Parsings
  <1>2. was = [status |-> was.status, device |-> d] /\ was.status \in {"SUCCESS", "INVALID_PARAMETER"}
    BY <1>1 DEF Parsings
  <1>3. CASE ~Taken(was, cap)
    <2>1. ParseStep(was, cap) \in {was, [was EXCEPT !.status = "INVALID_PARAMETER"]}
      BY <1>3 DEF ParseStep, Taken
    <2>2. QED
      BY <1>2, <1>3, <2>1 DEF Parsings
  <1>4. CASE Taken(was, cap)
    <2>1. ParseStep(was, cap) = [was EXCEPT !.device = Virtio10!WithCapability(d, cap)]
      BY <1>1, <1>2, <1>4 DEF ParseStep, Taken, Parsings
    <2>2. PICK new : new = Virtio10!WithCapability(d, cap)
      OBVIOUS
    <2>3. ParseStep(was, cap) = [status |-> "SUCCESS", device |-> new]
      BY <1>2, <1>4, <2>1, <2>2 DEF Taken, Parsings
    <2>4. cap.type \in ConfigNames /\ cap.bar < BAR_COUNT
      BY <1>4 DEF Taken, Virtio10!Interesting, Virtio10!GetBarType, ConfigNames
    <2>5. /\ d.common \in ConfigRecords /\ d.notify \in ConfigRecords /\ d.specific \in ConfigRecords
          /\ cap.bar \in Nat /\ cap.offset \in Nat /\ cap.length \in Nat /\ cap.multiplier \in Nat
          /\ d.multiplier \in Nat
      BY DEF DeviceRecords, CapabilityRecords
    <2>6. ASSUME NEW config \in ConfigRecords
          PROVE  /\ Virtio10!Saved(config, cap) \in ConfigRecords
                 /\ Virtio10!Saved(config, cap).exists = config.exists
                 /\ Virtio10!Saved(config, cap).bar = cap.bar
                 /\ Virtio10!Saved(config, cap).offset = cap.offset
                 /\ Virtio10!Saved(config, cap).length = cap.length
      BY <2>5 DEF Virtio10!Saved, ConfigRecords
    <2>7. ASSUME NEW config \in ConfigRecords
          PROVE  /\ [config EXCEPT !.exists = TRUE] \in ConfigRecords
                 /\ [config EXCEPT !.exists = TRUE].exists = TRUE
                 /\ [config EXCEPT !.exists = TRUE].bar = config.bar
                 /\ [config EXCEPT !.exists = TRUE].offset = config.offset
                 /\ [config EXCEPT !.exists = TRUE].length = config.length
      BY DEF ConfigRecords
    <2>8. PICK place, set :
            /\ place = Virtio10!Saved(d[cap.type], cap)
            /\ set = IF Sets(cap) THEN [place EXCEPT !.exists = TRUE] ELSE place
      OBVIOUS
    <2>9. d[cap.type] \in ConfigRecords
      BY <2>4, <2>5 DEF ConfigNames
    <2>10. /\ set \in ConfigRecords /\ set.bar = cap.bar /\ set.offset = cap.offset
           /\ set.length = cap.length /\ set.exists = (Sets(cap) \/ d[cap.type].exists)
      <3>1. /\ place \in ConfigRecords /\ place.exists = d[cap.type].exists /\ place.bar = cap.bar
            /\ place.offset = cap.offset /\ place.length = cap.length
        BY <2>6, <2>8, <2>9
      <3>2. CASE Sets(cap)
        <4>1. set = [place EXCEPT !.exists = TRUE]
          BY <2>8, <3>2
        <4>2. set \in ConfigRecords /\ set.exists = TRUE /\ set.bar = place.bar
              /\ set.offset = place.offset /\ set.length = place.length
          BY <2>7, <3>1, <4>1
        <4>3. QED
          BY <3>1, <3>2, <4>2
      <3>3. CASE ~Sets(cap)
        <4>1. d[cap.type].exists \in BOOLEAN
          BY <2>9 DEF ConfigRecords
        <4>2. QED
          BY <2>8, <3>1, <3>3, <4>1
      <3>4. QED
        BY <3>2, <3>3
    <2>11. /\ new = IF cap.type = "notify" /\ Sets(cap)
                    THEN [d EXCEPT !.notify = set, !.multiplier = cap.multiplier]
                    ELSE [d EXCEPT ![cap.type] = set]
      BY <2>2, <2>8 DEF Virtio10!WithCapability, Sets
    <2>12. /\ new \in DeviceRecords /\ new[cap.type] = set
           /\ \A c \in ConfigNames : c # cap.type => new[c] = d[c]
           /\ new.multiplier = IF cap.type = "notify" /\ Sets(cap) THEN cap.multiplier ELSE d.multiplier
      <3>1. CASE cap.type = "notify" /\ Sets(cap)
        BY <2>5, <2>10, <2>11, <3>1 DEF DeviceRecords, ConfigNames
      <3>2. CASE ~(cap.type = "notify" /\ Sets(cap))
        <4>1. new = [d EXCEPT ![cap.type] = set]
          BY <2>11, <3>2
        <4>2. QED
          BY <2>4, <2>5, <2>10, <3>2, <4>1 DEF DeviceRecords, ConfigNames
      <3>3. QED
        BY <3>1, <3>2
    <2>13. ParseStep(was, cap).status = "SUCCESS" /\ ParseStep(was, cap).device = new
      BY <2>3
    <2>14. ParseStep(was, cap) \in Parsings
      BY <2>3, <2>12 DEF Parsings
    <2>15. QED
      BY <1>1, <1>4, <2>4, <2>10, <2>12, <2>13, <2>14
  <1>5. QED
    BY <1>3, <1>4

LEMMA ParseGoesOn ==
  ASSUME NEW d \in DeviceRecords, NEW caps \in Seq(CapabilityRecords), BAR_COUNT \in Nat
  PROVE  \E f : IsParse(f, d, caps) /\ Virtio10!ParseCapabilities(d, caps) = f[Len(caps)]
  <1> DEFINE n == Len(caps)
             start == [status |-> "SUCCESS", device |-> d]
             step == [x \in Parsings \X (1 .. n) |-> ParseStep(x[1], caps[x[2]])]
             Rec(f) == [ i \in 0 .. n |->
                           IF i = 0 THEN start
                           ELSE LET was == f[i - 1]
                                IN  CASE was.status # "SUCCESS" \/ ~Virtio10!Interesting(caps[i]) -> was
                                      [] /\ was.status = "SUCCESS" /\ Virtio10!Interesting(caps[i])
                                         /\ ~Virtio10!GetBarType(caps[i]) ->
                                           [was EXCEPT !.status = "INVALID_PARAMETER"]
                                      [] OTHER ->
                                           [was EXCEPT !.device = Virtio10!WithCapability(@, caps[i])] ]
             g == CHOOSE f : f = Rec(f)
  <1>1. n \in Nat /\ start \in Parsings /\ \A i \in 1 .. n : caps[i] \in CapabilityRecords
    BY DEF Parsings
  <1>2. step \in [Parsings \X (1 .. n) -> Parsings]
    BY <1>1, ParseStepFacts
  <1>3. PICK f \in [0 .. n -> Parsings] : IsRecursion(f, start, n, step)
    <2> HIDE DEF n, step, start
    <2>1. QED
      BY ONLY <1>1, <1>2, RecursionExists
  <1>4. \A i \in 1 .. n : f[i] = ParseStep(f[i - 1], caps[i]) /\ i - 1 \in 0 .. n
    <2>1. \A i \in 1 .. n : i \in 0 .. n /\ i # 0 /\ i - 1 \in 0 .. n
      <3> HIDE DEF n
      <3>1. QED
        BY <1>1
    <2>2. \A i \in 1 .. n : << f[i - 1], i >> \in Parsings \X (1 .. n)
      BY <1>3, <2>1
    <2>3. \A i \in 1 .. n : step[<< f[i - 1], i >>] = ParseStep(f[i - 1], caps[i])
      BY <2>2
    <2> HIDE DEF step, n, start
    <2>4. QED
      BY <1>3, <2>1, <2>3 DEF IsRecursion
  <1>5. f = Rec(f)
    <2>1. f[0] = start /\ 0 \in 0 .. n
      <3> HIDE DEF step, n, start
      <3>1. n \in Nat
        BY <1>1
      <3>2. 0 \in 0 .. n
        BY <3>1
      <3>3. \A i \in 0 .. n : f[i] = IF i = 0 THEN start ELSE step[<< f[i - 1], i >>]
        BY <1>3 DEF IsRecursion
      <3>4. QED
        BY <3>2, <3>3
    <2>2. \A i \in 0 .. n : i # 0 => i \in 1 .. n
      <3> HIDE DEF n
      <3>1. QED
        BY <1>1
    <2>3. f = [i \in 0 .. n |-> f[i]]
      BY <1>3
    <2> HIDE DEF step, n, start
    <2>4. QED
      BY <1>4, <2>1, <2>2, <2>3 DEF ParseStep
  <1>6. g = Rec(g)
    <2> HIDE DEF Rec
    <2>1. QED
      BY <1>5
  <1>7. Virtio10!ParseCapabilities(d, caps) = g[n]
    BY DEF Virtio10!ParseCapabilities
  <1>8. \A i \in 1 .. n : g[i] = ParseStep(g[i - 1], caps[i])
    <2>1. \A i \in 1 .. n : i \in 0 .. n /\ i # 0
      <3> HIDE DEF n
      <3>1. QED
        BY <1>1
    <2> HIDE DEF n, g, start
    <2>2. QED
      BY <1>6, <2>1 DEF ParseStep
  <1>9. g[0] = start /\ DOMAIN g = 0 .. n
    <2>1. n \in Nat
      BY <1>1
    <2> HIDE DEF n, g, start
    <2>2. 0 \in 0 .. n
      BY <2>1
    <2>3. QED
      BY <1>6, <2>2
  <1> HIDE DEF g
  <1> DEFINE F == { m \in Nat : m <= n => g[m] \in Parsings }
  <1>10. 0 \in F
    BY <1>1, <1>9
  <1>11. ASSUME NEW m \in F PROVE m + 1 \in F
    <2>1. SUFFICES ASSUME m + 1 <= n PROVE g[m + 1] \in Parsings
      OBVIOUS
    <2> HIDE DEF n, start
    <2>2. m \in Nat /\ m + 1 \in 1 .. n /\ (m + 1) - 1 = m /\ g[m] \in Parsings
      BY <1>1, <2>1
    <2>3. g[m + 1] = ParseStep(g[m], caps[m + 1]) /\ caps[m + 1] \in CapabilityRecords
      BY <1>1, <1>8, <2>2
    <2>4. QED
      BY <2>2, <2>3, ParseStepFacts
  <1>12. F = Nat
    <2>1. F \subseteq Nat
      OBVIOUS
    <2> HIDE DEF F
    <2>2. QED
      BY <1>10, <1>11, <2>1, SetInduction
  <1>13. g \in [0 .. n -> Parsings]
    <2>1. \A m \in 0 .. n : g[m] \in Parsings
      <3> HIDE DEF n, start
      <3>1. QED
        BY <1>1, <1>12
    <2>2. g = [m \in 0 .. n |-> g[m]]
      BY <1>6, <1>9
    <2> HIDE DEF n, start
    <2>3. QED
      BY <2>1, <2>2
  <1>14. IsParse(g, d, caps)
    BY <1>8, <1>9, <1>13 DEF IsParse
  <1>15. QED
    BY <1>7, <1>14

(* What is left of a configuration is what a capability of the list said.   *)
Describes(cap, c, config) ==
  /\ cap.type = c /\ config.bar = cap.bar /\ config.offset = cap.offset
  /\ config.length = cap.length /\ config.bar < BAR_COUNT

LEMMA ParseDescribes ==
  ASSUME NEW d, NEW caps \in Seq(CapabilityRecords), NEW f, IsParse(f, d, caps),
         NEW c \in ConfigNames, BAR_COUNT \in Nat
  PROVE  \/ f[Len(caps)].device[c] = d[c]
         \/ \E i \in 1 .. Len(caps) : Describes(caps[i], c, f[Len(caps)].device[c])
  <1> DEFINE n == Len(caps)
             Said(m) == \/ f[m].device[c] = d[c]
                        \/ \E i \in 1 .. n : Describes(caps[i], c, f[m].device[c])
             F == { m \in Nat : m <= n => Said(m) }
  <1>1. n \in Nat /\ \A i \in 1 .. n : caps[i] \in CapabilityRecords
    OBVIOUS
  <1>2. /\ \A m \in 0 .. n : f[m] \in Parsings
        /\ f[0] = [status |-> "SUCCESS", device |-> d]
        /\ \A i \in 1 .. n : f[i] = ParseStep(f[i - 1], caps[i])
    BY DEF IsParse
  <1>3. 0 \in F
    BY <1>2
  <1>4. ASSUME NEW m \in F PROVE m + 1 \in F
    <2>1. SUFFICES ASSUME m + 1 <= n PROVE Said(m + 1)
      OBVIOUS
    <2> HIDE DEF n
    <2>2. /\ m \in Nat /\ m + 1 \in 1 .. n /\ (m + 1) - 1 = m /\ m \in 0 .. n /\ Said(m)
      BY <1>1, <2>1
    <2>3. PICK cap \in CapabilityRecords : cap = caps[m + 1]
      BY <1>1, <2>2
    <2>4. PICK was \in Parsings : was = f[m]
      BY <1>2, <2>2
    <2>5. f[m + 1] = ParseStep(was, cap)
      BY <1>2, <2>2, <2>3, <2>4
    <2>6. CASE Taken(was, cap) /\ c = cap.type
      <3>1. /\ ParseStep(was, cap).device[cap.type].bar = cap.bar /\ cap.bar < BAR_COUNT
            /\ ParseStep(was, cap).device[cap.type].offset = cap.offset
            /\ ParseStep(was, cap).device[cap.type].length = cap.length
        BY <2>6, ParseStepFacts
      <3>2. Describes(cap, c, f[m + 1].device[c])
        BY <2>5, <2>6, <3>1 DEF Describes
      <3>3. QED
        BY <2>2, <2>3, <3>2
    <2>7. CASE ~(Taken(was, cap) /\ c = cap.type)
      <3>1. ASSUME ~Taken(was, cap) PROVE f[m + 1].device[c] = was.device[c]
        <4>1. ParseStep(was, cap).device = was.device
          BY <3>1, ParseStepFacts
        <4>2. QED
          BY <2>5, <4>1
      <3>2. ASSUME Taken(was, cap), c # cap.type PROVE f[m + 1].device[c] = was.device[c]
        <4>1. \A x \in ConfigNames : x # cap.type => ParseStep(was, cap).device[x] = was.device[x]
          BY <3>2, ParseStepFacts
        <4>2. PICK new : new = ParseStep(was, cap)
          OBVIOUS
        <4>3. new.device[c] = was.device[c]
          BY ONLY <3>2, <4>1, <4>2, c \in ConfigNames
        <4>4. QED
          BY <2>5, <4>2, <4>3
      <3>3. f[m + 1].device[c] = was.device[c]
        BY <2>5, <2>7, <3>1, <3>2
      <3>4. QED
        BY <2>2, <2>4, <3>3
    <2>8. QED
      BY <2>6, <2>7
  <1>5. F = Nat
    <2>1. F \subseteq Nat
      OBVIOUS
    <2> HIDE DEF F
    <2>2. QED
      BY <1>3, <1>4, <2>1, SetInduction
  <1>6. Said(n)
    <2> HIDE DEF Said, n
    <2>1. QED
      BY <1>1, <1>5
  <1>7. QED
    BY <1>6

(* Parsing from two devices: of each part of them, either neither parsing   *)
(* has changed it or both have it the same.                                 *)
Same(x, y, x0, y0) == x = y \/ (x = x0 /\ y = y0)

Alike(d1, d2, d10, d20) ==
  /\ \A c \in ConfigNames :
       /\ Same(d1[c].exists, d2[c].exists, d10[c].exists, d20[c].exists)
       /\ Same(d1[c].bar, d2[c].bar, d10[c].bar, d20[c].bar)
       /\ Same(d1[c].offset, d2[c].offset, d10[c].offset, d20[c].offset)
       /\ Same(d1[c].length, d2[c].length, d10[c].length, d20[c].length)
  /\ Same(d1.multiplier, d2.multiplier, d10.multiplier, d20.multiplier)

LEMMA ParsesAlike ==
  ASSUME NEW d1, NEW d2, NEW caps \in Seq(CapabilityRecords), BAR_COUNT \in Nat,
         NEW f, NEW g, IsParse(f, d1, caps), IsParse(g, d2, caps)
  PROVE  Alike(f[Len(caps)].device, g[Len(caps)].device, d1, d2)
  <1> DEFINE n == Len(caps)
             Both(m) == f[m].status = g[m].status /\ Alike(f[m].device, g[m].device, d1, d2)
             F == { m \in Nat : m <= n => Both(m) }
  <1>1. n \in Nat /\ \A i \in 1 .. n : caps[i] \in CapabilityRecords
    OBVIOUS
  <1>2. /\ \A m \in 0 .. n : f[m] \in Parsings /\ g[m] \in Parsings
        /\ f[0] = [status |-> "SUCCESS", device |-> d1]
        /\ g[0] = [status |-> "SUCCESS", device |-> d2]
        /\ \A i \in 1 .. n : /\ f[i] = ParseStep(f[i - 1], caps[i])
                              /\ g[i] = ParseStep(g[i - 1], caps[i])
    BY DEF IsParse
  <1>3. 0 \in F
    <2>1. f[0].status = g[0].status /\ f[0].device = d1 /\ g[0].device = d2
      BY <1>2
    <2>2. QED
      BY <2>1 DEF Alike, Same
  <1>4. ASSUME NEW m \in F PROVE m + 1 \in F
    <2>1. SUFFICES ASSUME m + 1 <= n PROVE Both(m + 1)
      OBVIOUS
    <2> HIDE DEF n
    <2>2. /\ m \in Nat /\ m + 1 \in 1 .. n /\ (m + 1) - 1 = m /\ m \in 0 .. n /\ Both(m)
      BY <1>1, <2>1
    <2>3. PICK cap \in CapabilityRecords : cap = caps[m + 1]
      BY <1>1, <2>2
    <2>4. PICK fw \in Parsings, gw \in Parsings : fw = f[m] /\ gw = g[m]
      BY <1>2, <2>2
    <2>5. PICK fn, gn : fn = ParseStep(fw, cap) /\ gn = ParseStep(gw, cap)
      OBVIOUS
    <2>6. f[m + 1] = fn /\ g[m + 1] = gn
      BY <1>2, <2>2, <2>3, <2>4, <2>5
    <2>7. fw.status = gw.status /\ Alike(fw.device, gw.device, d1, d2)
      BY <2>2, <2>4
    <2>8. Taken(fw, cap) <=> Taken(gw, cap)
      BY <2>7 DEF Taken
    <2>9. CASE ~Taken(fw, cap)
      <3>1. fn.device = fw.device /\ gn.device = gw.device
        BY <2>5, <2>8, <2>9, ParseStepFacts
      <3>2. fn.status = gn.status
        BY <2>5, <2>7, <2>9 DEF ParseStep, Taken, Parsings
      <3>3. QED
        BY <2>6, <2>7, <3>1, <3>2
    <2>10. CASE Taken(fw, cap)
      <3>1. /\ fn.status = "SUCCESS" /\ cap.type \in ConfigNames
            /\ \A c \in ConfigNames : c # cap.type => fn.device[c] = fw.device[c]
            /\ fn.device[cap.type].bar = cap.bar /\ fn.device[cap.type].offset = cap.offset
            /\ fn.device[cap.type].length = cap.length
            /\ fn.device[cap.type].exists = (Sets(cap) \/ fw.device[cap.type].exists)
            /\ fn.device.multiplier = IF cap.type = "notify" /\ Sets(cap) THEN cap.multiplier
                                      ELSE fw.device.multiplier
        BY <2>5, <2>10, ParseStepFacts
      <3>2. /\ gn.status = "SUCCESS"
            /\ \A c \in ConfigNames : c # cap.type => gn.device[c] = gw.device[c]
            /\ gn.device[cap.type].bar = cap.bar /\ gn.device[cap.type].offset = cap.offset
            /\ gn.device[cap.type].length = cap.length
            /\ gn.device[cap.type].exists = (Sets(cap) \/ gw.device[cap.type].exists)
            /\ gn.device.multiplier = IF cap.type = "notify" /\ Sets(cap) THEN cap.multiplier
                                      ELSE gw.device.multiplier
        BY <2>5, <2>8, <2>10, ParseStepFacts
      <3>3. /\ fw.device[cap.type].exists \in BOOLEAN /\ gw.device[cap.type].exists \in BOOLEAN
        BY <3>1 DEF Parsings, DeviceRecords, ConfigRecords, ConfigNames
      <3>4. Same(fn.device[cap.type].exists, gn.device[cap.type].exists,
                 d1[cap.type].exists, d2[cap.type].exists)
        <4>1. Same(fw.device[cap.type].exists, gw.device[cap.type].exists,
                   d1[cap.type].exists, d2[cap.type].exists)
          BY <2>7, <3>1 DEF Alike
        <4>2. CASE Sets(cap)
          <5>1. fn.device[cap.type].exists = gn.device[cap.type].exists
            BY <3>1, <3>2, <4>2
          <5>2. QED
            BY <5>1 DEF Same
        <4>3. CASE ~Sets(cap)
          <5>1. /\ fn.device[cap.type].exists = fw.device[cap.type].exists
                /\ gn.device[cap.type].exists = gw.device[cap.type].exists
            BY <3>1, <3>2, <3>3, <4>3
          <5>2. QED
            BY <4>1, <5>1
        <4>4. QED
          BY <4>2, <4>3
      <3>5. Same(fn.device.multiplier, gn.device.multiplier, d1.multiplier, d2.multiplier)
        BY <2>7, <3>1, <3>2 DEF Alike, Same
      <3>6. ASSUME NEW c \in ConfigNames
            PROVE  /\ Same(fn.device[c].exists, gn.device[c].exists, d1[c].exists, d2[c].exists)
                   /\ Same(fn.device[c].bar, gn.device[c].bar, d1[c].bar, d2[c].bar)
                   /\ Same(fn.device[c].offset, gn.device[c].offset, d1[c].offset, d2[c].offset)
                   /\ Same(fn.device[c].length, gn.device[c].length, d1[c].length, d2[c].length)
        <4>1. CASE c = cap.type
          BY <3>1, <3>2, <3>4, <4>1 DEF Same
        <4>2. CASE c # cap.type
          <5>1. fn.device[c] = fw.device[c] /\ gn.device[c] = gw.device[c]
            BY <3>1, <3>2, <4>2
          <5>2. QED
            BY <2>7, <5>1 DEF Alike
        <4>3. QED
          BY <4>1, <4>2
      <3>7. Alike(fn.device, gn.device, d1, d2)
        BY <3>5, <3>6 DEF Alike
      <3>8. QED
        BY <2>6, <3>1, <3>2, <3>7
    <2>11. QED
      BY <2>9, <2>10
  <1>5. F = Nat
    <2>1. F \subseteq Nat
      OBVIOUS
    <2> HIDE DEF F
    <2>2. QED
      BY <1>3, <1>4, <2>1, SetInduction
  <1>6. Both(n)
    <2> HIDE DEF Both, n
    <2>1. QED
      BY <1>1, <1>5
  <1>7. QED
    BY <1>6

(* So parsing a second time finds what is there.                            *)
LEMMA ParsedAgain ==
  ASSUME NEW d \in DeviceRecords, NEW caps \in Seq(CapabilityRecords), BAR_COUNT \in Nat
  PROVE  LET once == Virtio10!ParseCapabilities(d, caps).device
         IN  /\ once \in DeviceRecords
             /\ Virtio10!ParseCapabilities(once, caps).device = once
             /\ \A c \in ConfigNames :
                  \/ once[c] = d[c]
                  \/ \E i \in 1 .. Len(caps) : Describes(caps[i], c, once[c])
  <1>1. PICK f : IsParse(f, d, caps) /\ Virtio10!ParseCapabilities(d, caps) = f[Len(caps)]
    BY ParseGoesOn
  <1>2. PICK n \in Nat : n = Len(caps)
    OBVIOUS
  <1>3. PICK once : once = f[n].device
    OBVIOUS
  <1>4. once \in DeviceRecords
    BY <1>1, <1>2, <1>3 DEF IsParse, Parsings
  <1>5. PICK g : IsParse(g, once, caps) /\ Virtio10!ParseCapabilities(once, caps) = g[Len(caps)]
    BY <1>4, ParseGoesOn
  <1>6. PICK again : again = g[n].device
    OBVIOUS
  <1>7. again \in DeviceRecords
    BY <1>2, <1>5, <1>6 DEF IsParse, Parsings
  <1>8. Alike(once, again, d, once)
    BY <1>1, <1>2, <1>3, <1>5, <1>6, ParsesAlike
  <1>9. again.multiplier = once.multiplier
    BY <1>8 DEF Alike, Same
  <1>10. ASSUME NEW c \in ConfigNames PROVE again[c] = once[c]
    <2>1. again[c] \in ConfigRecords /\ once[c] \in ConfigRecords
      BY <1>4, <1>7 DEF DeviceRecords, ConfigNames
    <2>2. /\ again[c].exists = once[c].exists /\ again[c].bar = once[c].bar
          /\ again[c].offset = once[c].offset /\ again[c].length = once[c].length
      BY <1>8 DEF Alike, Same
    <2>3. QED
      BY <2>1, <2>2 DEF ConfigRecords
  <1>11. again = once
    <2>1. again.common = once.common /\ again.notify = once.notify /\ again.specific = once.specific
      BY <1>10 DEF ConfigNames
    <2>2. QED
      BY <1>4, <1>7, <1>9, <2>1 DEF DeviceRecords
  <1>12. \A c \in ConfigNames : \/ once[c] = d[c]
                               \/ \E i \in 1 .. Len(caps) : Describes(caps[i], c, once[c])
    BY <1>1, <1>2, <1>3, ParseDescribes
  <1>13. QED
    BY <1>1, <1>2, <1>3, <1>4, <1>5, <1>6, <1>11, <1>12

(* What a parsed device has, a capability described; and a parsing of the   *)
(* whole list leaves nothing for the next to find.                          *)
Configured(d, caps) ==
  \A c \in ConfigNames : \/ d[c] = Virtio10!NoDevice[c]
                         \/ \E i \in 1 .. Len(caps) : Describes(caps[i], c, d[c])

ParsingInv ==
  /\ init.at \in Parsing /\ init.caps \in Capabilities /\ registers.DeviceStatus = {}
  /\ device \in DeviceRecords /\ Configured(device, init.caps)
  /\ init.at # "parse" /\ init.status = "SUCCESS" =>
       Virtio10!ParseCapabilities(device, init.caps).device = device

VirtioInv == VirtioTypes /\ (ParsingInv \/ InitInv)

LEMMA NoDeviceType == Virtio10!NoDevice \in DeviceRecords
  BY DEF Virtio10!NoDevice, Virtio10!NoConfig, DeviceRecords, ConfigRecords

LEMMA ParsingStarts ==
  ASSUME VirtioConstants, Virtio10!Init, init.at \in Parsing
  PROVE  VirtioTypes /\ ParsingInv
  <1>1. /\ device = Virtio10!NoDevice /\ registers = [f \in DOMAIN Virtio10!Field |-> {}]
        /\ \E caps \in Capabilities : init = [Virtio10!Start("parse") EXCEPT !.caps = caps]
    BY DEF Virtio10!Init, Virtio10!Start, Parsing
  <1>2. PICK caps \in Capabilities : init = [Virtio10!Start("parse") EXCEPT !.caps = caps]
    BY <1>1
  <1>3. init.at = "parse" /\ init.caps = caps /\ DOMAIN init = Locals
    BY <1>2 DEF Virtio10!Start, Locals
  <1>4. DOMAIN Virtio10!Field = RegisterNames
    BY DEF Virtio10!Field, RegisterNames
  <1>5. DOMAIN registers = RegisterNames /\ registers.DeviceStatus = {}
    BY <1>1, <1>4 DEF RegisterNames
  <1>6. device \in DeviceRecords /\ Configured(device, init.caps)
    BY <1>1, NoDeviceType DEF Configured
  <1>7. QED
    BY <1>1, <1>3, <1>5, <1>6 DEF VirtioTypes, ParsingInv

LEMMA CapabilitiesTyped ==
  ASSUME VirtioConstants, ParsingInv
  PROVE  init.caps \in Seq(CapabilityRecords) /\ BAR_COUNT \in Nat
  BY DEF VirtioConstants, ParsingInv, CapabilityRecords

(* A list of which a part is read is one of capabilities of the whole list, *)
(* or with the place of one of them.                                        *)
LEMMA PartDescribes ==
  ASSUME NEW caps \in Seq(CapabilityRecords), NEW read \in Virtio10!PartsRead(caps)
  PROVE  /\ read \in Seq(CapabilityRecords)
         /\ \A i \in 1 .. Len(read) : \E j \in 1 .. Len(caps) :
              /\ read[i].type = caps[j].type /\ read[i].bar = caps[j].bar
              /\ read[i].offset = caps[j].offset /\ read[i].length = caps[j].length
  <1>1. CASE read = << >>
    BY <1>1
  <1>2. ASSUME NEW n \in DOMAIN caps
        PROVE  LET part == SubSeq(caps, 1, n - 1)
               IN  /\ part \in Seq(CapabilityRecords) /\ Len(part) = n - 1
                   /\ \A i \in 1 .. n - 1 : part[i] = caps[i] /\ i \in 1 .. Len(caps)
    OBVIOUS
  <1>3. ASSUME NEW n \in DOMAIN caps, read = SubSeq(caps, 1, n - 1)
        PROVE  /\ read \in Seq(CapabilityRecords)
               /\ \A i \in 1 .. Len(read) : read[i] = caps[i] /\ i \in 1 .. Len(caps)
    BY <1>2, <1>3
  <1>4. ASSUME NEW n \in DOMAIN caps,
               read = Append(SubSeq(caps, 1, n - 1), Virtio10!Placed(caps[n]))
        PROVE  /\ read \in Seq(CapabilityRecords)
               /\ \A i \in 1 .. Len(read) : \E j \in 1 .. Len(caps) :
                    /\ read[i].type = caps[j].type /\ read[i].bar = caps[j].bar
                    /\ read[i].offset = caps[j].offset /\ read[i].length = caps[j].length
    <2>1. PICK part, placed : part = SubSeq(caps, 1, n - 1) /\ placed = Virtio10!Placed(caps[n])
      OBVIOUS
    <2>2. /\ part \in Seq(CapabilityRecords) /\ Len(part) = n - 1
          /\ \A i \in 1 .. n - 1 : part[i] = caps[i] /\ i \in 1 .. Len(caps)
      BY <1>2, <2>1
    <2>3. /\ caps[n] \in CapabilityRecords /\ n \in 1 .. Len(caps) /\ n \in Nat
      OBVIOUS
    <2>4. /\ placed \in CapabilityRecords /\ placed.type = caps[n].type /\ placed.bar = caps[n].bar
          /\ placed.offset = caps[n].offset /\ placed.length = caps[n].length
      <3>1. PICK cap \in CapabilityRecords : cap = caps[n]
        BY <2>3
      <3>2. placed = [cap EXCEPT !.capLen = "base"]
        BY <2>1, <3>1 DEF Virtio10!Placed
      <3>3. /\ placed \in CapabilityRecords /\ placed.type = cap.type /\ placed.bar = cap.bar
            /\ placed.offset = cap.offset /\ placed.length = cap.length
        <4>1. placed = [ type |-> cap.type, capLen |-> "base", bar |-> cap.bar, offset |-> cap.offset,
                         length |-> cap.length, multiplier |-> cap.multiplier ]
          BY <3>2 DEF CapabilityRecords
        <4>2. QED
          BY <4>1 DEF CapabilityRecords, CapabilityLengths
      <3>4. QED
        BY <3>1, <3>3
    <2>5. /\ read \in Seq(CapabilityRecords) /\ Len(read) = n /\ read[n] = placed
          /\ \A i \in 1 .. n - 1 : read[i] = part[i]
      BY <1>4, <2>1, <2>2, <2>3, <2>4
    <2>6. ASSUME NEW i \in 1 .. Len(read)
          PROVE  \E j \in 1 .. Len(caps) :
                   /\ read[i].type = caps[j].type /\ read[i].bar = caps[j].bar
                   /\ read[i].offset = caps[j].offset /\ read[i].length = caps[j].length
      <3>1. CASE i = n
        BY <2>3, <2>4, <2>5, <3>1
      <3>2. CASE i # n
        <4>1. i \in 1 .. n - 1
          BY <2>3, <2>5, <3>2
        <4>2. read[i] = caps[i] /\ i \in 1 .. Len(caps)
          BY <2>2, <2>5, <4>1
        <4>3. QED
          BY <4>2
      <3>3. QED
        BY <3>1, <3>2
    <2>7. QED
      BY <2>5, <2>6
  <1>5. QED
    BY <1>1, <1>3, <1>4 DEF Virtio10!PartsRead

LEMMA ParsedOf ==
  ASSUME VirtioConstants, VirtioTypes, ParsingInv, NEW read \in Seq(CapabilityRecords), NEW ending,
         Virtio10!ParseOf(read, ending), read = init.caps \/ ending # "SUCCESS",
         \A i \in 1 .. Len(read) : \E j \in 1 .. Len(init.caps) :
           /\ read[i].type = init.caps[j].type /\ read[i].bar = init.caps[j].bar
           /\ read[i].offset = init.caps[j].offset /\ read[i].length = init.caps[j].length
  PROVE  VirtioTypes' /\ ParsingInv'
  <1>1. PICK once, verdict : /\ once = Virtio10!ParseCapabilities(device, read).device
                             /\ verdict = Virtio10!ParseCapabilities(device, read).status
    OBVIOUS
  <1>2. /\ once \in DeviceRecords
        /\ Virtio10!ParseCapabilities(once, read).device = once
        /\ \A c \in ConfigNames :
             once[c] = device[c] \/ \E i \in 1 .. Len(read) : Describes(read[i], c, once[c])
    <2>1. BAR_COUNT \in Nat /\ device \in DeviceRecords
      BY DEF VirtioConstants, ParsingInv
    <2>2. QED
      BY <1>1, <2>1, ParsedAgain
  <1>3. /\ init.at \in {"parse", "parse again"} /\ registers' = registers /\ device' = once
        /\ init' = [[init EXCEPT !.status = IF verdict = "SUCCESS" THEN ending ELSE verdict]
                     EXCEPT !.at = IF init.at = "parse" THEN "parse again" ELSE "parsed"]
    BY <1>1 DEF Virtio10!ParseOf, Virtio10!Goto
  <1>4. /\ DOMAIN init' = Locals /\ init'.caps = init.caps /\ init'.at \in {"parse again", "parsed"}
        /\ init'.status = IF verdict = "SUCCESS" THEN ending ELSE verdict
    BY <1>3 DEF VirtioTypes, Locals
  <1>5. Configured(once, init.caps)
    <2>1. SUFFICES ASSUME NEW c \in ConfigNames, once[c] # Virtio10!NoDevice[c]
                   PROVE  \E j \in 1 .. Len(init.caps) : Describes(init.caps[j], c, once[c])
      BY DEF Configured
    <2>2. CASE once[c] = device[c]
      BY <2>1, <2>2 DEF ParsingInv, Configured
    <2>3. CASE once[c] # device[c]
      <3>1. PICK i \in 1 .. Len(read) : Describes(read[i], c, once[c])
        BY <1>2, <2>3
      <3>2. QED
        BY <3>1 DEF Describes
    <2>4. QED
      BY <2>2, <2>3
  <1>6. init'.status = "SUCCESS" => Virtio10!ParseCapabilities(once, init.caps).device = once
    BY <1>2, <1>4
  <1>7. QED
    BY <1>2, <1>3, <1>4, <1>5, <1>6 DEF VirtioTypes, ParsingInv, Parsing

LEMMA Parsed ==
  ASSUME VirtioConstants, VirtioTypes, ParsingInv, Virtio10!Parse \/ Virtio10!ParseFails
  PROVE  VirtioTypes' /\ ParsingInv'
  <1>1. init.caps \in Seq(CapabilityRecords)
    BY CapabilitiesTyped
  <1>2. CASE Virtio10!Parse
    BY <1>1, <1>2, ParsedOf DEF Virtio10!Parse
  <1>3. CASE Virtio10!ParseFails
    <2>1. PICK read \in Virtio10!PartsRead(init.caps) : Virtio10!ParseOf(read, "DEVICE_ERROR")
      BY <1>3 DEF Virtio10!ParseFails
    <2>2. QED
      BY <1>1, <2>1, PartDescribes, ParsedOf
  <1>4. QED
    BY <1>2, <1>3

LEMMA VirtioStep ==
  ASSUME VirtioConstants, VirtioInv, [Virtio10!Next]_(Virtio10!vars)
  PROVE  VirtioInv'
  <1>1. CASE UNCHANGED Virtio10!vars
    <2>1. UNCHANGED << device, registers, ring, blkMedia, init >>
      BY <1>1 DEF Virtio10!vars
    <2>2. Virtio10!InitOutcome' <=> Virtio10!InitOutcome
      BY <2>1 DEF Virtio10!InitOutcome, Virtio10!Live
    <2>3. ConfigurationValid' <=> ConfigurationValid
      BY <2>1 DEF ConfigurationValid
    <2>4. InitInv => InitInv'
      BY <2>1, <2>2, <2>3 DEF InitInv, Virtio10!Live
    <2>5. ParsingInv => ParsingInv'
      BY <2>1 DEF ParsingInv
    <2>6. QED
      BY <2>1, <2>4, <2>5 DEF VirtioInv, VirtioTypes
  <1>2. CASE ParsingInv /\ Virtio10!Next
    <2>1. init.at \in Parsing
      BY <1>2 DEF ParsingInv
    <2>2. Virtio10!Parse \/ Virtio10!ParseFails
      BY <1>2, <2>1 DEF Parsing, Virtio10!Next, Virtio10!Virtio10SetDeviceStatus, Virtio10!After,
         Virtio10!Virtio10GetDeviceFeatures, Virtio10!ReadConfiguration, Virtio10!Virtio10SetGuestFeatures,
         Virtio10!Virtio10SetQueueSel, Virtio10!Virtio10GetQueueNumMax, Virtio10!AllocateRing,
         Virtio10!Virtio10SetQueueNum, Virtio10!Virtio10SetQueueAddress, Virtio10!DriverOk,
         Virtio10!Virtio10SetQueueNotify, Virtio10!CallFails, Virtio10!UnmapQueue, Virtio10!ReleaseQueue,
         Virtio10!Failed
    <2>3. QED
      BY <1>2, <2>2, Parsed DEF VirtioInv
  <1>3. CASE InitInv /\ Virtio10!Next
    <2>1. ~Virtio10!Parse /\ ~Virtio10!ParseFails
      BY <1>3 DEF InitInv, Virtio10!Parse, Virtio10!ParseFails, Virtio10!ParseOf, Initialising, Negotiating, Agreeing, Choosing, Placing, Undoing
    <2>2. VirtioTypes
      BY DEF VirtioInv
    <2>3. ASSUME VirtioTypes' /\ InitInv' PROVE VirtioInv'
      BY <2>3 DEF VirtioInv
    <2>4. CASE \E index \in {0, 1} : Virtio10!Virtio10SetQueueNotify(index)
      BY <1>3, <2>2, <2>3, <2>4, QueueNotified
    <2>5. CASE \/ Virtio10!Virtio10SetDeviceStatus \/ Virtio10!Virtio10GetDeviceFeatures
               \/ Virtio10!ReadConfiguration \/ Virtio10!Virtio10SetGuestFeatures
               \/ Virtio10!Virtio10SetQueueSel
      BY <1>3, <2>2, <2>3, <2>5, StatusSet, FeaturesRead, ConfigurationRead, FeaturesWritten, QueueSelected
    <2>6. CASE \/ Virtio10!Virtio10GetQueueNumMax \/ Virtio10!AllocateRing
               \/ Virtio10!Virtio10SetQueueNum \/ Virtio10!Virtio10SetQueueAddress
      BY <1>3, <2>2, <2>3, <2>6, QueueMeasured, RingAllocated, QueueSized, QueuePlaced
    <2>7. CASE \/ Virtio10!DriverOk \/ Virtio10!CallFails \/ Virtio10!UnmapQueue \/ Virtio10!ReleaseQueue
               \/ Virtio10!Failed
      BY <1>3, <2>2, <2>3, <2>7, DeviceLive, CallFailed, Undone, DeviceTold
    <2>8. QED
      BY <1>3, <2>1, <2>4, <2>5, <2>6, <2>7 DEF Virtio10!Next
  <1>4. QED
    BY <1>1, <1>2, <1>3 DEF VirtioInv

LEMMA ConfigurationsFound ==
  ASSUME VirtioConstants, ParsingInv
  PROVE  Virtio10!ConfigurationsDescribed
  <1>1. PICK d \in DeviceRecords, caps \in Seq(CapabilityRecords) : d = device /\ caps = init.caps
    BY CapabilitiesTyped DEF ParsingInv
  <1>2. ASSUME NEW c \in ConfigNames, d[c].exists
        PROVE  \E i \in DOMAIN caps : /\ caps[i].type = c /\ Virtio10!Saved(d[c], caps[i]) = d[c]
                                      /\ d[c].bar < BAR_COUNT
    <2>1. ~Virtio10!NoDevice[c].exists
      BY DEF Virtio10!NoDevice, Virtio10!NoConfig, ConfigNames
    <2>2. PICK i \in 1 .. Len(caps) : Describes(caps[i], c, d[c])
      BY <1>1, <1>2, <2>1 DEF ParsingInv, Configured
    <2>3. d[c] \in ConfigRecords
      BY DEF DeviceRecords, ConfigNames
    <2>4. Virtio10!Saved(d[c], caps[i]) = d[c]
      BY <2>2, <2>3 DEF Virtio10!Saved, Describes, ConfigRecords
    <2>5. i \in DOMAIN caps
      OBVIOUS
    <2>6. QED
      BY <2>2, <2>4, <2>5 DEF Describes
  <1>3. init.at # "parse" /\ init.status = "SUCCESS" => Virtio10!ParseCapabilities(d, caps).device = d
    BY <1>1 DEF ParsingInv
  <1>4. QED
    BY <1>1, <1>2, <1>3 DEF Virtio10!ConfigurationsDescribed, ConfigNames

(***************************************************************************)
(* For any device, any of its calls failing: it goes live only with its    *)
(* queue in place, the features agreed and blocks that cover its capacity  *)
(* exactly, and every failure unmaps and releases what there was of the    *)
(* ring and is told to the device (VirtioBlkStubLib.c:69); and whatever    *)
(* capabilities are parsed, each configuration found is the one that a     *)
(* capability describes, wherever the reading fails, and the second time   *)
(* as the first when it does not (VirtioPciDevice10StubLib.c:695).         *)
(***************************************************************************)
THEOREM VirtioCorrect ==
  ASSUME VirtioConstants
  PROVE  Virtio10!Spec => []VirtioExact
  <1>1. Virtio10!Init => VirtioInv
    BY InitStarts, ParsingStarts DEF VirtioInv
  <1>2. VirtioInv /\ [Virtio10!Next]_(Virtio10!vars) => VirtioInv'
    BY VirtioStep
  <1>3. VirtioInv => VirtioExact
    <2>1. SUFFICES ASSUME VirtioInv PROVE Virtio10!InitOutcome /\ Virtio10!ConfigurationsDescribed
      BY DEF VirtioExact, Virtio10!VirtioExact
    <2>2. CASE ParsingInv
      <3>1. Virtio10!InitOutcome
        BY <2>2 DEF ParsingInv, Parsing, Virtio10!InitOutcome, Virtio10!Live
      <3>2. QED
        BY <2>2, <3>1, ConfigurationsFound
    <2>3. CASE InitInv
      <3>1. init.at \notin {"parse again", "parsed"}
        BY <2>3 DEF InitInv, Initialising, Negotiating, Agreeing, Choosing, Placing, Undoing
      <3>2. QED
        BY <2>3, <3>1 DEF InitInv, Virtio10!ConfigurationsDescribed
    <2>4. QED
      BY <2>1, <2>2, <2>3 DEF VirtioInv
  <1>4. QED
    BY <1>1, <1>2, <1>3, PTL DEF Virtio10!Spec
-----------------------------------------------------------------------------
(* The disk.                                                               *)

DiskConstants ==
  /\ ImageSizes \subseteq Nat \ {0} /\ BlockSizes \subseteq Nat \ {0} /\ Aligns \subseteq Nat \ {0}
  /\ DATA_BUFFER_BLOCK_NUM \in Nat \ {0} /\ MaxOffset \in Nat /\ MaxLength \in Nat

(* The bytes that block numbers reach hold the image.                       *)
MediaInv ==
  /\ media.size \in Nat \ {0} /\ media.blockSize \in Nat \ {0} /\ media.align \in Nat \ {0}
  /\ media.lastBlock \in Nat /\ media.size <= Disk!Reach(media)

Measures(bs, reach) ==
  bs = media.blockSize /\ reach = Disk!Reach(media) /\ bs \in Nat \ {0} /\ reach \in Nat

DiskStatuses ==
  {"SUCCESS", "BAD_BUFFER_SIZE", "INVALID_PARAMETER", "MEDIA_CHANGED", "OUT_OF_RESOURCES"}

DiskCalls ==
  [ is : {"head", "blocks", "tail", "done"}, write : BOOLEAN, offset : Nat, size : Nat,
    address : Nat, buffer : Seq(Int), done : Nat, left : Nat, lba : Nat, complete : BOOLEAN,
    overRun : Nat, overRunLba : Nat, aligned : BOOLEAN, chunk : Nat, status : DiskStatuses ]

(* The first d bytes of the transfer have been moved, and no other byte.    *)
Moved(write, offset, size, img, buffer, d, reach) ==
  /\ d \in 0 .. size /\ (d = 0 \/ offset + d <= reach)
  /\ img = [ i \in 0 .. reach - 1 |->
               IF write /\ i \in offset .. offset + d - 1 THEN 100 + (i - offset + 1) ELSE i ]
  /\ buffer \in Seq(Int) /\ Len(buffer) = size
  /\ write => \A j \in 1 .. size : buffer[j] = 100 + j
  /\ ~write => \A j \in 1 .. d : buffer[j] = offset + j - 1

Inside(c) == c.offset + c.size <= media.size

(* Where the transfer stands.                                               *)
Stands(c, bs) ==
  /\ c.is # "done" => ~c.complete /\ c.chunk = bs * DATA_BUFFER_BLOCK_NUM
  /\ c.is = "head" => /\ c.done = 0 /\ c.left = c.size
                      /\ c.offset = bs * c.lba + (c.offset % bs)
  /\ c.is = "blocks" =>
       /\ c.overRun < bs /\ bs * c.overRunLba = c.offset + c.size - c.overRun
       /\ \/ /\ c.left >= bs /\ bs * c.lba = c.offset + c.done
             /\ c.done + c.left + c.overRun = c.size
             /\ \E q \in Nat : c.left = bs * q
          \/ c.left < bs /\ c.done + c.overRun = c.size
  /\ c.is = "tail" => /\ c.overRun < bs /\ bs * c.overRunLba = c.offset + c.done
                      /\ c.done + c.overRun = c.size

Ended(c, img, reach) ==
  c.is = "done" =>
    /\ \E d \in 0 .. c.size : /\ Moved(c.write, c.offset, c.size, img, c.buffer, d, reach)
                              /\ c.status = "SUCCESS" => d = c.size
    /\ Inside(c) => c.status \notin {"INVALID_PARAMETER", "BAD_BUFFER_SIZE"}

DiskInv ==
  /\ MediaInv
  /\ before = [i \in 0 .. Disk!Reach(media) - 1 |-> i]
  /\ \/ diskCall = Disk!Idle /\ image = before
     \/ /\ diskCall \in DiskCalls /\ Stands(diskCall, media.blockSize)
        /\ Ended(diskCall, image, Disk!Reach(media))
        /\ diskCall.is # "done" =>
             Moved(diskCall.write, diskCall.offset, diskCall.size, image, diskCall.buffer,
                   diskCall.done, Disk!Reach(media))

(* Products keep the order.                                                 *)
LEMMA ProductsOrdered ==
  ASSUME NEW b \in Nat \ {0}, NEW x \in Int, NEW y \in Int
  PROVE  /\ b * x \in Int /\ b * y \in Int
         /\ x <= y => b * x <= b * y
         /\ b * x <= b * y => x <= y
         /\ b * x < b * y => x < y /\ b * x + b <= b * y
         /\ b * (x + y) = b * x + b * y
  <1>1. b * x \in Int /\ b * y \in Int /\ b * (x + y) = b * x + b * y
    OBVIOUS
  <1>2. PICK d \in Int : y = x + d
    <2>1. y - x \in Int /\ y = x + (y - x)
      OBVIOUS
    <2>2. QED
      BY <2>1
  <1>3. b * y = b * x + b * d /\ b * d \in Int
    BY <1>2
  <1>4. d >= 1 => b * d >= b
    OBVIOUS
  <1>5. d <= -1 => b * d <= -b
    OBVIOUS
  <1>6. d = 0 => b * d = 0
    OBVIOUS
  <1> DEFINE bx == b * x  by == b * y  bd == b * d
  <1>7. bx \in Int /\ by = bx + bd /\ bd \in Int
    BY <1>1, <1>3
  <1>8. (d >= 1 => bd >= b) /\ (d <= -1 => bd <= -b) /\ (d = 0 => bd = 0)
    BY <1>4, <1>5, <1>6
  <1> HIDE DEF bx, by, bd
  <1>9. /\ x <= y => bx <= by
        /\ bx <= by => x <= y
        /\ bx < by => x < y /\ bx + b <= by
    BY <1>2, <1>7, <1>8
  <1>10. QED
    BY <1>1, <1>9 DEF bx, by

(* A multiple of a block is a whole number of blocks.                       *)
LEMMA WholeMultiple ==
  ASSUME NEW b \in Nat \ {0}, NEW q \in Int
  PROVE  (b * q) % b = 0 /\ (b * q) \div b = q
  <1>1. PICK n \in Int : n = b * q
    OBVIOUS
  <1>2. n % b = 0
    BY <1>1, MultipleOf
  <1>3. PICK p \in Int : p = n \div b
    BY DivisionBy
  <1>4. n = b * p
    BY <1>1, <1>2, <1>3, DivisionBy
  <1>5. b * q <= b * p /\ b * p <= b * q
    BY <1>1, <1>4
  <1>6. q <= p /\ p <= q
    BY <1>5, ProductsOrdered
  <1>7. QED
    BY <1>1, <1>2, <1>3, <1>6

(* What the status of a transfer of blocks says of its place.               *)
LEMMA StatusTells ==
  ASSUME MediaInv, NEW bs, NEW reach, Measures(bs, reach),
         NEW lba \in Nat, NEW size \in Nat, NEW first, first = bs * lba,
         NEW status, status = Disk!BlocksStatus(media, lba, size)
  PROVE  /\ status \in {"SUCCESS", "BAD_BUFFER_SIZE", "INVALID_PARAMETER"}
         /\ status = "SUCCESS" => size = 0 \/ first + size <= reach
         /\ \A q \in Nat : size = bs * q /\ (size = 0 \/ first + size <= reach) => status = "SUCCESS"
  <1> PICK last : last = media.lastBlock
    OBVIOUS
  <1>1. bs \in Nat \ {0} /\ last \in Nat /\ last + 1 \in Int
    BY DEF MediaInv, Measures
  <1>2. reach = bs * (last + 1)
    <2>1. reach = (last + 1) * bs
      BY DEF Disk!Reach, Measures
    <2>2. QED
      BY <1>1, <2>1
  <1>3. PICK quotient, remainder : quotient = size \div bs /\ remainder = size % bs
    OBVIOUS
  <1>4. size = bs * quotient + remainder /\ remainder \in 0 .. bs - 1 /\ quotient \in Int
    <2>1. size \in Int
      OBVIOUS
    <2>2. size = bs * (size \div bs) + (size % bs) /\ size % bs \in 0 .. bs - 1 /\ size \div bs \in Int
      BY <1>1, <2>1, DivisionBy, Zenon
    <2>3. QED
      BY <1>3, <2>2
  <1>5. status = CASE size = 0 -> "SUCCESS"
                   [] size > 0 /\ remainder # 0 -> "BAD_BUFFER_SIZE"
                   [] size > 0 /\ remainder = 0 /\ lba > last -> "INVALID_PARAMETER"
                   [] OTHER -> IF lba + quotient - 1 > last THEN "INVALID_PARAMETER" ELSE "SUCCESS"
    BY <1>3 DEF Disk!BlocksStatus, Measures
  <1>6. size = 0 => status = "SUCCESS"
    BY <1>5
  <1>7. size > 0 => status = IF remainder # 0 THEN "BAD_BUFFER_SIZE"
                             ELSE IF lba > last \/ lba + quotient - 1 > last THEN "INVALID_PARAMETER"
                             ELSE "SUCCESS"
    BY <1>5
  <1>8. status \in {"SUCCESS", "BAD_BUFFER_SIZE", "INVALID_PARAMETER"}
    BY <1>6, <1>7
  <1>9. ASSUME status = "SUCCESS", size > 0 PROVE bs * lba + size <= reach
    <2>1. remainder = 0 /\ lba + quotient <= last + 1 /\ lba + quotient \in Int
      BY <1>1, <1>4, <1>7, <1>9
    <2>2. bs * (lba + quotient) <= bs * (last + 1) /\ bs * (lba + quotient) = bs * lba + bs * quotient
      BY <1>1, <1>4, <2>1, ProductsOrdered
    <2>3. size = bs * quotient
      <3>1. bs * quotient \in Int
        BY <1>1, <1>4
      <3>2. QED
        BY <1>4, <2>1, <3>1
    <2>4. QED
      BY <1>2, <2>2, <2>3
  <1>10. ASSUME NEW q \in Nat, size = bs * q, size > 0, bs * lba + size <= reach
         PROVE  status = "SUCCESS"
    <2>1. remainder = 0 /\ quotient = q
      BY <1>1, <1>3, <1>10, WholeMultiple
    <2>2. bs * (lba + q) = bs * lba + bs * q
      BY <1>1, ProductsOrdered
    <2>3. bs * (lba + q) <= bs * (last + 1)
      BY <1>2, <1>10, <2>2
    <2>4. lba + q <= last + 1
      BY <1>1, <2>3, ProductsOrdered
    <2>5. q >= 1
      <3>1. q = 0 => bs * q = 0
        BY <1>1
      <3>2. QED
        BY <1>10, <3>1
    <2>6. ~(lba > last \/ lba + quotient - 1 > last)
      BY <1>1, <2>1, <2>4, <2>5
    <2>7. QED
      BY <1>7, <1>10, <2>1, <2>6
  <1>11. size = 0 \/ size > 0
    OBVIOUS
  <1>12. QED
    BY <1>6, <1>8, <1>9, <1>10, <1>11

StatusOf(status, bs, reach, lba, size, first) ==
  /\ Measures(bs, reach) /\ lba \in Nat /\ size \in Nat /\ first = bs * lba
  /\ status = Disk!BlocksStatus(media, lba, size)

LEMMA StatusTold ==
  ASSUME MediaInv, NEW status, NEW bs, NEW reach, NEW lba, NEW size, NEW first,
         StatusOf(status, bs, reach, lba, size, first)
  PROVE  /\ status \in {"SUCCESS", "BAD_BUFFER_SIZE", "INVALID_PARAMETER"}
         /\ status = "SUCCESS" => size = 0 \/ first + size <= reach
         /\ \A q \in Nat : size = bs * q /\ (size = 0 \/ first + size <= reach) => status = "SUCCESS"
  <1> /\ Measures(bs, reach) /\ lba \in Nat /\ size \in Nat /\ first = bs * lba
      /\ status = Disk!BlocksStatus(media, lba, size)
    BY DEF StatusOf
  <1> QED
    BY StatusTells

(* A block that begins before the end is all there.                         *)
LEMMA BlockInside ==
  ASSUME MediaInv, NEW bs, NEW reach, Measures(bs, reach),
         NEW lba \in Nat, NEW first, first = bs * lba, first < reach
  PROVE  first + bs <= reach
  <1> PICK last : last = media.lastBlock
    OBVIOUS
  <1>1. bs \in Nat \ {0} /\ last + 1 \in Int
    BY DEF MediaInv, Measures
  <1>2. reach = bs * (last + 1)
    <2>1. reach = (last + 1) * bs
      BY DEF Disk!Reach, Measures
    <2>2. QED
      BY <1>1, <2>1
  <1>3. PICK count \in Int : count = last + 1
    BY <1>1
  <1>4. bs * lba < bs * count => bs * lba + bs <= bs * count
    <2>1. lba \in Int
      OBVIOUS
    <2>2. QED
      BY ONLY <1>1, <1>3, <2>1, ProductsOrdered
  <1>5. QED
    BY <1>2, <1>3, <1>4

Reads(bs, reach, img, lba, size, first, read) ==
  /\ Measures(bs, reach) /\ lba \in Nat /\ size \in Nat /\ first = bs * lba
  /\ \A i \in 0 .. reach - 1 : img[i] \in Int
  /\ read = Disk!ReadBlocks(media, img, lba, size)

LEMMA ReadGives ==
  ASSUME MediaInv, NEW bs, NEW reach, NEW img, NEW lba, NEW size, NEW first, NEW read,
         Reads(bs, reach, img, lba, size, first, read)
  PROVE  /\ read.status = Disk!BlocksStatus(media, lba, size)
         /\ read.status = "SUCCESS" =>
              /\ read.data \in Seq(Int) /\ Len(read.data) = size
              /\ \A i \in 1 .. size : read.data[i] = img[first + i - 1]
  <1> DEFINE data == [i \in 1 .. size |-> img[first + i - 1]]
  <1> PICK status : status = Disk!BlocksStatus(media, lba, size)
    OBVIOUS
  <1> /\ Measures(bs, reach) /\ lba \in Nat /\ size \in Nat /\ first = bs * lba
      /\ \A i \in 0 .. reach - 1 : img[i] \in Int
      /\ read = Disk!ReadBlocks(media, img, lba, size)
    BY DEF Reads
  <1>1. bs \in Nat \ {0} /\ reach \in Nat /\ first \in Nat /\ lba * media.blockSize = first
    BY DEF Measures
  <1>2. read = [ status |-> status, data |-> IF status = "SUCCESS" THEN data ELSE << >> ]
    BY <1>1 DEF Disk!ReadBlocks
  <1>3. ASSUME status = "SUCCESS" PROVE \A i \in 1 .. size : data[i] \in Int
    <2>1. size = 0 \/ first + size <= reach
      BY <1>3, StatusTells
    <2>2. \A i \in 1 .. size : first + i - 1 \in 0 .. reach - 1
      BY <1>1, <2>1
    <2>3. QED
      BY <2>2
  <1>4. ASSUME status = "SUCCESS"
        PROVE  data \in Seq(Int) /\ Len(data) = size
    <2>1. data \in [1 .. size -> Int]
      BY <1>3, <1>4
    <2>2. QED
      BY <2>1
  <1>5. QED
    BY <1>2, <1>4

Writes(bs, reach, img, lba, data, first, write) ==
  /\ Measures(bs, reach) /\ lba \in Nat /\ first = bs * lba /\ data \in Seq(Int)
  /\ DOMAIN img = 0 .. reach - 1
  /\ write = Disk!WriteBlocks(media, img, lba, data)

LEMMA WriteGives ==
  ASSUME MediaInv, NEW bs, NEW reach, NEW img, NEW lba, NEW data, NEW first, NEW write,
         Writes(bs, reach, img, lba, data, first, write)
  PROVE  /\ write.status = Disk!BlocksStatus(media, lba, Len(data))
         /\ write.status # "SUCCESS" => write.image = img
  BY DEF Disk!WriteBlocks, Writes

LEMMA WritePuts ==
  ASSUME MediaInv, NEW bs, NEW reach, NEW img, NEW lba, NEW data, NEW first, NEW write,
         Writes(bs, reach, img, lba, data, first, write), write.status = "SUCCESS"
  PROVE  write.image = [ i \in 0 .. reach - 1 |->
                           IF i \in first .. first + Len(data) - 1
                             THEN data[i - first + 1] ELSE img[i] ]
  <1>1. lba * media.blockSize = first
    BY DEF Measures, Writes
  <1>2. QED
    BY <1>1 DEF Disk!WriteBlocks, Writes

(* Moving the next n bytes, to the image or to the buffer.                  *)
LEMMA MovedToImage ==
  ASSUME NEW offset \in Nat, NEW size \in Nat, NEW reach \in Nat, NEW d \in Nat, NEW n \in Nat,
         NEW img, NEW buffer, Moved(TRUE, offset, size, img, buffer, d, reach),
         d + n <= size, n = 0 \/ offset + d + n <= reach, NEW new,
         new = [ i \in 0 .. reach - 1 |->
                   IF i \in offset + d .. offset + d + n - 1 THEN 100 + (i - offset + 1) ELSE img[i] ]
  PROVE  Moved(TRUE, offset, size, new, buffer, d + n, reach)
  <1>1. /\ d = 0 \/ offset + d <= reach
        /\ img = [ i \in 0 .. reach - 1 |->
                     IF i \in offset .. offset + d - 1 THEN 100 + (i - offset + 1) ELSE i ]
        /\ buffer \in Seq(Int) /\ Len(buffer) = size /\ \A j \in 1 .. size : buffer[j] = 100 + j
    BY DEF Moved
  <1>2. ASSUME NEW i \in 0 .. reach - 1
        PROVE  new[i] = IF i \in offset .. offset + (d + n) - 1 THEN 100 + (i - offset + 1) ELSE i
    BY <1>1
  <1>3. new = [ i \in 0 .. reach - 1 |->
                  IF i \in offset .. offset + (d + n) - 1 THEN 100 + (i - offset + 1) ELSE i ]
    BY <1>2
  <1>4. d + n \in 0 .. size /\ (d + n = 0 \/ offset + (d + n) <= reach)
    BY <1>1
  <1>5. QED
    BY <1>1, <1>3, <1>4 DEF Moved

LEMMA MovedToBuffer ==
  ASSUME NEW offset \in Nat, NEW size \in Nat, NEW reach \in Nat, NEW d \in Nat, NEW n \in Nat,
         NEW img, NEW buffer, Moved(FALSE, offset, size, img, buffer, d, reach),
         d + n <= size, n = 0 \/ offset + d + n <= reach, NEW new,
         new = [ j \in 1 .. size |-> IF j - d \in 1 .. n THEN offset + j - 1 ELSE buffer[j] ]
  PROVE  Moved(FALSE, offset, size, img, new, d + n, reach)
  <1>1. /\ d = 0 \/ offset + d <= reach
        /\ img = [ i \in 0 .. reach - 1 |-> i ]
        /\ buffer \in Seq(Int) /\ Len(buffer) = size /\ \A j \in 1 .. d : buffer[j] = offset + j - 1
    BY DEF Moved
  <1>2. \A j \in 1 .. size : buffer[j] \in Int
    BY <1>1
  <1>3. new \in [1 .. size -> Int]
    BY <1>2
  <1>4. new \in Seq(Int) /\ Len(new) = size
    BY <1>3
  <1>5. \A j \in 1 .. d + n : new[j] = offset + j - 1
    BY <1>1
  <1>6. d + n \in 0 .. size /\ (d + n = 0 \/ offset + (d + n) <= reach)
    BY <1>1
  <1>7. QED
    BY <1>1, <1>4, <1>5, <1>6 DEF Moved

(* What Moved says of the types.                                            *)
LEMMA MovedTypes ==
  ASSUME NEW write \in BOOLEAN, NEW offset \in Nat, NEW size \in Nat, NEW reach \in Nat, NEW d,
         NEW img, NEW buffer, Moved(write, offset, size, img, buffer, d, reach)
  PROVE  /\ d \in Nat /\ d <= size
         /\ DOMAIN img = 0 .. reach - 1 /\ \A i \in 0 .. reach - 1 : img[i] \in Int
         /\ buffer \in Seq(Int) /\ Len(buffer) = size
  BY DEF Moved

LEMMA MediaMeasures ==
  ASSUME MediaInv
  PROVE  \E bs, reach : Measures(bs, reach)
  <1> PICK bs, last : bs = media.blockSize /\ last = media.lastBlock
    OBVIOUS
  <1>1. bs \in Nat \ {0} /\ last + 1 \in Nat
    BY DEF MediaInv
  <1>2. (last + 1) * bs \in Nat
    BY <1>1
  <1>3. Disk!Reach(media) \in Nat
    BY <1>2 DEF Disk!Reach
  <1>4. QED
    BY <1>1, <1>3 DEF Measures

IsPart(t, s, d, n) ==
  s \in Seq(Int) /\ d \in Nat /\ n \in Nat /\ d + n <= Len(s) /\ t = SubSeq(s, d + 1, d + n)

LEMMA PartOfSequence ==
  ASSUME NEW t, NEW s, NEW d, NEW n, IsPart(t, s, d, n)
  PROVE  t \in Seq(Int) /\ Len(t) = n /\ \A i \in 1 .. n : t[i] = s[d + i]
  <1> s \in Seq(Int) /\ d \in Nat /\ n \in Nat /\ d + n <= Len(s) /\ t = SubSeq(s, d + 1, d + n)
    BY DEF IsPart
  <1> PICK from, to : from = d + 1 /\ to = d + n
    OBVIOUS
  <1>0. from \in Int /\ to \in Int /\ n \in Int
    OBVIOUS
  <1>1. from \in Int /\ to \in Int /\ \A i \in from .. to : s[i] \in Int
    <2>1. \A i \in from .. to : i \in 1 .. Len(s)
      OBVIOUS
    <2>2. QED
      BY <2>1
  <1>2. t = SubSeq(s, from, to)
    OBVIOUS
  <1>3. /\ t \in Seq(Int) /\ Len(t) = (IF from <= to THEN to - from + 1 ELSE 0)
        /\ \A i \in 1 .. to - from + 1 : t[i] = s[from + i - 1]
    BY ONLY <1>1, <1>2, SubSeqProperties
  <1>4. Len(t) = n
    <2>1. (IF from <= to THEN to - from + 1 ELSE 0) = n
      OBVIOUS
    <2>2. QED
      BY <1>3, <2>1
  <1>5. \A i \in 1 .. n : i \in 1 .. to - from + 1 /\ from + i - 1 = d + i
    OBVIOUS
  <1>6. \A i \in 1 .. n : t[i] = s[d + i]
    BY <1>3, <1>5
  <1>7. QED
    BY <1>3, <1>4, <1>6

(* The next n bytes of the buffer of a call.                                *)
LEMMA GivenBytes ==
  ASSUME NEW c \in DiskCalls, c.buffer \in Seq(Int), Len(c.buffer) = c.size,
         NEW n \in Nat, c.done + n <= c.size, NEW taken, taken = Disk!Given(c, n)
  PROVE  /\ taken \in Seq(Int) /\ Len(taken) = n
         /\ \A i \in 1 .. n : taken[i] = c.buffer[c.done + i]
  <1> PICK buffer, done : buffer = c.buffer /\ done = c.done
    OBVIOUS
  <1>1. buffer \in Seq(Int) /\ done \in Nat /\ done + n <= Len(buffer)
    BY DEF DiskCalls
  <1>2. taken = SubSeq(buffer, done + 1, done + n)
    BY DEF Disk!Given
  <1>3. /\ taken \in Seq(Int) /\ Len(taken) = n
        /\ \A i \in 1 .. n : taken[i] = buffer[done + i]
    <2>1. IsPart(taken, buffer, done, n)
      BY <1>1, <1>2 DEF IsPart
    <2>2. QED
      BY <2>1, PartOfSequence
  <1>4. QED
    BY <1>3

(* A part of one block.                                                     *)
NextPart(c, lba, at, length, bs, reach, part) ==
  /\ Measures(bs, reach) /\ c \in DiskCalls /\ lba \in Nat /\ at \in Nat /\ length \in Nat
  /\ at + length <= bs /\ c.done + length <= c.size /\ bs * lba + at = c.offset + c.done
  /\ part = Disk!Partial(c, lba, at, length)

LEMMA PartialMoves ==
  ASSUME MediaInv, NEW bs, NEW reach, NEW c, NEW lba, NEW at, NEW length, NEW part,
         NextPart(c, lba, at, length, bs, reach, part),
         Moved(c.write, c.offset, c.size, image, c.buffer, c.done, reach)
  PROVE  /\ part.status \in {"SUCCESS", "BAD_BUFFER_SIZE", "INVALID_PARAMETER"}
         /\ part.status = "SUCCESS" =>
              Moved(c.write, c.offset, c.size, part.image, part.buffer, c.done + length, reach)
         /\ part.status # "SUCCESS" => part.image = image /\ part.buffer = c.buffer
         /\ bs * lba < reach => part.status = "SUCCESS"
  <1> /\ Measures(bs, reach) /\ c \in DiskCalls /\ lba \in Nat /\ at \in Nat /\ length \in Nat
      /\ at + length <= bs /\ c.done + length <= c.size /\ bs * lba + at = c.offset + c.done
      /\ part = Disk!Partial(c, lba, at, length)
    BY DEF NextPart
  <1> PICK img, first, w, offset, size, done, buffer :
        /\ img = image /\ first = bs * lba
        /\ w = c.write /\ offset = c.offset /\ size = c.size /\ done = c.done /\ buffer = c.buffer
    OBVIOUS
  <1>0. w \in BOOLEAN /\ offset \in Nat /\ size \in Nat /\ done \in Nat
    BY DEF DiskCalls
  <1>1. /\ bs \in Nat \ {0} /\ reach \in Nat /\ first \in Nat /\ bs = bs * 1
        /\ offset \in Nat /\ size \in Nat /\ done \in Nat
    BY <1>0 DEF Measures
  <1>m. Moved(w, offset, size, img, buffer, done, reach)
    OBVIOUS
  <1>2. /\ DOMAIN img = 0 .. reach - 1 /\ \A i \in 0 .. reach - 1 : img[i] \in Int
        /\ buffer \in Seq(Int) /\ Len(buffer) = size
    BY <1>0, <1>1, <1>m, MovedTypes
  <1>3. PICK block : block = Disk!ReadBlocks(media, img, lba, bs)
    OBVIOUS
  <1>4. /\ block.status = Disk!BlocksStatus(media, lba, bs)
        /\ block.status = "SUCCESS" =>
             /\ block.data \in Seq(Int) /\ Len(block.data) = bs
             /\ \A i \in 1 .. bs : block.data[i] = img[first + i - 1]
    <2>1. bs \in Nat /\ first = bs * lba /\ \A i \in 0 .. reach - 1 : img[i] \in Int
      BY <1>1, <1>2
    <2>2. QED
      <3>1. Reads(bs, reach, img, lba, bs, first, block)
        BY <1>3, <2>1 DEF Reads
      <3>2. QED
        BY ONLY MediaInv, <3>1, ReadGives
  <1>5. /\ block.status \in {"SUCCESS", "BAD_BUFFER_SIZE", "INVALID_PARAMETER"}
        /\ block.status = "SUCCESS" => first + bs <= reach
        /\ first + bs <= reach => block.status = "SUCCESS"
    <2>1. /\ block.status \in {"SUCCESS", "BAD_BUFFER_SIZE", "INVALID_PARAMETER"}
          /\ block.status = "SUCCESS" => bs = 0 \/ first + bs <= reach
          /\ \A q \in Nat : bs = bs * q /\ (bs = 0 \/ first + bs <= reach) => block.status = "SUCCESS"
      BY <1>1, <1>4, StatusTells
    <2>2. 1 \in Nat /\ bs # 0
      BY <1>1
    <2>3. QED
      BY <1>1, <2>1, <2>2
  <1>6. first < reach => block.status = "SUCCESS"
    BY <1>5, BlockInside
  <1>7. CASE block.status # "SUCCESS"
    <2>1. part = [status |-> block.status, image |-> img, buffer |-> buffer]
      BY <1>3, <1>7 DEF Disk!Partial, Measures
    <2>2. part.status = block.status /\ part.image = img /\ part.buffer = buffer
      BY <2>1
    <2>3. QED
      BY <1>5, <1>6, <1>7, <2>2
  <1>8. CASE block.status = "SUCCESS" /\ c.write
    <2>1. PICK taken : taken = Disk!Given(c, length)
      OBVIOUS
    <2>2. Moved(TRUE, offset, size, img, buffer, done, reach)
      <3>1. w = TRUE
        BY <1>0, <1>8
      <3>2. QED
        BY <1>m, <3>1
    <2>3. \A j \in 1 .. size : buffer[j] = 100 + j
      BY <2>2 DEF Moved
    <2>4. /\ taken \in Seq(Int) /\ Len(taken) = length
          /\ \A i \in 1 .. length : taken[i] = buffer[done + i]
      BY <1>2, <2>1, GivenBytes
    <2>5. \A i \in 1 .. length : taken[i] = 100 + (done + i)
      <3>1. \A i \in 1 .. length : done + i \in 1 .. size
        BY <1>1
      <3>2. QED
        BY <2>3, <2>4, <3>1
    <2>6. PICK patched : patched = Disk!Patched(block.data, at, taken)
      OBVIOUS
    <2>7. patched = [i \in 1 .. bs |-> IF i - at \in 1 .. length THEN taken[i - at] ELSE block.data[i]]
      BY <1>4, <1>8, <2>4, <2>6 DEF Disk!Patched
    <2>8. patched \in [1 .. bs -> Int]
      <3>1. \A i \in 1 .. bs : block.data[i] \in Int
        BY <1>4, <1>8
      <3>2. \A i \in 1 .. length : taken[i] \in Int
        BY <2>4
      <3>3. QED
        BY <2>7, <3>1, <3>2
    <2>9. patched \in Seq(Int) /\ Len(patched) = bs
      BY <1>1, <2>8
    <2>10. PICK wrote : wrote = Disk!WriteBlocks(media, img, lba, patched)
      OBVIOUS
    <2>w. Writes(bs, reach, img, lba, patched, first, wrote)
      BY <1>2, <2>9, <2>10 DEF Writes
    <2>11. wrote.status = "SUCCESS"
      <3>1. wrote.status = Disk!BlocksStatus(media, lba, Len(patched))
        BY <2>w, WriteGives
      <3>2. QED
        BY <1>4, <1>8, <2>9, <3>1
    <2>12. wrote.image = [ i \in 0 .. reach - 1 |->
                             IF i \in first .. first + bs - 1 THEN patched[i - first + 1] ELSE img[i] ]
      <3>1. wrote.image = [ i \in 0 .. reach - 1 |->
                               IF i \in first .. first + Len(patched) - 1
                                 THEN patched[i - first + 1] ELSE img[i] ]
        BY <2>w, <2>11, WritePuts
      <3>2. QED
        BY <2>9, <3>1
    <2>13. ASSUME NEW i \in 0 .. reach - 1
           PROVE  wrote.image[i] = IF i \in offset + done .. offset + done + length - 1
                                     THEN 100 + (i - offset + 1) ELSE img[i]
      <3>1. at + length <= bs /\ first + at = offset + done
        OBVIOUS
      <3>2. CASE i \in offset + done .. offset + done + length - 1
        <4>1. i - first + 1 \in 1 .. bs /\ (i - first + 1) - at \in 1 .. length
          BY <1>1, <3>1, <3>2
        <4>2. patched[i - first + 1] = taken[(i - first + 1) - at]
          BY <2>7, <4>1
        <4>3. taken[(i - first + 1) - at] = 100 + (done + ((i - first + 1) - at))
          BY <2>5, <4>1
        <4>4. i \in first .. first + bs - 1
          BY <1>1, <4>1
        <4>5. wrote.image[i] = 100 + (done + ((i - first + 1) - at))
          BY <2>12, <4>2, <4>3, <4>4
        <4>6. 100 + (done + ((i - first + 1) - at)) = 100 + (i - offset + 1)
          BY <1>1, <3>1
        <4>7. QED
          BY <3>2, <4>5, <4>6
      <3>3. CASE i \in first .. first + bs - 1 /\ i \notin offset + done .. offset + done + length - 1
        <4>1. i - first + 1 \in 1 .. bs /\ (i - first + 1) - at \notin 1 .. length
          BY <1>1, <3>1, <3>3
        <4>2. patched[i - first + 1] = block.data[i - first + 1]
          BY <2>7, <4>1
        <4>3. block.data[i - first + 1] = img[first + (i - first + 1) - 1]
          BY <1>4, <1>8, <4>1
        <4>4. first + (i - first + 1) - 1 = i
          BY <1>1
        <4>5. QED
          BY <2>12, <3>3, <4>2, <4>3, <4>4
      <3>4. CASE i \notin first .. first + bs - 1
        <4>1. i \notin offset + done .. offset + done + length - 1
          BY <1>1, <3>1, <3>4
        <4>2. QED
          BY <2>12, <3>4, <4>1
      <3>5. QED
        BY <3>2, <3>3, <3>4
    <2>14. wrote.image = [ i \in 0 .. reach - 1 |->
                             IF i \in offset + done .. offset + done + length - 1
                               THEN 100 + (i - offset + 1) ELSE img[i] ]
      BY <2>12, <2>13
    <2>15. offset + done + length <= reach
      <3>1. first + bs <= reach /\ at + length <= bs /\ first + at = offset + done
        BY <1>5, <1>8
      <3>2. QED
        BY <1>1, <3>1
    <2>16. Moved(TRUE, offset, size, wrote.image, buffer, done + length, reach)
      BY ONLY <1>1, <2>2, <2>14, <2>15, done + length <= size, length \in Nat, MovedToImage
    <2>17. part = [status |-> wrote.status, image |-> wrote.image, buffer |-> buffer]
      BY <1>3, <1>8, <2>1, <2>6, <2>10 DEF Disk!Partial, Measures
    <2>18. part.status = "SUCCESS" /\ part.image = wrote.image /\ part.buffer = buffer
      BY <2>11, <2>17
    <2>19. Moved(w, offset, size, wrote.image, buffer, done + length, reach)
      <3>1. w = TRUE
        BY <1>0, <1>8
      <3>2. QED
        BY <2>16, <3>1
    <2>20. QED
      BY <2>18, <2>19
  <1>9. CASE block.status = "SUCCESS" /\ ~c.write
    <2>1. PICK some : some = SubSeq(block.data, at + 1, at + length)
      OBVIOUS
    <2>2. Len(some) = length /\ \A i \in 1 .. length : some[i] = block.data[at + i]
      <3>1. PICK data : data = block.data
        OBVIOUS
      <3>2. data \in Seq(Int) /\ at + length <= Len(data) /\ some = SubSeq(data, at + 1, at + length)
        BY <1>4, <1>9, <2>1, <3>1
      <3>3. some \in Seq(Int) /\ Len(some) = length /\ \A i \in 1 .. length : some[i] = data[at + i]
        <4>1. IsPart(some, data, at, length)
          BY <3>2 DEF IsPart
        <4>2. QED
          BY <4>1, PartOfSequence
      <3>4. QED
        BY <3>1, <3>3
    <2>3. Moved(FALSE, offset, size, img, buffer, done, reach)
      <3>1. w = FALSE
        BY <1>0, <1>9
      <3>2. QED
        BY <1>m, <3>1
    <2>4. \A i \in 0 .. reach - 1 : img[i] = i
      BY <2>3 DEF Moved
    <2>5. PICK filled : filled = Disk!Filled(c, some)
      OBVIOUS
    <2>6. filled = [i \in 1 .. size |-> IF i - done \in 1 .. length THEN some[i - done] ELSE buffer[i]]
      BY <2>2, <2>5 DEF Disk!Filled
    <2>7. ASSUME NEW i \in 1 .. size, i - done \in 1 .. length
          PROVE  some[i - done] = offset + i - 1
      <3>1. at + length <= bs /\ first + at = offset + done /\ first + bs <= reach
        BY <1>5, <1>9
      <3>2. at + (i - done) \in 1 .. bs /\ first + (at + (i - done)) - 1 \in 0 .. reach - 1
        BY <1>1, <2>7, <3>1
      <3>3. some[i - done] = block.data[at + (i - done)]
        BY <2>2, <2>7
      <3>4. block.data[at + (i - done)] = img[first + (at + (i - done)) - 1]
        BY <1>4, <1>9, <3>2
      <3>5. img[first + (at + (i - done)) - 1] = first + (at + (i - done)) - 1
        BY <2>4, <3>2
      <3>6. first + (at + (i - done)) - 1 = offset + i - 1
        BY <1>1, <3>1
      <3>7. QED
        BY <3>3, <3>4, <3>5, <3>6
    <2>8. filled = [i \in 1 .. size |-> IF i - done \in 1 .. length THEN offset + i - 1 ELSE buffer[i]]
      BY <2>6, <2>7
    <2>9. offset + done + length <= reach
      <3>1. first + bs <= reach /\ at + length <= bs /\ first + at = offset + done
        BY <1>5, <1>9
      <3>2. QED
        BY <1>1, <3>1
    <2>10. Moved(FALSE, offset, size, img, filled, done + length, reach)
      BY ONLY <1>1, <2>3, <2>8, <2>9, done + length <= size, length \in Nat, MovedToBuffer
    <2>11. part = [status |-> "SUCCESS", image |-> img, buffer |-> filled]
      BY <1>3, <1>9, <2>1, <2>5 DEF Disk!Partial, Measures
    <2>12. part.status = "SUCCESS" /\ part.image = img /\ part.buffer = filled
      BY <2>11
    <2>13. Moved(w, offset, size, img, filled, done + length, reach)
      <3>1. w = FALSE
        BY <1>0, <1>9
      <3>2. QED
        BY <2>10, <3>1
    <2>14. QED
      BY <2>12, <2>13
  <1>10. QED
    BY <1>7, <1>8, <1>9

(* Whole blocks.                                                            *)
NextBlocks(c, lba, n, bs, reach) ==
  /\ Measures(bs, reach) /\ c \in DiskCalls /\ lba \in Nat /\ n \in Nat
  /\ c.done + n <= c.size /\ bs * lba = c.offset + c.done

Wrote(c, lba, n, wrote) == wrote = Disk!WriteBlocks(media, image, lba, Disk!Given(c, n))

LEMMA WritingMoves ==
  ASSUME MediaInv, NEW bs, NEW reach, NEW c, NEW lba, NEW n, NextBlocks(c, lba, n, bs, reach),
         c.write, Moved(c.write, c.offset, c.size, image, c.buffer, c.done, reach),
         NEW wrote, Wrote(c, lba, n, wrote)
  PROVE  /\ wrote.status = Disk!BlocksStatus(media, lba, n)
         /\ wrote.status # "SUCCESS" => wrote.image = image
         /\ wrote.status = "SUCCESS" =>
              Moved(c.write, c.offset, c.size, wrote.image, c.buffer, c.done + n, reach)
  <1> /\ Measures(bs, reach) /\ c \in DiskCalls /\ lba \in Nat /\ n \in Nat
      /\ c.done + n <= c.size /\ bs * lba = c.offset + c.done
    BY DEF NextBlocks
  <1> wrote = Disk!WriteBlocks(media, image, lba, Disk!Given(c, n))
    BY DEF Wrote
  <1> PICK img, first, w, offset, size, done, buffer, taken :
        /\ img = image /\ first = bs * lba
        /\ w = c.write /\ offset = c.offset /\ size = c.size /\ done = c.done /\ buffer = c.buffer
        /\ taken = Disk!Given(c, n)
    OBVIOUS
  <1>1. /\ bs \in Nat \ {0} /\ reach \in Nat /\ n \in Nat
        /\ offset \in Nat /\ size \in Nat /\ done \in Nat /\ w \in BOOLEAN
        /\ first = offset + done /\ first \in Nat /\ done + n <= size
    <2>1. offset \in Nat /\ size \in Nat /\ done \in Nat /\ w \in BOOLEAN
      BY DEF DiskCalls
    <2>2. QED
      BY <2>1 DEF Measures
  <1>2. Moved(TRUE, offset, size, img, buffer, done, reach)
    <2>1. w = TRUE
      BY <1>1
    <2>2. QED
      BY <2>1
  <1>3. /\ DOMAIN img = 0 .. reach - 1
        /\ buffer \in Seq(Int) /\ Len(buffer) = size
    BY <1>2 DEF Moved
  <1>4. \A j \in 1 .. size : buffer[j] = 100 + j
    BY <1>2 DEF Moved
  <1>5. /\ taken \in Seq(Int) /\ Len(taken) = n
        /\ \A i \in 1 .. n : taken[i] = buffer[done + i]
    BY <1>3, GivenBytes
  <1>w. Writes(bs, reach, img, lba, taken, first, wrote)
    BY <1>3, <1>5 DEF Writes
  <1>6. /\ wrote.status = Disk!BlocksStatus(media, lba, n)
        /\ wrote.status # "SUCCESS" => wrote.image = img
    <2>1. /\ wrote.status = Disk!BlocksStatus(media, lba, Len(taken))
          /\ wrote.status # "SUCCESS" => wrote.image = img
      BY <1>w, WriteGives
    <2>2. QED
      BY <1>5, <2>1
  <1>7. ASSUME wrote.status = "SUCCESS"
        PROVE  Moved(TRUE, offset, size, wrote.image, buffer, done + n, reach)
    <2>2. first = offset + done /\ first \in Nat
      BY <1>1
    <2>3. wrote.image = [ i \in 0 .. reach - 1 |->
                            IF i \in first .. first + n - 1 THEN taken[i - first + 1] ELSE img[i] ]
      <3>1. wrote.image = [ i \in 0 .. reach - 1 |->
                              IF i \in first .. first + Len(taken) - 1
                                THEN taken[i - first + 1] ELSE img[i] ]
        BY <1>w, <1>7, WritePuts
      <3>2. QED
        BY <1>5, <3>1
    <2>4. ASSUME NEW i \in 0 .. reach - 1, i \in first .. first + n - 1
          PROVE  taken[i - first + 1] = 100 + (i - offset + 1)
      <3>1. i - first + 1 \in 1 .. n /\ done + (i - first + 1) \in 1 .. size
            /\ done + (i - first + 1) = i - offset + 1
        BY <1>1, <2>2, <2>4
      <3>2. QED
        BY <1>4, <1>5, <3>1
    <2>5. wrote.image = [ i \in 0 .. reach - 1 |->
                            IF i \in offset + done .. offset + done + n - 1
                              THEN 100 + (i - offset + 1) ELSE img[i] ]
      BY <2>2, <2>3, <2>4
    <2>6. n = 0 \/ offset + done + n <= reach
      <3>1. n = 0 \/ first + n <= reach
        BY <1>6, <1>7, <2>2, StatusTells
      <3>2. QED
        BY <2>2, <3>1
    <2>7. QED
      BY ONLY <1>1, <1>2, <2>5, <2>6, MovedToImage
  <1>8. wrote.status = "SUCCESS" => Moved(w, offset, size, wrote.image, buffer, done + n, reach)
    <2>1. w = TRUE
      BY <1>1
    <2>2. QED
      BY <1>7, <2>1
  <1>9. QED
    BY <1>6, <1>8

LEMMA ReadingMoves ==
  ASSUME MediaInv, NEW bs, NEW reach, NEW c, NEW lba, NEW n, NextBlocks(c, lba, n, bs, reach),
         ~c.write, Moved(c.write, c.offset, c.size, image, c.buffer, c.done, reach),
         NEW read, read = Disk!ReadBlocks(media, image, lba, n)
  PROVE  /\ read.status = Disk!BlocksStatus(media, lba, n)
         /\ read.status = "SUCCESS" =>
              Moved(c.write, c.offset, c.size, image, Disk!Filled(c, read.data), c.done + n, reach)
  <1> /\ Measures(bs, reach) /\ c \in DiskCalls /\ lba \in Nat /\ n \in Nat
      /\ c.done + n <= c.size /\ bs * lba = c.offset + c.done
    BY DEF NextBlocks
  <1> PICK img, first, w, offset, size, done, buffer, filled :
        /\ img = image /\ first = bs * lba
        /\ w = c.write /\ offset = c.offset /\ size = c.size /\ done = c.done /\ buffer = c.buffer
        /\ filled = Disk!Filled(c, read.data)
    OBVIOUS
  <1>1. /\ bs \in Nat \ {0} /\ reach \in Nat /\ n \in Nat
        /\ offset \in Nat /\ size \in Nat /\ done \in Nat /\ w \in BOOLEAN
        /\ first = offset + done /\ first \in Nat /\ done + n <= size
    <2>1. offset \in Nat /\ size \in Nat /\ done \in Nat /\ w \in BOOLEAN
      BY DEF DiskCalls
    <2>2. QED
      BY <2>1 DEF Measures
  <1>2. Moved(FALSE, offset, size, img, buffer, done, reach)
    <2>1. w = FALSE
      BY <1>1
    <2>2. QED
      BY <2>1
  <1>3. \A i \in 0 .. reach - 1 : img[i] = i /\ img[i] \in Int
    BY <1>2 DEF Moved
  <1>5. first = offset + done /\ first \in Nat
    BY <1>1
  <1>6. /\ read.status = Disk!BlocksStatus(media, lba, n)
        /\ read.status = "SUCCESS" =>
             /\ read.data \in Seq(Int) /\ Len(read.data) = n
             /\ \A i \in 1 .. n : read.data[i] = img[first + i - 1]
    <2>1. \A i \in 0 .. reach - 1 : img[i] \in Int
      BY <1>3
    <2>2. QED
      <3>1. Reads(bs, reach, img, lba, n, first, read)
        BY <2>1 DEF Reads
      <3>2. QED
        BY ONLY MediaInv, <3>1, ReadGives
  <1>7. ASSUME read.status = "SUCCESS"
        PROVE  Moved(FALSE, offset, size, img, filled, done + n, reach)
    <2>1. n = 0 \/ first + n <= reach
      BY <1>5, <1>6, <1>7, StatusTells
    <2>2. filled = [i \in 1 .. size |-> IF i - done \in 1 .. n THEN read.data[i - done] ELSE buffer[i]]
      BY <1>6, <1>7 DEF Disk!Filled
    <2>3. ASSUME NEW i \in 1 .. size, i - done \in 1 .. n
          PROVE  read.data[i - done] = offset + i - 1
      <3>1. read.data[i - done] = img[first + (i - done) - 1]
        BY <1>6, <1>7, <2>3
      <3>2. first + (i - done) - 1 \in 0 .. reach - 1 /\ first + (i - done) - 1 = offset + i - 1
        BY <1>1, <1>5, <2>1, <2>3
      <3>3. QED
        BY <1>3, <3>1, <3>2
    <2>4. filled = [i \in 1 .. size |-> IF i - done \in 1 .. n THEN offset + i - 1 ELSE buffer[i]]
      BY <2>2, <2>3
    <2>5. (n = 0 \/ offset + done + n <= reach) /\ done + n <= size
      BY <1>5, <2>1
    <2>6. QED
      BY ONLY <1>1, <1>2, <2>4, <2>5, MovedToBuffer
  <1>8. read.status = "SUCCESS" => Moved(w, offset, size, img, filled, done + n, reach)
    <2>1. w = FALSE
      BY <1>1
    <2>2. QED
      BY <1>7, <2>1
  <1>9. QED
    BY <1>6, <1>8

-----------------------------------------------------------------------------
(* The steps of a transfer.                                                 *)
LEMMA DiskInvNext ==
  ASSUME DiskInv, media' = media, before' = before, NEW bs, NEW reach, Measures(bs, reach),
         NEW c \in DiskCalls, NEW img, diskCall' = c, image' = img, Stands(c, bs),
         Ended(c, img, reach),
         c.is # "done" => Moved(c.write, c.offset, c.size, img, c.buffer, c.done, reach)
  PROVE  DiskInv'
  <1>1. MediaInv'
    BY DEF DiskInv, MediaInv, Disk!Reach
  <1>2. before' = [i \in 0 .. Disk!Reach(media)' - 1 |-> i]
    BY DEF DiskInv, Disk!Reach
  <1>3. bs = media'.blockSize /\ reach = Disk!Reach(media)'
    BY DEF Measures, Disk!Reach
  <1>4. Stands(diskCall', media'.blockSize)
    BY <1>3
  <1>5. Ended(diskCall, image, Disk!Reach(media))'
    BY <1>3 DEF Ended, Inside
  <1>6. diskCall'.is # "done" =>
          Moved(diskCall'.write, diskCall'.offset, diskCall'.size, image', diskCall'.buffer,
                diskCall'.done, Disk!Reach(media)')
    BY <1>3
  <1>7. QED
    BY <1>1, <1>2, <1>4, <1>5, <1>6 DEF DiskInv

(* A transfer ends.                                                         *)
LEMMA Ending ==
  ASSUME NEW c \in DiskCalls, NEW bs, NEW reach, NEW img, NEW status \in DiskStatuses, NEW e,
         Moved(c.write, c.offset, c.size, img, c.buffer, c.done, reach),
         e = Disk!Done(c, status), status = "SUCCESS" => c.done = c.size,
         Inside(c) => status \notin {"INVALID_PARAMETER", "BAD_BUFFER_SIZE"}
  PROVE  e \in DiskCalls /\ Stands(e, bs) /\ Ended(e, img, reach) /\ e.is = "done"
  <1>1. e = [c EXCEPT !.is = "done", !.status = status]
    BY DEF Disk!Done
  <1>2. /\ e \in DiskCalls /\ e.is = "done" /\ e.status = status
        /\ e.write = c.write /\ e.offset = c.offset /\ e.size = c.size /\ e.buffer = c.buffer
    BY <1>1 DEF DiskCalls
  <1>3. Stands(e, bs)
    BY <1>2 DEF Stands
  <1>4. Moved(e.write, e.offset, e.size, img, e.buffer, c.done, reach)
    BY <1>2
  <1>5. c.done \in 0 .. e.size
    <2>1. c.done \in 0 .. c.size
      BY DEF Moved
    <2>2. QED
      BY <1>2, <2>1
  <1>6. Inside(e) <=> Inside(c)
    BY <1>2 DEF Inside
  <1>7. e.status = "SUCCESS" => c.done = e.size
    BY <1>2
  <1>8. Ended(e, img, reach)
    BY <1>2, <1>4, <1>5, <1>6, <1>7 DEF Ended
  <1>9. QED
    BY <1>2, <1>3, <1>8

Parted(b, n, q, r, x) ==
  b \in Nat \ {0} /\ n \in Nat /\ x \in Nat /\ q = n \div b /\ r = n % b

LEMMA WholeAndRest ==
  ASSUME NEW b, NEW n, NEW q, NEW r, NEW x, Parted(b, n, q, r, x)
  PROVE  /\ q \in Nat /\ r \in Nat /\ r < b
         /\ b * (x + q) = b * x + (n - r)
         /\ n >= b => n - r >= b /\ n - r = b * q
         /\ n < b => r = n
  <1> b \in Nat \ {0} /\ n \in Nat /\ x \in Nat /\ q = n \div b /\ r = n % b
    BY DEF Parted
  <1>1. n = b * q + r /\ r \in 0 .. b - 1 /\ q \in Int
    <2>1. n \in Int
      OBVIOUS
    <2>2. n = b * (n \div b) + (n % b) /\ n % b \in 0 .. b - 1 /\ n \div b \in Int
      BY <2>1, DivisionBy, Zenon
    <2>3. QED
      BY <2>2
  <1>2. q <= -1 => b * q <= -b
    BY <1>1
  <1>3. q >= 1 => b * q >= b
    BY <1>1
  <1>4. q = 0 => b * q = 0
    OBVIOUS
  <1>5. PICK p : p = b * q
    OBVIOUS
  <1>6. p \in Int /\ n = p + r
    BY <1>1, <1>5
  <1>7. q >= 0 /\ (n >= b => p >= b) /\ (n < b => p = 0)
    BY <1>1, <1>2, <1>3, <1>4, <1>5, <1>6
  <1>8. b * (x + q) = b * x + p
    <2>1. b * (x + q) = b * x + b * q
      BY ONLY <1>1, b \in Nat \ {0}, x \in Nat
    <2>2. QED
      BY <1>5, <2>1
  <1>9. QED
    BY <1>1, <1>5, <1>6, <1>7, <1>8

(* What is behind the whole blocks is settled.                              *)
AtBlock(c, bs) ==
  /\ c \in DiskCalls /\ ~c.complete /\ c.chunk = bs * DATA_BUFFER_BLOCK_NUM
  /\ c.done + c.left = c.size /\ bs * c.lba = c.offset + c.done

LEMMA OverRunSettled ==
  ASSUME DiskConstants, MediaInv, NEW bs, NEW reach, Measures(bs, reach), NEW c, AtBlock(c, bs),
         NEW e, e = Disk!WithOverRun(c)
  PROVE  /\ e \in DiskCalls /\ Stands(e, bs) /\ e.is = "blocks"
         /\ e.write = c.write /\ e.offset = c.offset /\ e.size = c.size
         /\ e.buffer = c.buffer /\ e.done = c.done
  <1> /\ c \in DiskCalls /\ ~c.complete /\ c.chunk = bs * DATA_BUFFER_BLOCK_NUM
      /\ c.done + c.left = c.size /\ bs * c.lba = c.offset + c.done
    BY DEF AtBlock
  <1> PICK left, lba, over, whole, aligned :
        /\ left = c.left /\ lba = c.lba /\ over = left % bs /\ whole = left \div bs
        /\ aligned = ((c.address + c.done) % media.align = 0)
    OBVIOUS
  <1>1. bs \in Nat \ {0} /\ left \in Nat /\ lba \in Nat
    BY DEF Measures, DiskCalls
  <1>2. /\ whole \in Nat /\ over \in Nat /\ over < bs
        /\ bs * (lba + whole) = bs * lba + (left - over)
        /\ left >= bs => left - over >= bs /\ left - over = bs * whole
        /\ left < bs => over = left
    <2>1. Parted(bs, left, whole, over, lba)
      BY <1>1 DEF Parted
    <2>2. QED
      BY <2>1, WholeAndRest
  <1>8. aligned \in BOOLEAN
    OBVIOUS
  <1>9. e = [ c EXCEPT !.is = "blocks", !.overRun = over, !.overRunLba = lba + whole,
                       !.aligned = aligned,
                       !.left = IF left >= bs THEN left - over ELSE left ]
    BY DEF Disk!WithOverRun, Measures
  <1>10. /\ e.is = "blocks" /\ e.overRun = over /\ e.overRunLba = lba + whole
         /\ e.left = IF left >= bs THEN left - over ELSE left
         /\ e.write = c.write /\ e.offset = c.offset /\ e.size = c.size /\ e.complete = c.complete
         /\ e.buffer = c.buffer /\ e.done = c.done /\ e.lba = lba /\ e.chunk = c.chunk
    BY <1>9 DEF DiskCalls
  <1>11. e \in DiskCalls
    <2>1. over \in Nat /\ lba + whole \in Nat /\ (IF left >= bs THEN left - over ELSE left) \in Nat
      BY <1>1, <1>2
    <2>2. PICK l, n : l = (IF left >= bs THEN left - over ELSE left) /\ n = lba + whole
      OBVIOUS
    <2>3. /\ c \in DiskCalls /\ over \in Nat /\ n \in Nat /\ l \in Nat
          /\ e = [ c EXCEPT !.is = "blocks", !.overRun = over, !.overRunLba = n,
                            !.aligned = aligned, !.left = l ]
      BY <1>9, <2>1, <2>2
    <2>4. QED
      BY ONLY <1>8, <2>3 DEF DiskCalls
  <1>12. Stands(e, bs)
    <2>1. PICK offset, size, done : offset = c.offset /\ size = c.size /\ done = c.done
      OBVIOUS
    <2>2. offset \in Nat /\ size \in Nat /\ done \in Nat /\ done + left = size /\ bs * lba = offset + done
      BY <2>1 DEF DiskCalls
    <2>3. over < bs /\ bs * (lba + whole) = offset + size - over
      BY <1>1, <1>2, <2>2
    <2>4. CASE left >= bs
      <3>1. e.left >= bs /\ e.left = bs * whole /\ done + e.left + over = size
        BY <1>1, <1>2, <1>10, <2>2, <2>4
      <3>2. QED
        BY <1>2, <1>10, <2>1, <2>2, <2>3, <3>1 DEF Stands
    <2>5. CASE left < bs
      <3>1. ~(left >= bs) /\ over = left
        <4>1. ~(left >= bs)
          BY ONLY <1>1, <2>5
        <4>2. QED
          BY <1>2, <2>5, <4>1
      <3>2. e.left = left
        BY <1>10, <3>1
      <3>3. e.left < bs /\ done + over = size
        BY <2>2, <2>5, <3>1, <3>2
      <3>4. QED
        BY <1>10, <2>1, <2>2, <2>3, <3>3 DEF Stands
    <2>6. QED
      BY <1>1, <2>4, <2>5
  <1>13. QED
    BY <1>10, <1>11, <1>12

LEMMA AtCall ==
  ASSUME DiskInv, NEW bs, NEW reach, Measures(bs, reach), NEW c, c = diskCall, c.is # "idle"
  PROVE  /\ c \in DiskCalls /\ Stands(c, bs) /\ Ended(c, image, reach)
         /\ c.is # "done" => Moved(c.write, c.offset, c.size, image, c.buffer, c.done, reach)
  BY DEF DiskInv, Measures, Disk!Idle

LEMMA StartKeeps ==
  ASSUME DiskConstants, DiskInv, Disk!Start
  PROVE  DiskInv'
  <1>1. MediaInv
    BY DEF DiskInv
  <1> PICK bs, reach : Measures(bs, reach)
    BY <1>1, MediaMeasures
  <1>2. bs \in Nat \ {0} /\ reach \in Nat
    BY DEF Measures
  <1>3. diskCall.is = "idle"
    BY DEF Disk!Start, Disk!Idle
  <1>4. image = before /\ image = [i \in 0 .. reach - 1 |-> i]
    BY <1>3 DEF DiskInv, DiskCalls, Measures
  <1> PICK img : img = image
    OBVIOUS
  <1>5. PICK write \in BOOLEAN, offset \in 0 .. MaxOffset, size \in 0 .. MaxLength,
             address \in 0 .. media.align - 1 :
          diskCall' = [ is |-> "head", write |-> write, offset |-> offset, size |-> size,
                        address |-> address,
                        buffer |-> IF write THEN [i \in 1 .. size |-> Disk!New(i)]
                                   ELSE [i \in 1 .. size |-> Disk!Unset],
                        done |-> 0, left |-> size, lba |-> offset \div media.blockSize,
                        complete |-> FALSE, overRun |-> 0, overRunLba |-> 0, aligned |-> TRUE,
                        chunk |-> media.blockSize * DATA_BUFFER_BLOCK_NUM, status |-> "SUCCESS" ]
    BY DEF Disk!Start
  <1>6. offset \in Nat /\ size \in Nat /\ address \in Nat /\ write \in BOOLEAN
    BY DEF DiskConstants
  <1>7. PICK lba, under : lba = offset \div bs /\ under = offset % bs
    OBVIOUS
  <1>8. lba \in Nat /\ offset = bs * lba + under
    <2>1. Parted(bs, offset, lba, under, 0)
      BY <1>2, <1>6, <1>7 DEF Parted
    <2>2. lba \in Nat
      BY <2>1, WholeAndRest
    <2>3. offset = bs * (offset \div bs) + (offset % bs)
      BY <1>2, <1>6, DivisionBy
    <2>4. QED
      BY <1>7, <2>2, <2>3
  <1>9. PICK buffer : buffer = IF write THEN [i \in 1 .. size |-> 100 + i] ELSE [i \in 1 .. size |-> -1]
    OBVIOUS
  <1>10. buffer \in Seq(Int) /\ Len(buffer) = size /\ (write => \A j \in 1 .. size : buffer[j] = 100 + j)
    <2>1. CASE write
      <3>1. buffer = [i \in 1 .. size |-> 100 + i]
        BY <1>9, <2>1
      <3>2. QED
        BY <1>6, <3>1
    <2>2. CASE ~write
      <3>1. buffer = [i \in 1 .. size |-> -1]
        BY <1>9, <2>2
      <3>2. QED
        BY <1>6, <2>2, <3>1
    <2>3. QED
      BY <2>1, <2>2
  <1>11. PICK chunk : chunk = bs * DATA_BUFFER_BLOCK_NUM
    OBVIOUS
  <1>12. chunk \in Nat
    BY <1>2, <1>11 DEF DiskConstants
  <1>13. PICK c : c = [ is |-> "head", write |-> write, offset |-> offset, size |-> size,
                        address |-> address, buffer |-> buffer, done |-> 0, left |-> size, lba |-> lba,
                        complete |-> FALSE, overRun |-> 0, overRunLba |-> 0, aligned |-> TRUE,
                        chunk |-> chunk, status |-> "SUCCESS" ]
    OBVIOUS
  <1>14. diskCall' = c
    BY <1>5, <1>7, <1>9, <1>11, <1>13 DEF Disk!New, Disk!Unset, Measures
  <1>15. /\ c.is = "head" /\ c.write = write /\ c.offset = offset /\ c.size = size
         /\ c.buffer = buffer /\ c.done = 0 /\ c.left = size /\ c.lba = lba /\ c.complete = FALSE
         /\ c.chunk = chunk
    BY <1>13
  <1>16. c \in DiskCalls
    <2>1. "SUCCESS" \in DiskStatuses /\ 0 \in Nat
      BY DEF DiskStatuses
    <2>2. QED
      BY <1>6, <1>8, <1>10, <1>12, <1>13, <2>1 DEF DiskCalls
  <1>17. Stands(c, bs)
    BY <1>7, <1>8, <1>11, <1>15 DEF Stands
  <1>18. Moved(write, offset, size, img, buffer, 0, reach)
    <2>1. offset .. offset + 0 - 1 = {} /\ 1 .. 0 = {} /\ 0 \in 0 .. size
      BY <1>6
    <2>2. img = [ i \in 0 .. reach - 1 |->
                    IF write /\ i \in offset .. offset + 0 - 1 THEN 100 + (i - offset + 1) ELSE i ]
      BY <1>4, <2>1
    <2>3. QED
      BY <1>10, <2>1, <2>2 DEF Moved
  <1>19. Ended(c, img, reach)
    BY <1>15 DEF Ended
  <1>20. media' = media /\ before' = before /\ image' = img
    BY <1>4 DEF Disk!Start
  <1>21. c.is # "done" => Moved(c.write, c.offset, c.size, img, c.buffer, c.done, reach)
    BY <1>15, <1>18
  <1>22. QED
    BY <1>14, <1>16, <1>17, <1>19, <1>20, <1>21, DiskInvNext

LEMMA RefuseKeeps ==
  ASSUME DiskInv, Disk!Refuse
  PROVE  DiskInv'
  <1>1. MediaInv
    BY DEF DiskInv
  <1> PICK bs, reach : Measures(bs, reach)
    BY <1>1, MediaMeasures
  <1> PICK c, img : c = diskCall /\ img = image
    OBVIOUS
  <1>2. c.is = "head"
    BY DEF Disk!Refuse
  <1>3. c \in DiskCalls /\ Moved(c.write, c.offset, c.size, img, c.buffer, c.done, reach)
    BY <1>2, AtCall
  <1>4. PICK status \in {"MEDIA_CHANGED", "OUT_OF_RESOURCES"} : diskCall' = Disk!Done(c, status)
    BY DEF Disk!Refuse
  <1>5. PICK e : e = Disk!Done(c, status)
    OBVIOUS
  <1>6. e \in DiskCalls /\ Stands(e, bs) /\ Ended(e, img, reach) /\ e.is = "done"
    <2>1. status \in DiskStatuses /\ status # "SUCCESS"
          /\ status \notin {"INVALID_PARAMETER", "BAD_BUFFER_SIZE"}
      BY <1>4 DEF DiskStatuses
    <2>2. QED
      BY <1>3, <1>5, <2>1, Ending
  <1>7. media' = media /\ before' = before /\ image' = img /\ diskCall' = e
    BY <1>4, <1>5 DEF Disk!Refuse
  <1>8. QED
    BY <1>6, <1>7, DiskInvNext

(* The rest of the block the transfer begins in.                            *)
LEMMA FirstPartKeeps ==
  ASSUME DiskConstants, DiskInv, Disk!FirstPart
  PROVE  DiskInv'
  <1>1. MediaInv
    BY DEF DiskInv
  <1> PICK bs, reach : Measures(bs, reach)
    BY <1>1, MediaMeasures
  <1> PICK c, img : c = diskCall /\ img = image
    OBVIOUS
  <1>2. c.is = "head"
    BY DEF Disk!FirstPart
  <1>3. /\ c \in DiskCalls /\ Stands(c, bs)
        /\ Moved(c.write, c.offset, c.size, img, c.buffer, c.done, reach)
    BY <1>2, AtCall
  <1> PICK offset, size, lba, under, rest, length :
        /\ offset = c.offset /\ size = c.size /\ lba = c.lba /\ under = offset % bs
        /\ rest = bs - under /\ length = IF rest > size THEN size ELSE rest
    OBVIOUS
  <1>4. /\ bs \in Nat \ {0} /\ reach \in Nat /\ offset \in Nat /\ size \in Nat /\ lba \in Nat
        /\ c.done = 0 /\ c.left = size /\ offset = bs * lba + under /\ ~c.complete
        /\ c.chunk = bs * DATA_BUFFER_BLOCK_NUM
    BY <1>2, <1>3 DEF Measures, DiskCalls, Stands
  <1>5. under \in Nat /\ under < bs /\ bs \in Nat /\ size \in Nat /\ offset \in Nat
    BY <1>4
  <1> PICK first : first = bs * lba
    OBVIOUS
  <1>6. first \in Nat /\ offset = first + under
    BY <1>4
  <1>7. length \in Nat /\ under + length <= bs /\ length <= size /\ (length = rest \/ length = size)
        /\ (rest > size => length = size /\ length # rest) /\ (~(rest > size) => length = rest)
        /\ rest \in Nat /\ size - length \in Nat
    BY ONLY <1>5, rest = bs - under, length = IF rest > size THEN size ELSE rest
  <1> PICK complete : complete = (rest > size)
    OBVIOUS
  <1>c. complete \in BOOLEAN
    OBVIOUS
  <1>8. media' = media /\ before' = before
    BY DEF Disk!FirstPart
  <1>9. CASE under = 0
    <2>1. PICK e : e = Disk!WithOverRun(c)
      OBVIOUS
    <2>2. AtBlock(c, bs)
      <3>1. 0 + size = size /\ bs * lba = offset + 0
        BY ONLY <1>5, <1>6, <1>9, first = bs * lba
      <3>2. QED
        BY <1>3, <1>4, <3>1 DEF AtBlock
    <2>3. /\ e \in DiskCalls /\ Stands(e, bs) /\ e.is = "blocks"
          /\ e.write = c.write /\ e.offset = c.offset /\ e.size = c.size
          /\ e.buffer = c.buffer /\ e.done = c.done
      BY <1>1, <2>1, <2>2, OverRunSettled
    <2>4. Moved(e.write, e.offset, e.size, img, e.buffer, e.done, reach)
      BY <1>3, <2>3
    <2>5. Ended(e, img, reach)
      BY <2>3 DEF Ended
    <2>6. diskCall' = e /\ image' = img
      BY <1>9, <2>1 DEF Disk!FirstPart, Measures
    <2>7. QED
      BY <1>8, <2>3, <2>4, <2>5, <2>6, DiskInvNext
  <1>10. CASE under # 0
    <2>1. PICK part : part = Disk!Partial(c, lba, under, length)
      OBVIOUS
    <2>2. NextPart(c, lba, under, length, bs, reach, part)
      <3>1. 0 + length <= size /\ bs * lba + under = offset + 0
        BY ONLY <1>5, <1>6, <1>7, first = bs * lba
      <3>2. QED
        BY <1>3, <1>4, <1>5, <1>7, <2>1, <3>1 DEF NextPart
    <2>3. /\ part.status \in {"SUCCESS", "BAD_BUFFER_SIZE", "INVALID_PARAMETER"}
          /\ part.status = "SUCCESS" =>
               Moved(c.write, c.offset, c.size, part.image, part.buffer, c.done + length, reach)
          /\ part.status # "SUCCESS" => part.image = img /\ part.buffer = c.buffer
          /\ bs * lba < reach => part.status = "SUCCESS"
      BY <1>1, <1>3, <2>2, PartialMoves
    <2>4. PICK after : after = [ c EXCEPT !.buffer = part.buffer, !.done = length,
                                          !.left = size - length, !.lba = lba + 1,
                                          !.complete = complete ]
      OBVIOUS
    <2>d. after = [ c EXCEPT !.buffer = part.buffer, !.done = length, !.left = c.left - length,
                             !.lba = c.lba + 1, !.complete = rest > c.size ]
      BY <1>4, <2>4
    <2>5. /\ image' = part.image
          /\ diskCall' = CASE part.status # "SUCCESS" -> Disk!Done(c, part.status)
                           [] part.status = "SUCCESS" /\ after.left = 0 -> Disk!Done(after, "SUCCESS")
                           [] OTHER -> Disk!WithOverRun(after)
      BY <1>10, <2>1, <2>d DEF Disk!FirstPart, Measures
    <2>6. CASE part.status # "SUCCESS"
      <3>1. PICK e, status : e = Disk!Done(c, status) /\ status = part.status
        OBVIOUS
      <3>2. Inside(c) => FALSE
        <4>1. SUFFICES ASSUME Inside(c) PROVE FALSE
          OBVIOUS
        <4>2. PICK whole : whole = media.size
          OBVIOUS
        <4>3. whole \in Nat /\ whole <= reach /\ offset + size <= whole
          BY <1>1, <4>1, <4>2 DEF Inside, MediaInv, Measures
        <4>4. first < reach
          BY ONLY <1>4, <1>5, <1>6, <1>10, <4>3
        <4>5. QED
          BY <2>3, <2>6, <4>4
      <3>3. status \in DiskStatuses /\ status # "SUCCESS"
        BY <2>3, <2>6, <3>1 DEF DiskStatuses
      <3>4. e \in DiskCalls /\ Stands(e, bs) /\ Ended(e, img, reach) /\ e.is = "done"
        BY <1>3, <3>1, <3>2, <3>3, Ending
      <3>5. diskCall' = e /\ image' = img
        BY <2>3, <2>5, <2>6, <3>1
      <3>6. QED
        BY <1>8, <3>4, <3>5, DiskInvNext
    <2>7. CASE part.status = "SUCCESS"
      <3>1. /\ after.write = c.write /\ after.offset = c.offset /\ after.size = c.size
            /\ after.buffer = part.buffer /\ after.done = length /\ after.left = size - length
            /\ after.lba = lba + 1 /\ after.complete = complete /\ after.chunk = c.chunk
        BY <1>3, <2>4 DEF DiskCalls
      <3>2. PICK new : new = part.image
        OBVIOUS
      <3>3. Moved(after.write, after.offset, after.size, new, after.buffer, after.done, reach)
        <4>1. 0 + length = length
          BY ONLY <1>7
        <4>2. QED
          BY <1>4, <2>3, <2>7, <3>1, <3>2, <4>1
      <3>4. after \in DiskCalls
        <4>1. part.buffer \in Seq(Int)
          BY <2>3, <2>7 DEF Moved
        <4>2. lba + 1 \in Nat
          <5>1. lba \in Nat
            BY <1>4
          <5>2. QED
            BY ONLY <5>1
        <4>3. PICK l, m, b : l = size - length /\ m = lba + 1 /\ b = part.buffer
          OBVIOUS
        <4>4. /\ l \in Nat /\ m \in Nat /\ b \in Seq(Int) /\ length \in Nat /\ c \in DiskCalls
              /\ after = [ c EXCEPT !.buffer = b, !.done = length, !.left = l, !.lba = m,
                                    !.complete = complete ]
          BY <1>3, <1>7, <2>4, <4>1, <4>2, <4>3
        <4>5. QED
          BY ONLY <1>c, <4>4 DEF DiskCalls
      <3>5. CASE after.left = 0
        <4>1. PICK e : e = Disk!Done(after, "SUCCESS")
          OBVIOUS
        <4>2. after.done = after.size
          <5>1. size - length = 0 => length = size
            BY ONLY <1>5, <1>7
          <5>2. QED
            BY <3>1, <3>5, <5>1
        <4>3. "SUCCESS" \in DiskStatuses
          BY DEF DiskStatuses
        <4>4. e \in DiskCalls /\ Stands(e, bs) /\ Ended(e, new, reach) /\ e.is = "done"
          BY <3>3, <3>4, <4>1, <4>2, <4>3, Ending
        <4>5. diskCall' = e /\ image' = new
          BY <2>5, <2>7, <3>2, <3>5, <4>1
        <4>6. QED
          BY <1>8, <4>4, <4>5, DiskInvNext
      <3>6. CASE after.left # 0
        <4>1. PICK e : e = Disk!WithOverRun(after)
          OBVIOUS
        <4>2. length = rest /\ length # size
          <5>1. length = size => size - length = 0
            BY ONLY <1>5, <1>7
          <5>2. length # size
            BY <3>1, <3>6, <5>1
          <5>3. QED
            BY <1>7, <5>2
        <4>3. ~after.complete /\ after.chunk = bs * DATA_BUFFER_BLOCK_NUM
          <5>1. ~(rest > size)
            BY <1>7, <4>2
          <5>2. QED
            BY <1>4, <3>1, <5>1
        <4>4. after.done + after.left = after.size
          <5>1. length + (size - length) = size
            BY ONLY <1>5, <1>7
          <5>2. QED
            BY <3>1, <5>1
        <4>5. bs * after.lba = after.offset + after.done
          <5>1. bs * (lba + 1) = bs * lba + bs
            BY <1>4
          <5>2. first + bs = offset + length
            BY ONLY <1>4, <1>5, <1>6, <1>7, <4>2, rest = bs - under
          <5>3. QED
            BY <3>1, <5>1, <5>2
        <4>6. /\ e \in DiskCalls /\ Stands(e, bs) /\ e.is = "blocks"
              /\ e.write = after.write /\ e.offset = after.offset /\ e.size = after.size
              /\ e.buffer = after.buffer /\ e.done = after.done
          <5>1. AtBlock(after, bs)
            BY <3>4, <4>3, <4>4, <4>5 DEF AtBlock
          <5>2. QED
            BY <1>1, <4>1, <5>1, OverRunSettled
        <4>7. Moved(e.write, e.offset, e.size, new, e.buffer, e.done, reach)
          BY <3>3, <4>6
        <4>8. Ended(e, new, reach)
          BY <4>6 DEF Ended
        <4>9. diskCall' = e /\ image' = new
          BY <2>5, <2>7, <3>2, <3>6, <4>1
        <4>10. QED
          BY <1>8, <4>6, <4>7, <4>8, <4>9, DiskInvNext
      <3>7. QED
        BY <3>5, <3>6
    <2>8. QED
      BY <2>6, <2>7
  <1>11. QED
    BY <1>9, <1>10

(* The whole blocks, all at once or in chunks.                              *)
LEMMA WholeBlocksKeeps ==
  ASSUME DiskConstants, DiskInv, Disk!WholeBlocks
  PROVE  DiskInv'
  <1>1. MediaInv
    BY DEF DiskInv
  <1> PICK bs, reach : Measures(bs, reach)
    BY <1>1, MediaMeasures
  <1> PICK c, img : c = diskCall /\ img = image
    OBVIOUS
  <1>2. c.is = "blocks"
    BY DEF Disk!WholeBlocks
  <1>3. /\ c \in DiskCalls /\ Stands(c, bs)
        /\ Moved(c.write, c.offset, c.size, img, c.buffer, c.done, reach)
    BY <1>2, AtCall
  <1> PICK offset, size, done, left, lba, over, chunk :
        /\ offset = c.offset /\ size = c.size /\ done = c.done /\ left = c.left /\ lba = c.lba
        /\ over = c.overRun /\ chunk = c.chunk
    OBVIOUS
  <1>4. /\ bs \in Nat \ {0} /\ reach \in Nat /\ offset \in Nat /\ size \in Nat /\ done \in Nat
        /\ left \in Nat /\ lba \in Nat /\ over \in Nat /\ chunk \in Nat /\ bs \in Nat
    BY <1>3 DEF Measures, DiskCalls
  <1>5. /\ ~c.complete /\ chunk = bs * DATA_BUFFER_BLOCK_NUM
        /\ over < bs /\ bs * c.overRunLba = offset + size - over
        /\ \/ /\ left >= bs /\ bs * lba = offset + done /\ done + left + over = size
              /\ \E q \in Nat : left = bs * q
           \/ left < bs /\ done + over = size
    BY <1>2, <1>3 DEF Stands
  <1>6. media' = media /\ before' = before
    BY DEF Disk!WholeBlocks
  <1>7. CASE left < bs
    <2>1. PICK e : e = [c EXCEPT !.is = "tail"]
      OBVIOUS
    <2>2. done + over = size
      <3>1. ~(left >= bs)
        BY ONLY <1>4, <1>7
      <3>2. QED
        BY <1>5, <3>1
    <2>3. /\ e \in DiskCalls /\ e.is = "tail"
          /\ e.write = c.write /\ e.offset = c.offset /\ e.size = c.size /\ e.buffer = c.buffer
          /\ e.done = c.done /\ e.overRun = over /\ e.overRunLba = c.overRunLba
          /\ e.complete = c.complete /\ e.chunk = c.chunk
      BY <1>3, <2>1 DEF DiskCalls
    <2>4. offset + size - over = offset + done
      BY ONLY <1>4, <2>2
    <2>5. Stands(e, bs)
      BY <1>5, <2>2, <2>3, <2>4 DEF Stands
    <2>6. Ended(e, img, reach)
      BY <2>3 DEF Ended
    <2>7. Moved(e.write, e.offset, e.size, img, e.buffer, e.done, reach)
      BY <1>3, <2>3
    <2>8. diskCall' = e /\ image' = img
      BY <1>7, <2>1 DEF Disk!WholeBlocks, Measures
    <2>9. QED
      BY <1>6, <2>3, <2>5, <2>6, <2>7, <2>8, DiskInvNext
  <1>8. CASE left >= bs
    <2>1. bs * lba = offset + done /\ done + left + over = size
      <3>1. ~(left < bs)
        BY ONLY <1>4, <1>8
      <3>2. QED
        BY <1>5, <3>1
    <2>2. PICK q \in Nat : left = bs * q
      <3>1. ~(left < bs)
        BY ONLY <1>4, <1>8
      <3>2. QED
        BY <1>5, <3>1
    <2> PICK number : number = DATA_BUFFER_BLOCK_NUM
      OBVIOUS
    <2>3. number \in Nat \ {0} /\ chunk = bs * number /\ number \in Nat
      BY <1>5 DEF DiskConstants
    <2> PICK length : length = IF c.aligned \/ left <= chunk THEN left ELSE chunk
      OBVIOUS
    <2>4. length \in Nat /\ length <= left /\ (length = left \/ (length = chunk /\ chunk < left /\ ~c.aligned))
      <3>1. c.aligned \/ left <= chunk => length = left
        OBVIOUS
      <3>2. ~(c.aligned \/ left <= chunk) => length = chunk /\ ~c.aligned /\ ~(left <= chunk)
        OBVIOUS
      <3>3. ~(left <= chunk) => chunk < left
        BY ONLY <1>4
      <3>4. chunk < left => chunk <= left
        BY ONLY <1>4
      <3>5. left <= left
        BY ONLY <1>4
      <3>6. QED
        BY <1>4, <3>1, <3>2, <3>3, <3>4, <3>5, Zenon
    <2>5. PICK k \in Nat : length = bs * k
      BY <2>2, <2>3, <2>4
    <2>6. done + length <= size /\ done + length \in Nat /\ left - length \in Nat
      BY ONLY <1>4, <2>1, <2>4
    <2> PICK read, wrote :
          /\ read = Disk!ReadBlocks(media, img, lba, length)
          /\ wrote = Disk!WriteBlocks(media, img, lba, Disk!Given(c, length))
      OBVIOUS
    <2> PICK status : status = IF c.write THEN wrote.status ELSE read.status
      OBVIOUS
    <2> PICK new, buffer : /\ new = IF c.write THEN wrote.image ELSE img
                           /\ buffer = IF c.write THEN c.buffer ELSE Disk!Filled(c, read.data)
      OBVIOUS
    <2>7. NextBlocks(c, lba, length, bs, reach)
      BY <1>3, <1>4, <2>1, <2>4, <2>6 DEF NextBlocks
    <2>8. /\ status = Disk!BlocksStatus(media, lba, length)
          /\ status = "SUCCESS" =>
               Moved(c.write, c.offset, c.size, new, buffer, done + length, reach)
          /\ status # "SUCCESS" => new = img
      <3>1. CASE c.write
        <4>1. /\ wrote.status = Disk!BlocksStatus(media, lba, length)
              /\ wrote.status # "SUCCESS" => wrote.image = img
              /\ wrote.status = "SUCCESS" =>
                   Moved(c.write, c.offset, c.size, wrote.image, c.buffer, c.done + length, reach)
          <5>1. Wrote(c, lba, length, wrote)
            BY DEF Wrote
          <5>2. Moved(c.write, c.offset, c.size, image, c.buffer, c.done, reach)
            BY <1>3
          <5>3. /\ wrote.status = Disk!BlocksStatus(media, lba, length)
                /\ wrote.status # "SUCCESS" => wrote.image = image
                /\ wrote.status = "SUCCESS" =>
                     Moved(c.write, c.offset, c.size, wrote.image, c.buffer, c.done + length, reach)
            BY ONLY <1>1, <2>7, <3>1, <5>1, <5>2, WritingMoves, Zenon
          <5>4. QED
            BY <5>3
        <4>2. status = wrote.status /\ new = wrote.image /\ buffer = c.buffer
          BY <3>1
        <4>3. QED
          BY <4>1, <4>2
      <3>2. CASE ~c.write
        <4>1. /\ read.status = Disk!BlocksStatus(media, lba, length)
              /\ read.status = "SUCCESS" =>
                   Moved(c.write, c.offset, c.size, img, Disk!Filled(c, read.data),
                         c.done + length, reach)
          BY <1>1, <1>3, <2>7, <3>2, ReadingMoves
        <4>2. status = read.status /\ new = img /\ buffer = Disk!Filled(c, read.data)
          BY <3>2
        <4>3. QED
          BY <4>1, <4>2
      <3>3. QED
        BY <3>1, <3>2
    <2> PICK first : first = bs * lba
      OBVIOUS
    <2>9. /\ status \in {"SUCCESS", "BAD_BUFFER_SIZE", "INVALID_PARAMETER"}
          /\ (length = 0 \/ first + length <= reach) => status = "SUCCESS"
      <3>1. /\ status \in {"SUCCESS", "BAD_BUFFER_SIZE", "INVALID_PARAMETER"}
            /\ \A m \in Nat : length = bs * m /\ (length = 0 \/ first + length <= reach)
                                => status = "SUCCESS"
        <4>1. StatusOf(status, bs, reach, lba, length, first)
          BY <1>4, <2>4, <2>8 DEF StatusOf
        <4>2. QED
          BY <1>1, <4>1, StatusTold
      <3>2. QED
        BY <2>5, <3>1
    <2>10. PICK after : after = [ c EXCEPT !.buffer = buffer, !.done = done + length,
                                           !.left = left - length,
                                           !.lba = IF c.aligned THEN lba ELSE lba + number,
                                           !.is = IF length = left THEN "tail" ELSE "blocks" ]
      OBVIOUS
    <2>11. image' = new /\ diskCall' = IF status = "SUCCESS" THEN after ELSE Disk!Done(c, status)
      <3>1. ~(c.complete \/ left < bs)
        BY ONLY <1>4, <1>5, <1>8
      <3>2. QED
        BY <2>10, <3>1 DEF Disk!WholeBlocks, Measures
    <2>12. CASE status # "SUCCESS"
      <3>1. PICK e : e = Disk!Done(c, status)
        OBVIOUS
      <3>2. Inside(c) => FALSE
        <4>1. SUFFICES ASSUME Inside(c) PROVE FALSE
          OBVIOUS
        <4>2. PICK whole : whole = media.size
          OBVIOUS
        <4>3. whole \in Nat /\ whole <= reach /\ offset + size <= whole
          BY <1>1, <4>1, <4>2 DEF Inside, MediaInv, Measures
        <4>4. first + length <= reach
          BY ONLY <1>4, <2>1, <2>4, <2>6, <4>3, first = bs * lba
        <4>5. QED
          BY <2>9, <2>12, <4>4
      <3>3. status \in DiskStatuses
        BY <2>9 DEF DiskStatuses
      <3>4. e \in DiskCalls /\ Stands(e, bs) /\ Ended(e, img, reach) /\ e.is = "done"
        BY <1>3, <2>12, <3>1, <3>2, <3>3, Ending
      <3>5. diskCall' = e /\ image' = img
        BY <2>8, <2>11, <2>12, <3>1
      <3>6. QED
        BY <1>6, <3>4, <3>5, DiskInvNext
    <2>13. CASE status = "SUCCESS"
      <3>1. /\ after.is = IF length = left THEN "tail" ELSE "blocks"
            /\ after.write = c.write /\ after.offset = c.offset /\ after.size = c.size
            /\ after.buffer = buffer /\ after.done = done + length /\ after.left = left - length
            /\ after.lba = (IF c.aligned THEN lba ELSE lba + number)
            /\ after.overRun = over /\ after.overRunLba = c.overRunLba
            /\ after.complete = c.complete /\ after.chunk = chunk
        BY <1>3, <2>10 DEF DiskCalls
      <3>2. Moved(after.write, after.offset, after.size, new, after.buffer, after.done, reach)
        BY <2>8, <2>13, <3>1
      <3>3. after \in DiskCalls
        <4>1. buffer \in Seq(Int)
          BY <3>2, <3>1 DEF Moved
        <4>2. lba + number \in Nat
          BY ONLY <1>4, <2>3
        <4>3. (IF c.aligned THEN lba ELSE lba + number) \in Nat
          BY <1>4, <4>2
        <4>4. (IF length = left THEN "tail" ELSE "blocks") \in {"head", "blocks", "tail", "done"}
          OBVIOUS
        <4>5. PICK d, l, m, is : /\ d = done + length /\ l = left - length
                                 /\ m = IF c.aligned THEN lba ELSE lba + number
                                 /\ is = IF length = left THEN "tail" ELSE "blocks"
          OBVIOUS
        <4>6. /\ d \in Nat /\ l \in Nat /\ m \in Nat /\ is \in {"head", "blocks", "tail", "done"}
              /\ c \in DiskCalls /\ buffer \in Seq(Int)
              /\ after = [ c EXCEPT !.buffer = buffer, !.done = d, !.left = l, !.lba = m, !.is = is ]
          BY <1>3, <2>6, <2>10, <4>1, <4>3, <4>4, <4>5
        <4>7. QED
          BY ONLY <4>6 DEF DiskCalls
      <3>4. Stands(after, bs)
        <4>1. CASE length = left
          <5>1. after.is = "tail"
            BY <3>1, <4>1
          <5>2. (done + length) + over = size /\ offset + size - over = offset + (done + length)
            BY ONLY <1>4, <2>1, <2>4, <4>1
          <5>3. QED
            BY <1>5, <3>1, <5>1, <5>2 DEF Stands
        <4>2. CASE length # left
          <5>1. length = chunk /\ chunk < left /\ ~c.aligned
            BY <2>4, <4>2
          <5>2. after.is = "blocks" /\ after.lba = lba + number
            BY <3>1, <4>2, <5>1
          <5>3. bs * (lba + number) = bs * lba + bs * number
            BY ONLY <1>4, <2>3
          <5>4. bs * (lba + number) = offset + (done + length)
            BY ONLY <1>4, <2>1, <2>3, <5>1, <5>3
          <5>5. bs * number < bs * q
            BY <2>2, <2>3, <5>1
          <5>6. number < q /\ bs * number + bs <= bs * q
            BY ONLY <1>4, <2>2, <2>3, <5>5, ProductsOrdered
          <5>7. left - length >= bs
            BY ONLY <1>4, <2>2, <2>3, <5>1, <5>6
          <5>8. q - number \in Nat /\ left - length = bs * (q - number)
            <6>1. q - number \in Nat
              BY ONLY <2>2, <2>3, <5>6
            <6>2. bs * (q - number) = bs * q - bs * number
              BY ONLY <1>4, <2>2, <2>3
            <6>3. QED
              BY <2>2, <2>3, <5>1, <6>1, <6>2
          <5>9. (done + length) + (left - length) + over = size
            BY ONLY <1>4, <2>1, <2>4
          <5>10. QED
            BY <1>5, <3>1, <5>2, <5>4, <5>7, <5>8, <5>9 DEF Stands
        <4>3. QED
          BY <4>1, <4>2
      <3>5. after.is # "done"
        BY <3>1
      <3>6. Ended(after, new, reach)
        BY <3>5 DEF Ended
      <3>7. diskCall' = after /\ image' = new
        BY <2>11, <2>13
      <3>8. QED
        BY <1>6, <3>2, <3>3, <3>4, <3>6, <3>7, DiskInvNext
    <2>14. QED
      BY <2>12, <2>13
  <1>9. QED
    <2>1. left < bs \/ left >= bs
      BY ONLY <1>4
    <2>2. QED
      BY <1>7, <1>8, <2>1

(* The beginning of the block the transfer ends in.                         *)
LEMMA LastPartKeeps ==
  ASSUME DiskConstants, DiskInv, Disk!LastPart
  PROVE  DiskInv'
  <1>1. MediaInv
    BY DEF DiskInv
  <1> PICK bs, reach : Measures(bs, reach)
    BY <1>1, MediaMeasures
  <1> PICK c, img : c = diskCall /\ img = image
    OBVIOUS
  <1>2. c.is = "tail"
    BY DEF Disk!LastPart
  <1>3. /\ c \in DiskCalls /\ Stands(c, bs)
        /\ Moved(c.write, c.offset, c.size, img, c.buffer, c.done, reach)
    BY <1>2, AtCall
  <1> PICK offset, size, done, over, lba :
        /\ offset = c.offset /\ size = c.size /\ done = c.done /\ over = c.overRun
        /\ lba = c.overRunLba
    OBVIOUS
  <1>4. /\ bs \in Nat /\ reach \in Nat /\ offset \in Nat /\ size \in Nat /\ done \in Nat
        /\ over \in Nat /\ lba \in Nat
    BY <1>3 DEF Measures, DiskCalls
  <1>5. /\ ~c.complete /\ over < bs /\ bs * lba = offset + done /\ done + over = size
    BY <1>2, <1>3 DEF Stands
  <1>6. media' = media /\ before' = before
    BY DEF Disk!LastPart
  <1>7. CASE over = 0
    <2>1. PICK e : e = Disk!Done(c, "SUCCESS")
      OBVIOUS
    <2>2. done = size
      BY ONLY <1>4, <1>5, <1>7
    <2>3. "SUCCESS" \in DiskStatuses
      BY DEF DiskStatuses
    <2>4. e \in DiskCalls /\ Stands(e, bs) /\ Ended(e, img, reach) /\ e.is = "done"
      BY <1>3, <2>1, <2>2, <2>3, Ending
    <2>5. diskCall' = e /\ image' = img
      BY <1>7, <2>1 DEF Disk!LastPart
    <2>6. QED
      BY <1>6, <2>4, <2>5, DiskInvNext
  <1>8. CASE over # 0
    <2>1. PICK part : part = Disk!Partial(c, lba, 0, over)
      OBVIOUS
    <2>2. NextPart(c, lba, 0, over, bs, reach, part)
      <3>1. 0 \in Nat /\ 0 + over <= bs /\ done + over <= size /\ bs * lba + 0 = offset + done
        BY ONLY <1>4, <1>5
      <3>2. QED
        BY <1>3, <1>4, <2>1, <3>1 DEF NextPart
    <2>3. /\ part.status \in {"SUCCESS", "BAD_BUFFER_SIZE", "INVALID_PARAMETER"}
          /\ part.status = "SUCCESS" =>
               Moved(c.write, c.offset, c.size, part.image, part.buffer, c.done + over, reach)
          /\ part.status # "SUCCESS" => part.image = img /\ part.buffer = c.buffer
          /\ bs * lba < reach => part.status = "SUCCESS"
      BY <1>1, <1>3, <2>2, PartialMoves
    <2> PICK status, new, buffer :
          status = part.status /\ new = part.image /\ buffer = part.buffer
      OBVIOUS
    <2>4. PICK d : d = IF status = "SUCCESS" THEN size ELSE done
      OBVIOUS
    <2>5. Moved(c.write, c.offset, c.size, new, buffer, d, reach)
      <3>1. CASE status = "SUCCESS"
        BY <1>5, <2>3, <2>4, <3>1
      <3>2. CASE status # "SUCCESS"
        BY <1>3, <2>3, <2>4, <3>2
      <3>3. QED
        BY <3>1, <3>2
    <2>6. PICK last : last = [c EXCEPT !.buffer = buffer, !.done = d]
      OBVIOUS
    <2>7. buffer \in Seq(Int) /\ d \in Nat
      BY <1>4, <2>4, <2>5 DEF Moved
    <2>8. /\ last \in DiskCalls /\ last.write = c.write /\ last.offset = c.offset
          /\ last.size = c.size /\ last.buffer = buffer /\ last.done = d
      BY <1>3, <2>6, <2>7 DEF DiskCalls
    <2>9. Moved(last.write, last.offset, last.size, new, last.buffer, last.done, reach)
      BY <2>5, <2>8
    <2>10. status = "SUCCESS" => last.done = last.size
      BY <2>4, <2>8
    <2>11. Inside(last) => status = "SUCCESS"
      <3>1. SUFFICES ASSUME Inside(last) PROVE status = "SUCCESS"
        OBVIOUS
      <3>2. PICK whole : whole = media.size
        OBVIOUS
      <3>3. whole \in Nat /\ whole <= reach /\ offset + size <= whole
        BY <1>1, <2>8, <3>1, <3>2 DEF Inside, MediaInv, Measures
      <3>4. bs * lba < reach
        BY ONLY <1>4, <1>5, <1>8, <3>3
      <3>5. QED
        BY <2>3, <3>4
    <2>12. status \in DiskStatuses
      BY <2>3 DEF DiskStatuses
    <2>13. PICK e : e = Disk!Done(last, status)
      OBVIOUS
    <2>14. e \in DiskCalls /\ Stands(e, bs) /\ Ended(e, new, reach) /\ e.is = "done"
      BY <2>8, <2>9, <2>10, <2>11, <2>12, <2>13, Ending
    <2>15. PICK f : f = Disk!Done([c EXCEPT !.buffer = buffer], status)
      OBVIOUS
    <2>16. diskCall' = f /\ image' = new
      <3>1. ~(c.complete \/ c.overRun = 0)
        BY <1>5, <1>8
      <3>2. QED
        BY <2>1, <2>15, <3>1 DEF Disk!LastPart
    <2>17. /\ f \in DiskCalls /\ f.is = "done" /\ e.write = f.write /\ e.offset = f.offset
           /\ e.size = f.size /\ e.buffer = f.buffer /\ e.status = f.status
      BY <1>3, <2>6, <2>7, <2>12, <2>13, <2>15 DEF DiskCalls, Disk!Done
    <2>18. Stands(f, bs)
      BY <2>17 DEF Stands
    <2>19. Ended(f, new, reach)
      BY <2>14, <2>17 DEF Ended, Inside
    <2>20. QED
      BY <1>6, <2>16, <2>17, <2>18, <2>19, DiskInvNext
  <1>9. QED
    BY <1>7, <1>8

LEMMA DiskReturnKeeps ==
  ASSUME DiskInv, Disk!Return
  PROVE  DiskInv'
  <1>1. MediaInv
    BY DEF DiskInv
  <1> PICK bs, reach : Measures(bs, reach)
    BY <1>1, MediaMeasures
  <1> PICK c, img : c = diskCall /\ img = image
    OBVIOUS
  <1>2. c.is = "done"
    BY DEF Disk!Return
  <1>3. c \in DiskCalls /\ Ended(c, img, reach)
    BY <1>2, AtCall
  <1>4. DOMAIN img = 0 .. reach - 1
    BY <1>2, <1>3 DEF Ended, Moved
  <1>5. image' = [i \in 0 .. reach - 1 |-> i] /\ before' = image' /\ media' = media /\ diskCall' = Disk!Idle
    BY <1>4 DEF Disk!Return, Disk!Old
  <1>6. MediaInv'
    BY <1>1, <1>5 DEF MediaInv, Disk!Reach
  <1>7. reach = Disk!Reach(media)'
    BY <1>5 DEF Measures, Disk!Reach
  <1>8. before' = [i \in 0 .. Disk!Reach(media)' - 1 |-> i]
    BY <1>5, <1>7
  <1>9. diskCall' = (Disk!Idle)'
    BY <1>5 DEF Disk!Idle
  <1>10. QED
    BY <1>5, <1>6, <1>8, <1>9 DEF DiskInv

LEMMA DiskStep ==
  ASSUME DiskConstants, DiskInv, [Disk!Next]_(Disk!vars)
  PROVE  DiskInv'
  <1>1. CASE UNCHANGED Disk!vars
    BY <1>1 DEF Disk!vars, DiskInv, MediaInv, Ended, Inside, Disk!Reach, Disk!Idle
  <1>2. CASE Disk!Next
    BY <1>2, StartKeeps, RefuseKeeps, FirstPartKeeps, WholeBlocksKeeps, LastPartKeeps, DiskReturnKeeps
       DEF Disk!Next
  <1>3. QED
    BY <1>1, <1>2

(* The media holds the image, the last block rounded up.                    *)
LEMMA DiskBegins ==
  ASSUME DiskConstants, Disk!Init
  PROVE  DiskInv
  <1>1. PICK s \in ImageSizes, b \in BlockSizes, a \in Aligns :
          media = [size |-> s, blockSize |-> b, align |-> a, lastBlock |-> (s + b - 1) \div b - 1]
    BY DEF Disk!Init, Disk!DiskStubInitialize
  <1>2. s \in Nat \ {0} /\ b \in Nat \ {0} /\ a \in Nat \ {0}
    BY DEF DiskConstants
  <1> PICK n, q, r : n = s + b - 1 /\ q = n \div b /\ r = n % b
    OBVIOUS
  <1>3. n \in Nat /\ n >= b
    BY ONLY <1>2, n = s + b - 1
  <1>4. Parted(b, n, q, r, 0)
    BY <1>2, <1>3 DEF Parted
  <1>5. q \in Nat /\ r \in Nat /\ r < b /\ n - r >= b /\ n - r = b * q
    BY <1>3, <1>4, WholeAndRest
  <1>6. q >= 1
    <2>1. q = 0 => b * q = 0
      BY ONLY <1>2
    <2>2. QED
      BY ONLY <1>2, <1>5, <2>1
  <1> PICK last : last = q - 1
    OBVIOUS
  <1>7. last \in Nat /\ last + 1 = q
    BY ONLY <1>5, <1>6, last = q - 1
  <1>8. media.size = s /\ media.blockSize = b /\ media.align = a /\ media.lastBlock = last
    BY <1>1
  <1>9. Disk!Reach(media) = b * q
    <2>1. Disk!Reach(media) = q * b
      BY <1>7, <1>8 DEF Disk!Reach
    <2>2. QED
      BY <1>2, <1>5, <2>1
  <1>10. s <= b * q
    BY ONLY <1>2, <1>3, <1>5, n = s + b - 1
  <1>11. MediaInv
    BY <1>2, <1>7, <1>8, <1>9, <1>10 DEF MediaInv
  <1>12. image = [i \in 0 .. Disk!Reach(media) - 1 |-> i] /\ before = image /\ diskCall = Disk!Idle
    BY DEF Disk!Init, Disk!DiskStubInitialize, Disk!Old
  <1>13. QED
    BY <1>11, <1>12 DEF DiskInv

LEMMA DiskAnswers ==
  ASSUME DiskInv
  PROVE  DiskExact
  <1>1. MediaInv
    BY DEF DiskInv
  <1> PICK bs, reach : Measures(bs, reach)
    BY <1>1, MediaMeasures
  <1> PICK c, img, old : c = diskCall /\ img = image /\ old = before
    OBVIOUS
  <1>2. CASE c.is = "idle"
    BY <1>2 DEF DiskExact, Disk!DiskExact, Disk!TransfersExact, Disk!InsideSucceeds
  <1>3. CASE c.is # "idle"
    <2>1. /\ c \in DiskCalls /\ Ended(c, img, reach)
          /\ c.is # "done" => Moved(c.write, c.offset, c.size, img, c.buffer, c.done, reach)
      BY <1>3, AtCall
    <2>2. old = [i \in 0 .. reach - 1 |-> i] /\ reach \in Nat
      BY DEF DiskInv, Measures
    <2>3. PICK d : /\ Moved(c.write, c.offset, c.size, img, c.buffer, d, reach)
                   /\ c.is = "done" /\ c.status = "SUCCESS" => d = c.size
      BY <2>1 DEF Ended
    <2> PICK w, offset, size, buffer :
          w = c.write /\ offset = c.offset /\ size = c.size /\ buffer = c.buffer
      OBVIOUS
    <2>4. w \in BOOLEAN /\ offset \in Nat /\ size \in Nat
      BY <2>1 DEF DiskCalls
    <2>5. /\ d \in 0 .. size /\ (d = 0 \/ offset + d <= reach)
          /\ img = [ i \in 0 .. reach - 1 |->
                       IF w /\ i \in offset .. offset + d - 1 THEN 100 + (i - offset + 1) ELSE i ]
          /\ ~w => \A j \in 1 .. d : buffer[j] = offset + j - 1
      BY <2>3 DEF Moved
    <2>6. ASSUME NEW i \in DOMAIN img
          PROVE  IF w /\ i \in offset .. offset + size - 1
                   THEN img[i] \in {old[i], 100 + (i - offset + 1)} ELSE img[i] = old[i]
      <3>1. i \in 0 .. reach - 1 /\ old[i] = i
        BY <2>2, <2>5
      <3>2. img[i] = IF w /\ i \in offset .. offset + d - 1 THEN 100 + (i - offset + 1) ELSE i
        BY <2>5, <3>1
      <3>3. i \in offset .. offset + d - 1 => i \in offset .. offset + size - 1
        BY <2>2, <2>4, <2>5, <3>1
      <3>4. QED
        BY <3>1, <3>2, <3>3
    <2>7. ASSUME c.is = "done", c.status = "SUCCESS"
          PROVE  /\ offset .. offset + size - 1 \subseteq DOMAIN img
                 /\ \A i \in offset .. offset + size - 1 :
                      IF w THEN img[i] = 100 + (i - offset + 1)
                      ELSE buffer[i - offset + 1] = img[i]
      <3>1. d = size
        BY <2>3, <2>7
      <3>2. ASSUME NEW i \in offset .. offset + size - 1
            PROVE  /\ i \in 0 .. reach - 1
                   /\ IF w THEN img[i] = 100 + (i - offset + 1)
                      ELSE buffer[i - offset + 1] = img[i]
        <4>1. i \in 0 .. reach - 1
          BY <2>2, <2>4, <2>5, <3>1
        <4>2. CASE w
          BY <2>5, <3>1, <4>1, <4>2
        <4>3. CASE ~w
          <5>1. i - offset + 1 \in 1 .. d /\ offset + (i - offset + 1) - 1 = i
            BY <2>4, <3>1
          <5>2. buffer[i - offset + 1] = offset + (i - offset + 1) - 1
            BY <2>5, <4>3, <5>1
          <5>3. img[i] = i
            BY <2>5, <4>1, <4>3
          <5>4. QED
            BY <4>1, <4>3, <5>1, <5>2, <5>3
        <4>4. QED
          BY <4>1, <4>2, <4>3
      <3>3. DOMAIN img = 0 .. reach - 1
        BY <2>5
      <3>4. QED
        BY <3>2, <3>3
    <2>8. Disk!TransfersExact
      BY <2>6, <2>7 DEF Disk!TransfersExact, Disk!New
    <2>9. Disk!InsideSucceeds
      BY <2>1 DEF Ended, Inside, Disk!InsideSucceeds
    <2>10. QED
      BY <2>8, <2>9 DEF DiskExact, Disk!DiskExact
  <1>4. QED
    BY <1>2, <1>3

(***************************************************************************)
(* For any sizes of images, blocks and alignments, and any offset, length  *)
(* and buffer of a transfer: a read that succeeds gives the bytes of the   *)
(* image, a write that succeeds puts the caller's there, no other byte is  *)
(* ever changed, in whatever part a transfer fails; and a transfer inside  *)
(* the image is not refused for its range (DiskStubLib.c:235, 445).        *)
(***************************************************************************)
THEOREM DiskCorrect ==
  ASSUME DiskConstants
  PROVE  Disk!Spec => []DiskExact
  <1>1. Disk!Init => DiskInv
    BY DiskBegins
  <1>2. DiskInv /\ [Disk!Next]_(Disk!vars) => DiskInv'
    BY DiskStep
  <1>3. DiskInv => DiskExact
    BY DiskAnswers
  <1>4. QED
    BY <1>1, <1>2, <1>3, PTL DEF Disk!Spec

-----------------------------------------------------------------------------
(* The AHCI driver.  Nothing is assumed of what devices say of themselves but *)
(* that it is made of numbers.                                                *)
MostBlocks(lba48) == AhciDriver!mMaxTransferBlockNumber(lba48)

AhciConstants ==
  /\ Byte \in Nat /\ Byte >= 2 /\ Half \in Nat \ {0}
  /\ AhciWord \in Nat \ {0} /\ DefaultBlock \in Nat \ {0}
  /\ AHCI_MAX_PRDT_NUMBER \in Nat \ {0} /\ AHCI_MAX_DATA_PER_PRDT \in Nat \ {0}
  /\ Ports \subseteq 0 .. AhciDriver!None - 1
  /\ \A id \in Identifications :
       id.words \in Nat /\ id.capacity48 \in Nat /\ id.capacity28 \in Nat
  /\ \A r \in AhciReads : r.lba \in Nat /\ r.size \in Nat
  /\ AhciPayloads \subseteq Nat
  /\ \A packet \in Packets : \E in, out \in Nat : \E protocol, bytes, aligned, timeout :
       packet = AhciDriver!Packet(protocol, in, out, bytes, aligned, timeout)

(* A transfer's bytes can be counted.                                       *)
DeviceFits(dev) ==
  /\ dev.lba48 \in BOOLEAN /\ dev.lastBlock \in Nat
  /\ dev.blockSize \in Nat \ {0} /\ dev.blockSize * MostBlocks(dev.lba48) <= AhciWord - 1

DevicesInv ==
  /\ \E S : devices \in Seq(S)
  /\ disks \in Seq(Ports)
  /\ active = Len(devices) /\ trusted \in Nat
  /\ \A i \in 1 .. Len(devices) :
       /\ devices[i].index \in 1 .. Len(disks) /\ devices[i].port \in Ports
       /\ devices[i].port = disks[devices[i].index]
       /\ devices[i].multiplier = AhciDriver!None
       /\ devices[i].trustIndex \in 0 .. trusted
       /\ devices[i].trustIndex > 0 => devices[i].trust
       /\ DeviceFits(devices[i])
  /\ \A i, j \in 1 .. Len(devices) :
       i < j => devices[i].port < devices[j].port /\ devices[i].index < devices[j].index
  /\ \A t \in 1 .. trusted : \E i \in 1 .. Len(devices) : devices[i].trustIndex = t

(* How far a read of blocks is: n of them have been asked for.              *)
Reading(r, d, n) ==
  LET dev   == devices[d]
      total == r.size \div dev.blockSize
  IN  /\ ahciCall = [is |-> "running", fn |-> "AccessAtaDevice", arguments |-> r, device |-> d,
                     lba |-> r.lba + n, offset |-> n * dev.blockSize, left |-> total - n]
      /\ n < total /\ total * dev.blockSize = r.size /\ r.lba + total - 1 <= dev.lastBlock
      /\ r.lba + total <= AhciDriver!Reach(dev.lba48) =>
           AhciDriver!Transferred(commands, dev, r.lba, r.lba + n)

Waiting(polls, answered) ==
  /\ ahciCall = [is |-> "running", fn |-> "wait", polls |-> polls, returns |-> answered]
  /\ answered.is = "returned" /\ answered.fn \notin {"ReadBlocks", "GetNextPort"}

CallInv ==
  \/ /\ ahciCall.is = "returned"
     /\ AhciDriver!ReadsWhatWasAsked /\ AhciDriver!PortsEnumerated
  \/ \E polls, answered : Waiting(polls, answered)
  \/ \E r \in AhciReads, d \in 1 .. Len(devices), n \in Nat : Reading(r, d, n)

AhciInv ==
  /\ DevicesInv
  /\ \E S : commands \in Seq(S)
  /\ AhciDriver!RegionsFit
  /\ CallInv

(* A digit and what is left of a number without it.                         *)
LEMMA ShiftedRight ==
  ASSUME NEW b \in Nat \ {0}, NEW n \in Nat
  PROVE  /\ n \div b \in Nat /\ n % b \in 0 .. b - 1 /\ n = b * (n \div b) + (n % b)
         /\ \A m \in Nat : n < b * m => n \div b < m
         /\ n < b => n \div b = 0 /\ n % b = n
  <1>1. PICK q, d : q = n \div b /\ d = n % b
    OBVIOUS
  <1>2. n = b * q + d /\ d \in 0 .. b - 1 /\ q \in Int
    BY <1>1, DivisionBy
  <1>3. b * q \in Int
    BY <1>2
  <1>4. q <= -1 => b * q <= -b
    BY <1>2
  <1>5. q >= 0
    BY <1>2, <1>3, <1>4
  <1>6. ASSUME NEW m \in Nat, n < b * m PROVE q < m
    <2>1. m <= q => b * m <= b * q
      BY <1>2, ProductsOrdered
    <2>2. b * m \in Int
      OBVIOUS
    <2>3. QED
      BY <1>2, <1>3, <1>6, <2>1, <2>2
  <1>7. n < b => q = 0 /\ d = n
    <2>1. q >= 1 => b * q >= b
      BY <1>2
    <2>2. q = 0 => b * q = 0
      OBVIOUS
    <2>3. QED
      BY <1>2, <1>3, <1>5, <2>1, <2>2
  <1>8. QED
    BY <1>1, <1>2, <1>5, <1>6, <1>7

(* A device reads the address that was asked for out of a task file.        *)
LEMMA AddressRead ==
  ASSUME AhciConstants, NEW lba48 \in BOOLEAN, NEW count, NEW lba \in Nat, lba < AhciDriver!Reach(lba48)
  PROVE  LET c == AhciDriver!BlockCommand(lba48, lba, count)
         IN  AhciDriver!AddressOf(c, lba48) = lba /\ c.head < Half
  <1> PICK c : c = AhciDriver!BlockCommand(lba48, lba, count)
    OBVIOUS
  <1>1. PICK b : b = Byte /\ b \in Nat \ {0} /\ b >= 2
    BY DEF AhciConstants
  <1>2. PICK q1, q2, q3, q4, q5 :
          q1 = lba \div b /\ q2 = q1 \div b /\ q3 = q2 \div b /\ q4 = q3 \div b /\ q5 = q4 \div b
    OBVIOUS
  <1>3. q1 \in Nat /\ lba = b * q1 + (lba % b) /\ lba % b \in Nat
    <2>1. /\ lba \div b \in Nat /\ lba % b \in 0 .. b - 1
          /\ lba = b * (lba \div b) + (lba % b)
      BY <1>1, ShiftedRight, Zenon
    <2>2. QED
      BY <1>1, <1>2, <2>1
  <1>4. q2 \in Nat /\ q1 = b * q2 + (q1 % b) /\ q1 % b \in Nat
    <2>1. /\ q1 \div b \in Nat /\ q1 % b \in 0 .. b - 1
          /\ q1 = b * (q1 \div b) + (q1 % b)
      BY <1>1, <1>3, ShiftedRight, Zenon
    <2>2. QED
      BY <1>1, <1>2, <2>1
  <1>5. q3 \in Nat /\ q2 = b * q3 + (q2 % b) /\ q2 % b \in Nat
    <2>1. /\ q2 \div b \in Nat /\ q2 % b \in 0 .. b - 1
          /\ q2 = b * (q2 \div b) + (q2 % b)
      BY <1>1, <1>4, ShiftedRight, Zenon
    <2>2. QED
      BY <1>1, <1>2, <2>1
  <1>6. q4 \in Nat /\ q3 = b * q4 + (q3 % b) /\ q3 % b \in Nat
    <2>1. /\ q3 \div b \in Nat /\ q3 % b \in 0 .. b - 1
          /\ q3 = b * (q3 \div b) + (q3 % b)
      BY <1>1, <1>5, ShiftedRight, Zenon
    <2>2. QED
      BY <1>1, <1>2, <2>1
  <1>7. q5 \in Nat /\ q4 = b * q5 + (q4 % b) /\ q4 % b \in Nat
    <2>1. /\ q4 \div b \in Nat /\ q4 % b \in 0 .. b - 1
          /\ q4 = b * (q4 \div b) + (q4 % b)
      BY <1>1, <1>6, ShiftedRight, Zenon
    <2>2. QED
      BY <1>1, <1>2, <2>1
  <1>8. CASE lba48
    <2>1. PICK m1, m2, m3, m4 : m4 = b * b /\ m3 = b * m4 /\ m2 = b * m3 /\ m1 = b * m2
      OBVIOUS
    <2>2. m1 \in Nat /\ m2 \in Nat /\ m3 \in Nat /\ m4 \in Nat
      BY <1>1, <2>1
    <2>3. lba < b * m1
      BY <1>1, <1>8, <2>1 DEF AhciDriver!Reach
    <2>4. q1 < b * m2
      BY <1>1, <1>2, <2>1, <2>2, <2>3, ShiftedRight
    <2>5. q2 < b * m3
      BY <1>1, <1>2, <1>3, <2>1, <2>2, <2>4, ShiftedRight
    <2>6. q3 < b * m4
      BY <1>1, <1>2, <1>4, <2>1, <2>2, <2>5, ShiftedRight
    <2>7. q4 < b * b
      BY <1>1, <1>2, <1>5, <2>1, <2>2, <2>6, ShiftedRight
    <2>8. q5 < b
      BY <1>1, <1>2, <1>6, <2>7, ShiftedRight
    <2>9. q5 % b = q5
      BY <1>1, <1>7, <2>8, ShiftedRight
    <2>10. /\ c.number = lba % b /\ c.low = q1 % b /\ c.high = q2 % b /\ c.head = 0
           /\ c.numberExp = q3 % b /\ c.lowExp = q4 % b /\ c.highExp = q5
      BY <1>1, <1>2, <1>8, <2>9 DEF AhciDriver!BlockCommand, AhciDriver!TaskFile, AhciDriver!RShift8
    <2>11. AhciDriver!AddressOf(c, lba48)
             = (lba % b) + b * ((q1 % b) + b * ((q2 % b) + b * ((q3 % b) + b * ((q4 % b) + b * q5))))
      BY <1>1, <1>8, <2>10 DEF AhciDriver!AddressOf
    <2>12. (q4 % b) + b * q5 = q4 /\ (q3 % b) + b * q4 = q3 /\ (q2 % b) + b * q3 = q2
           /\ (q1 % b) + b * q2 = q1 /\ (lba % b) + b * q1 = lba
      BY <1>1, <1>3, <1>4, <1>5, <1>6, <1>7
    <2>13. Half > 0
      BY DEF AhciConstants
    <2>14. QED
      BY <2>10, <2>11, <2>12, <2>13
  <1>9. CASE ~lba48
    <2>1. PICK m1, m2 : m2 = b * Half /\ m1 = b * m2
      OBVIOUS
    <2>2. m1 \in Nat /\ m2 \in Nat /\ Half \in Nat \ {0}
      BY <1>1, <2>1 DEF AhciConstants
    <2>3. lba < b * m1
      BY <1>1, <1>9, <2>1 DEF AhciDriver!Reach
    <2>4. q1 < b * m2
      BY <1>1, <1>2, <2>1, <2>2, <2>3, ShiftedRight
    <2>5. q2 < b * Half
      BY <1>1, <1>2, <1>3, <2>1, <2>2, <2>4, ShiftedRight
    <2>6. q3 < Half
      BY <1>1, <1>2, <1>4, <2>2, <2>5, ShiftedRight
    <2>7. q3 % Half = q3
      BY <1>5, <2>2, <2>6, ShiftedRight
    <2>8. q3 % (2 * Half) = q3
      <3>1. 2 * Half \in Nat \ {0} /\ q3 < 2 * Half
        BY <1>5, <2>2, <2>6
      <3>2. QED
        BY <1>5, <3>1, ShiftedRight
    <2>9. /\ c.number = lba % b /\ c.low = q1 % b /\ c.high = q2 % b /\ c.head = q3
      BY <1>1, <1>2, <1>9, <2>8 DEF AhciDriver!BlockCommand, AhciDriver!TaskFile, AhciDriver!RShift8
    <2>10. AhciDriver!AddressOf(c, lba48) = (lba % b) + b * ((q1 % b) + b * ((q2 % b) + b * q3))
      BY <1>1, <1>9, <2>7, <2>9 DEF AhciDriver!AddressOf
    <2>11. (q2 % b) + b * q3 = q2 /\ (q1 % b) + b * q2 = q1 /\ (lba % b) + b * q1 = lba
      BY <1>1, <1>3, <1>4, <1>5
    <2>12. QED
      BY <2>6, <2>9, <2>10, <2>11
  <1>10. QED
    BY <1>8, <1>9

(* It reads the number of blocks, 0 standing for the most that fit.         *)
LEMMA CountRead ==
  ASSUME AhciConstants, NEW lba48 \in BOOLEAN, NEW lba, NEW count \in Nat \ {0},
         count <= MostBlocks(lba48)
  PROVE  AhciDriver!CountOf(AhciDriver!BlockCommand(lba48, lba, count), lba48) = count
  <1> PICK c : c = AhciDriver!BlockCommand(lba48, lba, count)
    OBVIOUS
  <1>1. PICK b : b = Byte /\ b \in Nat \ {0} /\ b >= 2
    BY DEF AhciConstants
  <1>2. PICK q, d : q = count \div b /\ d = count % b
    OBVIOUS
  <1>3. q \in Nat /\ count = b * q + d /\ d \in 0 .. b - 1 /\ b * q \in Nat
    <2>1. /\ count \div b \in Nat /\ count % b \in 0 .. b - 1
          /\ count = b * (count \div b) + (count % b)
      <3>1. count \in Nat
        OBVIOUS
      <3>2. QED
        BY <1>1, <3>1, ShiftedRight, Zenon
    <2>2. QED
      BY <1>1, <1>2, <2>1
  <1>4. c.count = d /\ c.countExp = IF lba48 THEN q % b ELSE 0
    BY <1>1, <1>2 DEF AhciDriver!BlockCommand, AhciDriver!TaskFile, AhciDriver!RShift8
  <1>5. CASE lba48
    <2>1. count <= 2 * b
      BY <1>1, <1>5 DEF MostBlocks, AhciDriver!mMaxTransferBlockNumber,
           AhciDriver!MAX_48BIT_TRANSFER_BLOCK_NUM
    <2>2. q <= 2
      <3>1. q >= 3 => b * q >= 3 * b
        BY <1>1, <1>3
      <3>2. QED
        BY <1>1, <1>3, <2>1, <3>1
    <2>3. CASE q < b
      <3>1. q % b = q
        BY <1>1, <1>3, <2>3, ShiftedRight
      <3>2. c.count + Byte * c.countExp = count
        <4>1. c.count = d /\ c.countExp = q /\ Byte = b
          BY <1>1, <1>4, <1>5, <3>1
        <4>2. c.count + Byte * c.countExp = d + b * q
          BY <4>1
        <4>3. QED
          BY <1>3, <4>2
      <3>3. count # 0
        OBVIOUS
      <3>4. QED
        BY <1>5, <3>2, <3>3 DEF AhciDriver!CountOf
    <2>4. CASE q = b
      <3>1. q = 2 /\ b = 2 /\ b * q = 4 /\ b * b = 4
        BY <1>1, <2>2, <2>4
      <3>2. d = 0 /\ count = 4
        BY <1>1, <1>3, <2>1, <3>1
      <3>3. q % b = 0
        BY <3>1
      <3>4. c.count + Byte * c.countExp = 0
        BY <1>1, <1>4, <1>5, <3>1, <3>2, <3>3
      <3>5. AhciDriver!CountOf(c, lba48) = Byte * Byte
        BY <1>5, <3>4 DEF AhciDriver!CountOf
      <3>6. QED
        BY <1>1, <3>1, <3>2, <3>5
    <2>5. QED
      BY <1>1, <1>3, <2>2, <2>3, <2>4
  <1>6. CASE ~lba48
    <2>1. count <= b
      BY <1>1, <1>6 DEF MostBlocks, AhciDriver!mMaxTransferBlockNumber,
           AhciDriver!MAX_28BIT_TRANSFER_BLOCK_NUM
    <2>2. CASE count < b
      <3>1. d = count
        BY <1>1, <1>2, <2>2, ShiftedRight
      <3>2. QED
        BY <1>4, <1>6, <3>1 DEF AhciDriver!CountOf
    <2>3. CASE count = b
      <3>1. b = b * 1 /\ (b * 1) % b = 0
        BY <1>1, MultipleOf
      <3>2. d = 0
        BY <1>2, <2>3, <3>1
      <3>3. QED
        BY <1>1, <1>4, <1>6, <2>3, <3>2 DEF AhciDriver!CountOf
    <2>4. QED
      BY <1>1, <2>1, <2>2, <2>3
  <1>7. QED
    BY <1>5, <1>6

(* The regions of a command make up the bytes of it.                        *)
LEMMA RegionsBuilt ==
  ASSUME AhciConstants, NEW length \in Nat,
         length <= AHCI_MAX_PRDT_NUMBER * AHCI_MAX_DATA_PER_PRDT
  PROVE  LET regions == AhciDriver!AhciBuildCommand(length)
         IN  AhciDriver!Cover(regions, length) /\ regions # AhciDriver!Unbuilt
  <1>1. PICK size, most : /\ size = AHCI_MAX_DATA_PER_PRDT /\ most = AHCI_MAX_PRDT_NUMBER
                          /\ size \in Nat \ {0} /\ most \in Nat \ {0}
                          /\ length <= most * size /\ most * size = size * most
    BY DEF AhciConstants
  <1>2. PICK n, rest : n = (length + size - 1) \div size /\ rest = (length + size - 1) % size
    OBVIOUS
  <1>3. n \in Nat /\ rest \in 0 .. size - 1 /\ length + size - 1 = size * n + rest
    <2>1. length + size - 1 \in Nat
      BY <1>1
    <2>2. /\ (length + size - 1) \div size \in Nat
          /\ (length + size - 1) % size \in 0 .. size - 1
          /\ length + size - 1
               = size * ((length + size - 1) \div size) + ((length + size - 1) % size)
      BY <1>1, <2>1, ShiftedRight, Zenon
    <2>3. QED
      BY <1>2, <2>2
  <1>4. size * n \in Nat /\ length <= size * n /\ size * n < length + size
    BY <1>1, <1>3
  <1>5. n <= most
    <2>1. size * (n - 1) = size * n - size
      BY <1>1, <1>3
    <2>2. size * (n - 1) < size * most
      BY <1>1, <1>4, <2>1
    <2>3. n - 1 < most
      BY <1>1, <1>3, <2>2, ProductsOrdered
    <2>4. QED
      BY <1>1, <1>3, <2>3
  <1> DEFINE left(i) == length - (i - 1) * size
             regions == [ i \in 1 .. n |->
               [ base |-> (i - 1) * size,
                 last |-> IF left(i) < size THEN left(i) - 1 ELSE size - 1 ] ]
             bases == [ i \in DOMAIN regions |-> regions[i].base ]
             sizes == [ i \in DOMAIN regions |-> regions[i].last + 1 ]
  <1>6. AhciDriver!AhciBuildCommand(length) = regions
    BY <1>1, <1>2, <1>5 DEF AhciDriver!AhciBuildCommand
  <1>7. ASSUME NEW i \in 1 .. n
        PROVE  /\ (i - 1) * size \in Nat /\ (i - 1) * size < length
               /\ i < n => (i - 1) * size + size < length
               /\ i * size = (i - 1) * size + size
    <2>1. size * (i - 1) = (i - 1) * size /\ i * size = (i - 1) * size + size /\ (i - 1) * size \in Nat
      BY <1>1, <1>3
    <2>2. size * (n - 1) = size * n - size /\ n - 1 \in Int /\ i - 1 \in Int /\ i \in Int
      BY <1>1, <1>3
    <2>3. size * (i - 1) <= size * (n - 1)
      <3>1. i - 1 <= n - 1
        BY <1>3
      <3>2. QED
        BY <1>1, <2>2, <3>1, ProductsOrdered
    <2>4. i < n => size * i <= size * (n - 1)
      <3>1. i < n => i <= n - 1
        BY <1>3
      <3>2. QED
        BY <1>1, <2>2, <3>1, ProductsOrdered
    <2>5. size * i = i * size
      BY <1>1
    <2>6. QED
      BY <1>1, <1>4, <2>1, <2>2, <2>3, <2>4, <2>5
  <1>8. ASSUME NEW i \in 1 .. n
        PROVE  /\ regions[i].base = (i - 1) * size /\ regions[i].last >= 0
               /\ i < n => regions[i].last + 1 = size
               /\ i = n => regions[i].base + (regions[i].last + 1) = length
    <2>1. PICK at : at = (i - 1) * size /\ at \in Nat /\ at < length
      BY <1>7
    <2>2. regions[i] = [base |-> at, last |-> IF length - at < size THEN length - at - 1 ELSE size - 1]
      BY <2>1
    <2>3. i < n => at + size < length
      BY <1>7, <2>1
    <2>4. i = n => length <= at + size
      <3>1. i = n => size * n = at + size
        BY <1>1, <1>7, <2>1
      <3>2. QED
        BY <1>4, <3>1
    <2> HIDE DEF regions
    <2>5. QED
      BY <1>1, <2>1, <2>2, <2>3, <2>4
  <1>9. DOMAIN bases = 1 .. n /\ DOMAIN sizes = 1 .. n /\ DOMAIN regions = 1 .. n
        /\ (\A i \in 1 .. n : bases[i] = regions[i].base /\ sizes[i] = regions[i].last + 1)
        /\ Len(bases) = n /\ (bases = << >> <=> n = 0)
    <2>1. DOMAIN regions = 1 .. n
      OBVIOUS
    <2> HIDE DEF regions
    <2>2. bases = [ i \in 1 .. n |-> regions[i].base ]
      BY <2>1
    <2>3. bases \in Seq({ regions[i].base : i \in 1 .. n })
      BY <1>3, <2>2
    <2>4. Len(bases) = n
      BY <1>3, <2>2, <2>3
    <2>5. n = 0 <=> bases = << >>
      BY <1>3, <2>3, <2>4
    <2>6. QED
      BY <2>1, <2>2, <2>4, <2>5
  <1> HIDE DEF regions, bases, sizes
  <1>10. \A i \in 1 .. n : bases[i] = IF i = 1 THEN 0 ELSE bases[i - 1] + sizes[i - 1]
    <2>1. SUFFICES ASSUME NEW i \in 1 .. n
                   PROVE  bases[i] = IF i = 1 THEN 0 ELSE bases[i - 1] + sizes[i - 1]
      OBVIOUS
    <2>2. CASE i = 1
      BY <1>1, <1>8, <1>9, <2>2
    <2>3. CASE i # 1
      <3>1. PICK j \in 1 .. n : j = i - 1 /\ j < n
        BY <1>3, <2>3
      <3>2. bases[j] = (j - 1) * size /\ sizes[j] = size /\ bases[i] = (i - 1) * size
        BY <1>8, <1>9, <3>1
      <3>3. (i - 1) * size = (j - 1) * size + size
        BY <1>7, <3>1
      <3>4. QED
        BY <2>3, <3>1, <3>2, <3>3
    <2>4. QED
      BY <2>2, <2>3
  <1>11. length = IF n = 0 THEN 0 ELSE bases[n] + sizes[n]
    <2>1. CASE n = 0
      <3>1. size * n = 0
        BY <1>1, <2>1
      <3>2. QED
        BY <1>4, <2>1, <3>1
    <2>2. CASE n # 0
      <3>1. n \in 1 .. n
        BY <1>3, <2>2
      <3>2. QED
        BY <1>8, <1>9, <2>2, <3>1
    <2>3. QED
      BY <2>1, <2>2
  <1>12. AhciDriver!Consecutive(bases, sizes, 0, length)
    BY <1>9, <1>10, <1>11 DEF AhciDriver!Consecutive
  <1>13. \A i \in DOMAIN regions : regions[i].last >= 0
    BY <1>8, <1>9
  <1>14. AhciDriver!Cover(regions, length)
    BY <1>12, <1>13 DEF AhciDriver!Cover, bases, sizes
  <1>15. regions # AhciDriver!Unbuilt
    <2>1. SUFFICES ASSUME regions = AhciDriver!Unbuilt PROVE FALSE
      OBVIOUS
    <2>2. 1 \in DOMAIN regions /\ regions[1].last = -1
      BY <2>1 DEF AhciDriver!Unbuilt
    <2>3. QED
      BY <1>13, <2>2
  <1>16. QED
    BY <1>6, <1>14, <1>15

(* One more command that goes on where the others ended.                    *)
LEMMA TransferredMore ==
  ASSUME NEW S, NEW sent \in Seq(S), NEW dev, NEW lba \in Nat, NEW end \in Nat,
         AhciDriver!Transferred(sent, dev, lba, end),
         NEW command, NEW count \in Nat, NEW T, command \in T,
         AhciDriver!AddressOf(command.taskFile, dev.lba48) = end,
         AhciDriver!CountOf(command.taskFile, dev.lba48) = count,
         command.taskFile.head < Half, command.offset = (end - lba) * dev.blockSize,
         \/ AhciDriver!RoundedDown(count * dev.blockSize)
         \/ AhciDriver!Cover(command.regions, count * dev.blockSize)
  PROVE  AhciDriver!Transferred(Append(sent, command), dev, lba, end + count)
  <1> DEFINE all == Append(sent, command)
             Starts(s) == [ i \in DOMAIN s |-> AhciDriver!AddressOf(s[i].taskFile, dev.lba48) ]
             Counts(s) == [ i \in DOMAIN s |-> AhciDriver!CountOf(s[i].taskFile, dev.lba48) ]
             Fills(regions, length) ==
               AhciDriver!RoundedDown(length) \/ AhciDriver!Cover(regions, length)
  <1>1. PICK n \in Nat : n = Len(sent)
    OBVIOUS
  <1>2. /\ DOMAIN sent = 1 .. n /\ DOMAIN all = 1 .. n + 1 /\ Len(all) = n + 1
        /\ \A i \in 1 .. n : all[i] = sent[i]
        /\ all[n + 1] = command
    BY <1>1
  <1> HIDE DEF all
  <1>3. PICK starts, counts, starts1, counts1 :
          /\ starts = Starts(sent) /\ counts = Counts(sent)
          /\ starts1 = Starts(all) /\ counts1 = Counts(all)
    OBVIOUS
  <1>4. /\ DOMAIN starts = 1 .. n /\ DOMAIN starts1 = 1 .. n + 1
        /\ \A i \in 1 .. n : starts1[i] = starts[i] /\ counts1[i] = counts[i]
        /\ starts1[n + 1] = end /\ counts1[n + 1] = count
    BY <1>1, <1>2, <1>3
  <1>5. Len(starts) = n /\ Len(starts1) = n + 1 /\ starts1 # << >> /\ (starts = << >> <=> n = 0)
    <2> DEFINE V == { starts[i] : i \in 1 .. n } \cup { starts1[i] : i \in 1 .. n + 1 }
    <2>1. starts = [i \in 1 .. n |-> starts[i]] /\ starts1 = [i \in 1 .. n + 1 |-> starts1[i]]
      BY <1>2, <1>3, <1>4
    <2>2. (\A i \in 1 .. n : starts[i] \in V) /\ \A i \in 1 .. n + 1 : starts1[i] \in V
      OBVIOUS
    <2> HIDE DEF V
    <2>3. starts \in Seq(V) /\ starts1 \in Seq(V)
      BY <1>1, <2>1, <2>2
    <2>4. Len(starts) = n /\ Len(starts1) = n + 1
      BY <1>1, <1>4, <2>3
    <2>5. QED
      BY <1>1, <2>3, <2>4
  <1>6. /\ \A i \in 1 .. n : starts[i] = IF i = 1 THEN lba ELSE starts[i - 1] + counts[i - 1]
        /\ end = IF n = 0 THEN lba ELSE starts[n] + counts[n]
        /\ \A i \in 1 .. n : /\ sent[i].taskFile.head < Half
                             /\ sent[i].offset = (starts[i] - lba) * dev.blockSize
                             /\ Fills(sent[i].regions, counts[i] * dev.blockSize)
    <2>1. AhciDriver!Consecutive(starts, counts, lba, end)
      BY <1>3 DEF AhciDriver!Transferred
    <2>2. \A i \in DOMAIN sent :
            /\ sent[i].taskFile.head < Half
            /\ sent[i].offset = (starts[i] - lba) * dev.blockSize
            /\ Fills(sent[i].regions, counts[i] * dev.blockSize)
      BY <1>3 DEF AhciDriver!Transferred
    <2>3. end = IF n = 0 THEN lba ELSE starts[n] + counts[n]
      BY <1>5, <2>1 DEF AhciDriver!Consecutive
    <2>4. \A i \in 1 .. n : starts[i] = IF i = 1 THEN lba ELSE starts[i - 1] + counts[i - 1]
      BY <1>4, <2>1 DEF AhciDriver!Consecutive
    <2>5. QED
      BY <1>2, <2>2, <2>3, <2>4
  <1>7. AhciDriver!Consecutive(starts1, counts1, lba, end + count)
    <2>1. \A i \in 1 .. n + 1 : starts1[i] = IF i = 1 THEN lba ELSE starts1[i - 1] + counts1[i - 1]
      <3>1. SUFFICES ASSUME NEW i \in 1 .. n + 1
                     PROVE  starts1[i] = IF i = 1 THEN lba ELSE starts1[i - 1] + counts1[i - 1]
        OBVIOUS
      <3>2. CASE i = n + 1
        <4>1. CASE n = 0
          BY <1>4, <1>6, <3>2, <4>1
        <4>2. CASE n # 0
          <5>1. n \in 1 .. n /\ i - 1 = n /\ i # 1
            BY <1>1, <3>2, <4>2
          <5>2. QED
            BY <1>4, <1>6, <3>2, <4>2, <5>1
        <4>3. QED
          BY <4>1, <4>2
      <3>3. CASE i # n + 1
        <4>1. i \in 1 .. n /\ (i # 1 => i - 1 \in 1 .. n)
          BY <1>1, <3>3
        <4>2. QED
          BY <1>4, <1>6, <4>1
      <3>4. QED
        BY <3>2, <3>3
    <2>2. end + count = starts1[Len(starts1)] + counts1[Len(starts1)]
      BY <1>4, <1>5
    <2>3. QED
      BY <1>4, <1>5, <2>1, <2>2 DEF AhciDriver!Consecutive
  <1>8. \A i \in DOMAIN all :
          /\ all[i].taskFile.head < Half
          /\ all[i].offset = (starts1[i] - lba) * dev.blockSize
          /\ Fills(all[i].regions, counts1[i] * dev.blockSize)
    <2>1. SUFFICES ASSUME NEW i \in 1 .. n + 1
                   PROVE  /\ all[i].taskFile.head < Half
                          /\ all[i].offset = (starts1[i] - lba) * dev.blockSize
                          /\ Fills(all[i].regions, counts1[i] * dev.blockSize)
      BY <1>2
    <2>2. CASE i = n + 1
      BY <1>2, <1>4, <2>2
    <2>3. CASE i # n + 1
      <3>1. i \in 1 .. n
        BY <1>1, <2>3
      <3>2. QED
        BY <1>2, <1>4, <1>6, <3>1
    <2>4. QED
      BY <2>2, <2>3
  <1>9. QED
    BY <1>3, <1>7, <1>8 DEF AhciDriver!Transferred, all

LEMMA NothingSent ==
  ASSUME NEW dev, NEW lba
  PROVE  AhciDriver!Transferred(<< >>, dev, lba, lba)
  <1>1. DOMAIN << >> = {}
    OBVIOUS
  <1> DEFINE starts == [ i \in DOMAIN << >> |->
                           AhciDriver!AddressOf(<< >>[i].taskFile, dev.lba48) ]
  <1>2. starts = << >>
    BY <1>1
  <1>3. \A counts : AhciDriver!Consecutive(starts, counts, lba, lba)
    BY <1>2 DEF AhciDriver!Consecutive
  <1> HIDE DEF starts
  <1>4. QED
    BY <1>1, <1>3 DEF AhciDriver!Transferred, starts

-----------------------------------------------------------------------------
(* Devices.                                                                *)
LEMMA MostPositive ==
  ASSUME AhciConstants, NEW lba48
  PROVE  MostBlocks(lba48) \in Nat \ {0}
  <1>1. Byte \in Nat \ {0} /\ 2 * Byte \in Nat \ {0}
    BY DEF AhciConstants
  <1>2. MostBlocks(lba48) = Byte \/ MostBlocks(lba48) = 2 * Byte
    BY DEF MostBlocks, AhciDriver!mMaxTransferBlockNumber,
           AhciDriver!MAX_28BIT_TRANSFER_BLOCK_NUM, AhciDriver!MAX_48BIT_TRANSFER_BLOCK_NUM
  <1>3. QED
    BY <1>1, <1>2

LEMMA IdentifiedFits ==
  ASSUME AhciConstants, NEW id \in Identifications,
         AhciDriver!IdentifyAtaDevice(id) # AhciDriver!Unidentified
  PROVE  DeviceFits(AhciDriver!IdentifyAtaDevice(id))
  <1> DEFINE lba48    == AhciDriver!GetAtapi6Capacity(id) > AhciDriver!MAX_28BIT_ADDRESSING_CAPACITY
             capacity == IF lba48 THEN AhciDriver!GetAtapi6Capacity(id) ELSE id.capacity28
             size     == IF id.longSectors THEN (2 * id.words) % AhciWord ELSE DefaultBlock
             most     == MostBlocks(lba48)
             new      == [lastBlock |-> capacity - 1, blockSize |-> size, lba48 |-> lba48,
                          trust |-> id.trust]
  <1>1. /\ AhciDriver!IdentifyAtaDevice(id) = new
        /\ capacity # 0 /\ size # 0 /\ ~(size > (AhciWord - 1) \div most)
    BY DEF AhciDriver!IdentifyAtaDevice, MostBlocks
  <1>2. lba48 \in BOOLEAN
    OBVIOUS
  <1>3. capacity \in Nat
    BY DEF AhciConstants, AhciDriver!GetAtapi6Capacity
  <1>4. size \in Nat
    <2>1. AhciWord \in Nat \ {0} /\ DefaultBlock \in Nat /\ 2 * id.words \in Nat
      <3>1. id.words \in Nat
        BY DEF AhciConstants
      <3>2. AhciWord \in Nat \ {0} /\ DefaultBlock \in Nat
        BY DEF AhciConstants
      <3>3. QED
        BY <3>1, <3>2
    <2>2. (2 * id.words) % AhciWord \in Nat
      BY <2>1, ShiftedRight
    <2>3. QED
      BY <2>1, <2>2
  <1>5. most \in Nat \ {0}
    BY MostPositive
  <1> HIDE DEF lba48, capacity, most
  <1> HIDE DEF size
  <1>8. size * most <= AhciWord - 1
    <2>1. PICK limit, rest : limit = (AhciWord - 1) \div most /\ rest = (AhciWord - 1) % most
      OBVIOUS
    <2>2. limit \in Nat /\ rest \in Nat /\ AhciWord - 1 = most * limit + rest
      <3>1. AhciWord - 1 \in Nat
        BY DEF AhciConstants
      <3>2. /\ (AhciWord - 1) \div most \in Nat /\ (AhciWord - 1) % most \in 0 .. most - 1
            /\ AhciWord - 1 = most * ((AhciWord - 1) \div most) + ((AhciWord - 1) % most)
        BY <1>5, <3>1, ShiftedRight, Zenon
      <3>3. QED
        BY <1>5, <2>1, <3>2
    <2>3. size <= limit
      BY <1>1, <1>4, <2>1, <2>2
    <2>4. most * size <= most * limit /\ most * size = size * most /\ most * limit \in Int
      BY <1>4, <1>5, <2>2, <2>3, ProductsOrdered
    <2>5. size * most \in Int
      BY <1>4, <1>5
    <2>6. QED
      BY <2>2, <2>4, <2>5
  <1>9. new.lba48 = lba48 /\ new.lastBlock = capacity - 1 /\ new.blockSize = size
    OBVIOUS
  <1> HIDE DEF new
  <1>10. DeviceFits(new)
    BY <1>1, <1>2, <1>3, <1>4, <1>8, <1>9 DEF DeviceFits, most
  <1>11. QED
    BY <1>1, <1>10

(* The search finds the first place, and only a place of the list.          *)
LEMMA FirstPlace ==
  ASSUME NEW n \in Nat, NEW places \in SUBSET (1 .. n)
  PROVE  /\ AhciDriver!First(places) = 0 <=> places = {}
         /\ places # {} => /\ AhciDriver!First(places) \in places
                           /\ \A i \in places : AhciDriver!First(places) <= i
  <1>1. CASE places = {}
    BY <1>1 DEF AhciDriver!First
  <1>2. CASE places # {}
    <2>1. Min(places) \in places /\ \A i \in places : Min(places) <= i
      BY <1>2, LeastIndex
    <2>2. AhciDriver!First(places) = Min(places)
      BY <1>2, Zenon DEF AhciDriver!First, AhciDriver!Min, Min
    <2>3. AhciDriver!First(places) # 0
      BY <2>1, <2>2
    <2>4. QED
      BY <1>2, <2>1, <2>2, <2>3
  <1>3. QED
    BY <1>1, <1>2

LEMMA DeviceFound ==
  ASSUME AhciConstants, DevicesInv, NEW d \in 1 .. Len(devices)
  PROVE  AhciDriver!SearchDeviceByPort(devices[d].port, devices[d].multiplier) = d
  <1> DEFINE places == { i \in DOMAIN devices : devices[i].port = devices[d].port
                                              /\ devices[i].multiplier = devices[d].multiplier }
  <1>1. PICK n \in Nat : n = Len(devices) /\ DOMAIN devices = 1 .. n
    BY DEF DevicesInv
  <1>2. d \in places /\ places \in SUBSET (1 .. n)
    BY <1>1
  <1>3. \A i \in places : i = d
    <2>1. SUFFICES ASSUME NEW i \in 1 .. n, devices[i].port = devices[d].port, i # d PROVE FALSE
      BY <1>1
    <2>2. i < d => devices[i].port < devices[d].port
      BY <1>1 DEF DevicesInv
    <2>3. d < i => devices[d].port < devices[i].port
      BY <1>1 DEF DevicesInv
    <2>4. devices[d].port \in Int
      <3>1. devices[d].port \in Ports
        BY DEF DevicesInv
      <3>2. Ports \subseteq Int
        BY DEF AhciConstants
      <3>3. QED
        BY <3>1, <3>2
    <2>5. QED
      BY <1>1, <2>1, <2>2, <2>3, <2>4
  <1> HIDE DEF places
  <1>4. AhciDriver!First(places) \in places
    BY <1>1, <1>2, FirstPlace
  <1>5. QED
    BY <1>3, <1>4 DEF AhciDriver!SearchDeviceByPort, places

(* A packet with its lengths replaced.                                      *)
Resized(packet, a, b) == [packet EXCEPT !.in = a, !.out = b]

LEMMA PacketResized ==
  ASSUME NEW protocol, NEW in, NEW out, NEW bytes, NEW aligned, NEW timeout, NEW a, NEW b,
         NEW packet, packet = AhciDriver!Packet(protocol, in, out, bytes, aligned, timeout)
  PROVE  Resized(packet, a, b) = AhciDriver!Packet(protocol, a, b, bytes, aligned, timeout)
  <1> DEFINE partly == AhciDriver!Packet(protocol, a, out, bytes, aligned, timeout)
             sized  == AhciDriver!Packet(protocol, a, b, bytes, aligned, timeout)
  <1>1. [packet EXCEPT !.in = a] = partly
    BY DEF AhciDriver!Packet
  <1>2. [partly EXCEPT !.out = b] = sized
    BY DEF AhciDriver!Packet
  <1>3. [packet EXCEPT !.in = a, !.out = b] = [[packet EXCEPT !.in = a] EXCEPT !.out = b]
    OBVIOUS
  <1> HIDE DEF partly, sized
  <1>4. [packet EXCEPT !.in = a, !.out = b] = sized
    BY <1>1, <1>2, <1>3
  <1>5. QED
    BY <1>4 DEF Resized, sized

LEMMA PacketFields ==
  ASSUME NEW protocol, NEW in, NEW out, NEW bytes, NEW aligned, NEW timeout,
         NEW packet, packet = AhciDriver!Packet(protocol, in, out, bytes, aligned, timeout)
  PROVE  /\ packet.protocol = protocol /\ packet.in = in /\ packet.out = out
         /\ packet.bytes = bytes /\ packet.aligned = aligned /\ packet.timeout = timeout
  BY DEF AhciDriver!Packet

(* What was sent without regions has a length that was let pass.            *)
Accounted(outcome) ==
  outcome.sent /\ outcome.regions = AhciDriver!Unbuilt => AhciDriver!RoundedDown(outcome.length)

LEMMA PioAccounted ==
  ASSUME AhciConstants, NEW read, NEW length \in Nat, NEW timeout
  PROVE  Accounted(AhciDriver!AhciPioTransfer(read, length, timeout))
  <1> PICK most, size, outcome :
        /\ most = AHCI_MAX_PRDT_NUMBER /\ size = AHCI_MAX_DATA_PER_PRDT
        /\ outcome = AhciDriver!AhciPioTransfer(read, length, timeout)
    OBVIOUS
  <1>1. most \in Nat \ {0} /\ size \in Nat \ {0} /\ most * size \in Nat
    BY DEF AhciConstants
  <1>2. SUFFICES ASSUME outcome.sent, outcome.regions = AhciDriver!Unbuilt
                 PROVE  AhciDriver!RoundedDown(outcome.length)
    BY DEF Accounted
  <1>3. \A status : AhciDriver!Refuses(status).sent = FALSE
    BY DEF AhciDriver!Refuses
  <1>4. /\ ~(length \div most > size)
        /\ outcome.regions = AhciDriver!AhciBuildCommand(length) /\ outcome.length = length
    BY <1>2, <1>3 DEF AhciDriver!AhciPioTransfer, AhciDriver!Sends
  <1>5. ~(length <= most * size)
    BY <1>2, <1>4, RegionsBuilt
  <1>6. PICK part : part = length \div most /\ part \in Nat
    BY <1>1, ShiftedRight
  <1>7. length > most * size /\ part <= size
    BY <1>1, <1>4, <1>5, <1>6
  <1>8. QED
    BY <1>4, <1>6, <1>7 DEF AhciDriver!RoundedDown

LEMMA PacketAccounted ==
  ASSUME AhciConstants, DevicesInv, NEW port, NEW multiplier, NEW protocol,
         NEW in \in Nat, NEW out \in Nat, NEW bytes, NEW aligned, NEW timeout
  PROVE  Accounted(AhciDriver!AhciAtaPassThruPassThru(port, multiplier,
                     AhciDriver!Packet(protocol, in, out, bytes, aligned, timeout)))
  <1> DEFINE found  == AhciDriver!SearchDeviceByPort(port, multiplier)
             limit  == (AhciDriver!mMaxTransferBlockNumber(devices[found].lba48)
                          * devices[found].blockSize) % AhciWord
             Bytes(n) == IF bytes THEN n ELSE (n * devices[found].blockSize) % AhciWord
             packet == AhciDriver!Packet(protocol, in, out, bytes, aligned, timeout)
             sized  == AhciDriver!Packet(protocol, Bytes(in), Bytes(out), bytes, aligned, timeout)
             outcome == AhciDriver!AhciAtaPassThruPassThru(port, multiplier, packet)
  <1>1. \A status : AhciDriver!Refuses(status).sent = FALSE
    BY DEF AhciDriver!Refuses
  <1>2. SUFFICES ASSUME found # 0, outcome = AhciDriver!AhciPassThruExecute(sized)
                 PROVE  Accounted(outcome)
    <2>1. /\ [packet EXCEPT !.in = Bytes(packet.in), !.out = Bytes(packet.out)] = sized
          /\ packet.aligned = aligned /\ packet.bytes = bytes
          /\ packet.in = in /\ packet.out = out
          /\ sized.in = Bytes(in) /\ sized.out = Bytes(out)
      <3>1. PICK a, b : a = Bytes(in) /\ b = Bytes(out)
        OBVIOUS
      <3>2. Resized(packet, a, b) = AhciDriver!Packet(protocol, a, b, bytes, aligned, timeout)
        BY ONLY PacketResized
      <3>3. /\ packet.aligned = aligned /\ packet.bytes = bytes
            /\ packet.in = in /\ packet.out = out
        BY DEF AhciDriver!Packet
      <3>4. Resized(packet, a, b) = sized /\ sized.in = a /\ sized.out = b
        <4>1. sized.in = Bytes(in) /\ sized.out = Bytes(out)
          <5> HIDE DEF Bytes
          <5>1. QED
            BY DEF AhciDriver!Packet
        <4> HIDE DEF packet, Bytes
        <4>2. QED
          BY <3>1, <3>2, <4>1
      <3> HIDE DEF packet, sized, Bytes
      <3>5. QED
        BY <3>1, <3>3, <3>4 DEF Resized
    <2>2. \/ \E status : outcome = AhciDriver!Refuses(status)
          \/ /\ aligned /\ found # 0 /\ ~(Bytes(in) > limit \/ Bytes(out) > limit)
             /\ outcome = AhciDriver!AhciPassThruExecute(sized)
      <3> HIDE DEF sized
      <3>1. CASE ~aligned
        BY <2>1, <3>1 DEF AhciDriver!AhciAtaPassThruPassThru
      <3>2. CASE aligned /\ found = 0
        BY <2>1, <3>2 DEF AhciDriver!AhciAtaPassThruPassThru
      <3>3. CASE aligned /\ found # 0
        <4> HIDE DEF found, limit, packet
        <4>1. outcome =
                CASE ~packet.aligned -> AhciDriver!Refuses("INVALID_PARAMETER")
                  [] packet.aligned /\ found = 0 -> AhciDriver!Refuses("NOT_FOUND")
                  [] packet.aligned /\ found # 0 /\ (sized.in > limit \/ sized.out > limit) ->
                       AhciDriver!Refuses("BAD_BUFFER_SIZE")
                  [] OTHER -> AhciDriver!AhciPassThruExecute(sized)
          BY <2>1, Zenon DEF AhciDriver!AhciAtaPassThruPassThru, found, limit
        <4> HIDE DEF outcome, Bytes
        <4>2. QED
          BY <2>1, <3>3, <4>1
      <3>4. QED
        BY <3>1, <3>2, <3>3
    <2>3. QED
      BY <1>1, <2>2 DEF Accounted
  <1>3. PICK word, size : /\ word = AhciWord /\ size = devices[found].blockSize
                          /\ word \in Nat \ {0} /\ size \in Nat
    <2>1. PICK n \in Nat : n = Len(devices) /\ DOMAIN devices = 1 .. n
      BY DEF DevicesInv
    <2>2. found \in 1 .. n
      <3> DEFINE places == { i \in DOMAIN devices : devices[i].port = port
                                                  /\ devices[i].multiplier = multiplier }
      <3>1. places \in SUBSET (1 .. n) /\ found = AhciDriver!First(places)
        BY <2>1 DEF AhciDriver!SearchDeviceByPort
      <3> HIDE DEF places, found
      <3>2. QED
        BY <1>2, <2>1, <3>1, FirstPlace
    <2>3. devices[found].blockSize \in Nat
      BY <2>1, <2>2 DEF DevicesInv, DeviceFits
    <2>4. AhciWord \in Nat \ {0}
      BY DEF AhciConstants
    <2>5. QED
      BY <2>3, <2>4
  <1>4. Bytes(in) \in Nat /\ Bytes(out) \in Nat
    <2>1. \A n \in Nat : Bytes(n) \in Nat
      <3>1. SUFFICES ASSUME NEW n \in Nat PROVE (n * size) % word \in Nat
        BY <1>3
      <3>2. n * size \in Nat
        BY <1>3
      <3>3. QED
        BY <1>3, <3>2, ShiftedRight
    <2>2. QED
      BY <2>1
  <1> HIDE DEF limit, Bytes, found
  <1>5. /\ Accounted(AhciDriver!AhciPioTransfer(TRUE, Bytes(in), timeout))
        /\ Accounted(AhciDriver!AhciPioTransfer(FALSE, Bytes(out), timeout))
    BY <1>4, PioAccounted
  <1>6. Accounted(AhciDriver!AhciNonDataTransfer(timeout))
    <2>1. 0 <= AHCI_MAX_PRDT_NUMBER * AHCI_MAX_DATA_PER_PRDT
      BY DEF AhciConstants
    <2>2. AhciDriver!AhciBuildCommand(0) # AhciDriver!Unbuilt
      BY <2>1, RegionsBuilt
    <2>3. QED
      BY <2>2 DEF AhciDriver!AhciNonDataTransfer, AhciDriver!Sends, Accounted
  <1>7. /\ sized.protocol = protocol /\ sized.in = Bytes(in) /\ sized.out = Bytes(out)
        /\ sized.timeout = timeout
    BY DEF AhciDriver!Packet
  <1> HIDE DEF sized, outcome
  <1>8. CASE protocol = "NON_DATA"
    BY <1>2, <1>6, <1>7, <1>8 DEF AhciDriver!AhciPassThruExecute
  <1>9. CASE protocol = "PIO_DATA_IN"
    BY <1>2, <1>5, <1>7, <1>9 DEF AhciDriver!AhciPassThruExecute
  <1>10. CASE protocol = "PIO_DATA_OUT"
    BY <1>2, <1>5, <1>7, <1>10 DEF AhciDriver!AhciPassThruExecute
  <1>11. CASE protocol \notin {"NON_DATA", "PIO_DATA_IN", "PIO_DATA_OUT"}
    <2>1. outcome = AhciDriver!Refuses("UNSUPPORTED")
      BY <1>2, <1>7, <1>11 DEF AhciDriver!AhciPassThruExecute
    <2>2. QED
      BY <1>1, <1>2, <2>1 DEF Accounted
  <1>12. QED
    BY <1>8, <1>9, <1>10, <1>11 DEF outcome

(* A read of blocks that succeeds was sent with the regions of its bytes.   *)
LEMMA BlocksPassed ==
  ASSUME AhciConstants, DevicesInv, NEW d \in 1 .. Len(devices), NEW aligned, NEW lba,
         NEW count \in Nat \ {0}, count <= MostBlocks(devices[d].lba48),
         AhciDriver!TransferAtaDevice(devices[d], aligned, lba, count).status = "SUCCESS"
  PROVE  LET outcome == AhciDriver!TransferAtaDevice(devices[d], aligned, lba, count)
             length  == count * devices[d].blockSize
         IN  /\ outcome.sent /\ outcome.regions = AhciDriver!AhciBuildCommand(length)
             /\ length \in Nat
             /\ \/ length <= AHCI_MAX_PRDT_NUMBER * AHCI_MAX_DATA_PER_PRDT
                \/ AhciDriver!RoundedDown(length)
  <1> DEFINE dev    == devices[d]
             size   == dev.blockSize
             length == count * size
             limit  == (AhciDriver!mMaxTransferBlockNumber(dev.lba48) * size) % AhciWord
             packet == AhciDriver!Packet("PIO_DATA_IN", count, 0, FALSE, aligned, 1)
             sized  == AhciDriver!Packet("PIO_DATA_IN", length, 0, FALSE, aligned, 1)
             outcome == AhciDriver!TransferAtaDevice(dev, aligned, lba, count)
  <1>1. length \in Nat /\ length < AhciWord /\ length % AhciWord = length /\ (0 * size) % AhciWord = 0
    <2>1. PICK most, word : /\ most = MostBlocks(dev.lba48) /\ word = AhciWord
                            /\ most \in Nat /\ word \in Nat \ {0}
      BY MostPositive DEF AhciConstants
    <2>2. size \in Nat /\ size * most <= word - 1
      BY <2>1 DEF DevicesInv, DeviceFits
    <2>3. size * most = most * size /\ size * count = count * size /\ size * count \in Nat
          /\ size * most \in Nat
      BY <2>1, <2>2
    <2>4. size * count <= size * most
      <3> HIDE DEF size
      <3>1. QED
        BY <2>1, <2>2, ProductsOrdered
    <2>5. length \in Nat /\ length < word
      BY <2>1, <2>2, <2>3, <2>4
    <2>6. 0 * size = 0
      BY <2>2
    <2> HIDE DEF length
    <2>7. length % word = length /\ 0 % word = 0
      <3>1. \A n \in Nat : n < word => n % word = n
        BY <2>1, ShiftedRight
      <3>2. QED
        BY <2>1, <2>5, <3>1
    <2>8. QED
      BY <2>1, <2>5, <2>6, <2>7
  <1>2. AhciDriver!SearchDeviceByPort(dev.port, dev.multiplier) = d /\ d # 0
    BY DeviceFound
  <1>3. /\ [packet EXCEPT !.in = length, !.out = 0] = sized
        /\ packet.aligned = aligned /\ packet.bytes = FALSE /\ packet.in = count /\ packet.out = 0
        /\ sized.in = length /\ sized.out = 0
    <2>1. PICK a : a = length
      OBVIOUS
    <2>2. Resized(packet, a, 0) = AhciDriver!Packet("PIO_DATA_IN", a, 0, FALSE, aligned, 1)
      <3>1. \A g : Resized(AhciDriver!Packet("PIO_DATA_IN", count, 0, g, aligned, 1), a, 0)
                     = AhciDriver!Packet("PIO_DATA_IN", a, 0, g, aligned, 1)
        BY ONLY PacketResized
      <3>2. QED
        BY ONLY <3>1, Zenon
    <2>3. /\ packet.aligned = aligned /\ packet.bytes = FALSE
          /\ packet.in = count /\ packet.out = 0
      BY DEF AhciDriver!Packet
    <2>4. Resized(packet, a, 0) = sized /\ sized.in = a /\ sized.out = 0
      <3>1. sized.in = length /\ sized.out = 0
        <4> HIDE DEF length
        <4>1. QED
          BY DEF AhciDriver!Packet
      <3> HIDE DEF packet, length
      <3>2. QED
        BY <2>1, <2>2, <3>1
    <2> HIDE DEF packet, sized, length
    <2>5. QED
      BY <2>1, <2>3, <2>4 DEF Resized
  <1>4. \A status : AhciDriver!Refuses(status).status = status
    BY DEF AhciDriver!Refuses
  <1>5. outcome = AhciDriver!AhciPassThruExecute(sized)
    <2>1. outcome = AhciDriver!AhciAtaPassThruPassThru(dev.port, dev.multiplier, packet)
      BY DEF AhciDriver!TransferAtaDevice
    <2> DEFINE Bytes(n) == IF packet.bytes THEN n ELSE (n * size) % AhciWord
               passed == [packet EXCEPT !.in = Bytes(@), !.out = Bytes(@)]
    <2>2. passed = sized
      <3>1. Bytes(packet.in) = length /\ Bytes(packet.out) = 0
        BY <1>1, <1>3
      <3>2. passed = [packet EXCEPT !.in = Bytes(packet.in), !.out = Bytes(packet.out)]
        OBVIOUS
      <3> HIDE DEF Bytes, packet, sized
      <3>3. QED
        BY <1>3, <3>1, <3>2
    <2> HIDE DEF packet, sized
    <2>3. outcome =
            CASE ~packet.aligned -> AhciDriver!Refuses("INVALID_PARAMETER")
              [] packet.aligned /\ d = 0 -> AhciDriver!Refuses("NOT_FOUND")
              [] packet.aligned /\ d # 0 /\ (passed.in > limit \/ passed.out > limit) ->
                   AhciDriver!Refuses("BAD_BUFFER_SIZE")
              [] OTHER -> AhciDriver!AhciPassThruExecute(passed)
      BY <1>2, <2>1, Zenon DEF AhciDriver!AhciAtaPassThruPassThru
    <2>4. outcome.status = "SUCCESS"
      OBVIOUS
    <2> HIDE DEF outcome, passed
    <2>5. QED
      BY <1>4, <2>2, <2>3, <2>4
  <1>6. outcome = AhciDriver!AhciPioTransfer(TRUE, length, 1)
    <2>1. sized.protocol = "PIO_DATA_IN" /\ sized.timeout = 1
      BY DEF AhciDriver!Packet
    <2> HIDE DEF sized, outcome
    <2>2. QED
      BY <1>3, <1>5, <2>1 DEF AhciDriver!AhciPassThruExecute
  <1>7. outcome.status = "SUCCESS"
    OBVIOUS
  <1> HIDE DEF outcome, length
  <1>8. /\ outcome.sent /\ outcome.regions = AhciDriver!AhciBuildCommand(length)
        /\ ~(length \div AHCI_MAX_PRDT_NUMBER > AHCI_MAX_DATA_PER_PRDT)
    BY <1>4, <1>6, <1>7 DEF AhciDriver!AhciPioTransfer, AhciDriver!Sends
  <1>9. \/ length <= AHCI_MAX_PRDT_NUMBER * AHCI_MAX_DATA_PER_PRDT
        \/ AhciDriver!RoundedDown(length)
    <2>1. PICK most, region : /\ most = AHCI_MAX_PRDT_NUMBER /\ region = AHCI_MAX_DATA_PER_PRDT
                             /\ most \in Nat \ {0} /\ region \in Nat /\ most * region \in Nat
      BY DEF AhciConstants
    <2>2. PICK part : part = length \div most /\ part \in Nat
      BY <1>1, <2>1, ShiftedRight
    <2>3. part <= region
      BY <1>8, <2>1, <2>2
    <2>4. CASE length > most * region
      BY <2>1, <2>2, <2>3, <2>4 DEF AhciDriver!RoundedDown
    <2>5. QED
      BY <1>1, <2>1, <2>4
  <1>10. QED
    BY <1>1, <1>8, <1>9 DEF length, outcome

(* Places of devices are found by their numbers.                            *)
LEMMA NumberFound ==
  ASSUME DevicesInv, NEW places, places \subseteq DOMAIN devices
  PROVE  /\ AhciDriver!First(places) = 0 <=> places = {}
         /\ places # {} => /\ AhciDriver!First(places) \in places
                           /\ AhciDriver!First(places) \in 1 .. Len(devices)
                           /\ \A i \in places : AhciDriver!First(places) <= i
  <1>1. PICK n \in Nat : n = Len(devices) /\ DOMAIN devices = 1 .. n
    BY DEF DevicesInv
  <1>2. places \in SUBSET (1 .. n)
    BY <1>1
  <1>3. QED
    BY <1>1, <1>2, FirstPlace

LEMMA DevicesKept ==
  ASSUME DevicesInv, UNCHANGED << devices, active, trusted, disks >>
  PROVE  DevicesInv'
  BY DEF DevicesInv

(* Calls that neither read blocks nor enumerate ports and answer at once.   *)
LEMMA OtherAnswered ==
  ASSUME DevicesInv', ahciCall'.is = "returned", commands' = << >>,
         ahciCall'.fn \notin {"ReadBlocks", "GetNextPort"}
  PROVE  AhciInv'
  <1>1. commands' \in Seq({}) /\ DOMAIN commands' = {}
    OBVIOUS
  <1>2. AhciDriver!RegionsFit'
    BY <1>1 DEF AhciDriver!RegionsFit
  <1>3. CallInv'
    BY DEF CallInv, AhciDriver!ReadsWhatWasAsked, AhciDriver!HasRead, AhciDriver!PortsEnumerated
  <1>4. QED
    BY <1>1, <1>2, <1>3 DEF AhciInv

(* Calls that send one command and wait.                                    *)
LEMMA OneSent ==
  ASSUME DevicesInv', NEW fn, fn \notin {"ReadBlocks", "GetNextPort"}, NEW arguments,
         NEW taskFile, NEW outcome, Accounted(outcome),
         AhciDriver!SendOne(fn, arguments, taskFile, outcome)
  PROVE  AhciInv'
  <1> DEFINE command == [taskFile |-> taskFile, regions |-> outcome.regions,
                         length |-> outcome.length, offset |-> 0]
  <1>1. commands' = IF outcome.sent THEN << command >> ELSE << >>
    BY DEF AhciDriver!SendOne
  <1>2. command.regions = outcome.regions /\ command.length = outcome.length
    OBVIOUS
  <1> HIDE DEF command
  <1>3. commands' \in Seq({command}) /\ AhciDriver!RegionsFit'
    <2>1. CASE outcome.sent
      <3>1. commands' = << command >>
        BY <1>1, <2>1
      <3>2. DOMAIN << command >> = {1} /\ << command >>[1] = command
        OBVIOUS
      <3>3. QED
        BY <1>2, <2>1, <3>1, <3>2 DEF AhciDriver!RegionsFit, Accounted
    <2>2. CASE ~outcome.sent
      <3>1. commands' = << >> /\ DOMAIN << >> = {}
        BY <1>1, <2>2
      <3>2. QED
        BY <3>1 DEF AhciDriver!RegionsFit
    <2>3. QED
      BY <2>1, <2>2
  <1>4. PICK polls, status :
          ahciCall' = [is |-> "running", fn |-> "wait", polls |-> polls,
                       returns |-> AhciDriver!Returned(fn, arguments, status, 0)]
    BY DEF AhciDriver!SendOne
  <1>5. Waiting(polls, AhciDriver!Returned(fn, arguments, status, 0))'
    BY <1>4 DEF AhciDriver!Returned, Waiting
  <1>6. CallInv'
    BY <1>5 DEF CallInv
  <1>7. QED
    BY <1>3, <1>6 DEF AhciInv

LEMMA AhciStutter ==
  ASSUME AhciInv, UNCHANGED << devices, active, trusted, disks, ahciCall, commands >>
  PROVE  AhciInv'
  <1>1. DevicesInv'
    BY DevicesKept DEF AhciInv
  <1>2. CallInv'
    <2>1. CASE /\ ahciCall.is = "returned"
               /\ AhciDriver!ReadsWhatWasAsked /\ AhciDriver!PortsEnumerated
      <3>1. AhciDriver!ReadsWhatWasAsked'
        BY <2>1 DEF AhciDriver!ReadsWhatWasAsked, AhciDriver!HasRead, AhciDriver!ReadExactly
      <3>2. AhciDriver!PortsEnumerated'
        BY <2>1 DEF AhciDriver!PortsEnumerated
      <3>3. QED
        BY <2>1, <3>1, <3>2 DEF CallInv
    <2>2. ASSUME NEW polls, NEW answered, Waiting(polls, answered)
          PROVE  CallInv'
      <3>1. Waiting(polls, answered)'
        BY <2>2 DEF Waiting
      <3>2. QED
        BY <3>1 DEF CallInv
    <2>3. ASSUME NEW r \in AhciReads, NEW d \in 1 .. Len(devices), NEW n \in Nat, Reading(r, d, n)
          PROVE  CallInv'
      <3>1. Reading(r, d, n)'
        BY <2>3 DEF Reading
      <3>2. d \in 1 .. Len(devices')
        OBVIOUS
      <3>3. QED
        BY <3>1, <3>2 DEF CallInv
    <2>4. QED
      BY <2>1, <2>2, <2>3 DEF AhciInv, CallInv
  <1>3. QED
    BY <1>1, <1>2 DEF AhciInv, AhciDriver!RegionsFit

(* A device that is identified is the last one and can be found.            *)
LEMMA DeviceCreated ==
  ASSUME AhciConstants, AhciInv, AhciDriver!CreateNewDevice
  PROVE  AhciInv'
  <1>1. PICK id \in Identifications, port \in Ports, mayFail \in {FALSE, AllocationMayFail} :
          LET new == AhciDriver!IdentifyAtaDevice(id)
              ok  == new # AhciDriver!Unidentified /\ ~mayFail
          IN  /\ \A i \in DOMAIN disks : disks[i] < port
              /\ disks'   = Append(disks, port)
              /\ active'  = IF ok THEN active + 1 ELSE active
              /\ trusted' = IF ok /\ new.trust THEN trusted + 1 ELSE trusted
              /\ devices' = IF ok
                   THEN Append(devices,
                          [port |-> port, multiplier |-> AhciDriver!None,
                           index |-> Len(disks) + 1,
                           trustIndex |-> IF new.trust THEN trusted + 1 ELSE 0,
                           lba48 |-> new.lba48, trust |-> new.trust,
                           lastBlock |-> new.lastBlock, blockSize |-> new.blockSize])
                   ELSE devices
    BY DEF AhciDriver!CreateNewDevice
  <1>2. ahciCall'.is = "returned" /\ ahciCall'.fn = "none" /\ commands' = << >>
    BY DEF AhciDriver!CreateNewDevice, AhciDriver!NoCall, AhciDriver!Returned
  <1> DEFINE new == AhciDriver!IdentifyAtaDevice(id)
             dev == [port |-> port, multiplier |-> AhciDriver!None, index |-> Len(disks) + 1,
                     trustIndex |-> IF new.trust THEN trusted + 1 ELSE 0,
                     lba48 |-> new.lba48, trust |-> new.trust,
                     lastBlock |-> new.lastBlock, blockSize |-> new.blockSize]
  <1>3. DevicesInv'
    <2>1. DevicesInv
      BY DEF AhciInv
    <2>4. PICK k \in Nat :
            /\ k = Len(disks) /\ disks' \in Seq(Ports) /\ Len(disks') = k + 1
            /\ \A i \in 1 .. k : disks'[i] = disks[i] /\ disks[i] < port
            /\ disks'[k + 1] = port
      <3>1. disks \in Seq(Ports) /\ DOMAIN disks = 1 .. Len(disks) /\ Len(disks) \in Nat
        BY <2>1 DEF DevicesInv
      <3>2. /\ disks' = Append(disks, port) /\ port \in Ports
            /\ \A i \in DOMAIN disks : disks[i] < port
        BY <1>1
      <3>3. PICK k \in Nat : k = Len(disks) /\ DOMAIN disks = 1 .. k
        BY <3>1
      <3>4. disks' \in Seq(Ports) /\ Len(disks') = k + 1 /\ disks'[k + 1] = port
        BY <3>1, <3>2, <3>3
      <3>5. \A i \in 1 .. k : disks'[i] = disks[i] /\ disks[i] < port
        BY <3>1, <3>2, <3>3
      <3>6. QED
        BY <3>3, <3>4, <3>5
    <2>5. ASSUME NEW i \in 1 .. Len(devices)
          PROVE  /\ devices[i].index \in 1 .. k /\ devices[i].index \in 1 .. k + 1
                 /\ devices[i].port = disks'[devices[i].index]
                 /\ devices[i].port < port
      <3>1. devices[i].index \in 1 .. k /\ devices[i].port = disks[devices[i].index]
        BY <2>1, <2>4 DEF DevicesInv
      <3>2. QED
        BY <2>4, <3>1
    <2>2. CASE new # AhciDriver!Unidentified /\ ~mayFail
      <3>1. /\ devices' = Append(devices, dev) /\ active' = active + 1
            /\ trusted' = IF new.trust THEN trusted + 1 ELSE trusted
        BY <1>1, <2>2
      <3>2. DeviceFits(new)
        BY <2>2, IdentifiedFits
      <3>3. /\ DeviceFits(dev) /\ dev.port = port /\ dev.multiplier = AhciDriver!None
            /\ dev.index = Len(disks) + 1 /\ dev.trust = new.trust
            /\ dev.trustIndex = IF new.trust THEN trusted + 1 ELSE 0
        BY <3>2 DEF DeviceFits
      <3> HIDE DEF dev, new
      <3>4. PICK S, n : devices \in Seq(S) /\ n = Len(devices) /\ n \in Nat /\ DOMAIN devices = 1 .. n
        BY <2>1 DEF DevicesInv
      <3>5. PICK T : T = S \cup {dev} /\ devices \in Seq(T) /\ dev \in T
        <4>1. Seq(S) \subseteq Seq(S \cup {dev})
          OBVIOUS
        <4>2. QED
          BY <3>4, <4>1
      <3>6. /\ devices' \in Seq(T) /\ Len(devices') = n + 1 /\ devices'[n + 1] = dev
            /\ \A i \in 1 .. n : devices'[i] = devices[i]
        BY <3>1, <3>4, <3>5
      <3>7. active = n /\ trusted \in Nat /\ active' = n + 1
        BY <2>1, <3>1, <3>4 DEF DevicesInv
      <3>8. trusted' \in Nat /\ trusted <= trusted'
        BY <3>1, <3>7
      <3>9. ASSUME NEW i \in 1 .. n + 1
            PROVE  /\ devices'[i].index \in 1 .. Len(disks') /\ devices'[i].port \in Ports
                   /\ devices'[i].port = disks'[devices'[i].index]
                   /\ devices'[i].multiplier = AhciDriver!None
                   /\ devices'[i].trustIndex \in 0 .. trusted'
                   /\ devices'[i].trustIndex > 0 => devices'[i].trust
                   /\ DeviceFits(devices'[i])
        <4>1. CASE i \in 1 .. n
          <5>1. devices'[i] = devices[i]
            BY <3>6, <4>1
          <5>2. /\ devices[i].port \in Ports
                /\ devices[i].multiplier = AhciDriver!None
                /\ devices[i].trustIndex \in 0 .. trusted
                /\ devices[i].trustIndex > 0 => devices[i].trust
                /\ DeviceFits(devices[i])
            BY <2>1, <3>4, <4>1 DEF DevicesInv
          <5>3. devices[i].trustIndex \in 0 .. trusted'
            BY <3>7, <3>8, <5>2
          <5>4. /\ devices[i].index \in 1 .. Len(disks')
                /\ devices[i].port = disks'[devices[i].index]
            BY <2>4, <2>5, <3>4, <4>1
          <5>5. QED
            BY <5>1, <5>2, <5>3, <5>4
        <4>2. CASE i = n + 1
          <5>1. devices'[i] = dev
            BY <3>6, <4>2
          <5>2. /\ dev.index \in 1 .. Len(disks') /\ dev.port \in Ports
                /\ dev.port = disks'[dev.index]
            BY <2>4, <3>3
          <5>3. dev.trustIndex \in 0 .. trusted' /\ (dev.trustIndex > 0 => dev.trust)
            BY <3>1, <3>3, <3>7
          <5>4. QED
            BY <3>3, <5>1, <5>2, <5>3
        <4>3. QED
          BY <3>4, <4>1, <4>2
      <3>10. ASSUME NEW i \in 1 .. n + 1, NEW j \in 1 .. n + 1, i < j
             PROVE  devices'[i].port < devices'[j].port /\ devices'[i].index < devices'[j].index
        <4>1. i \in 1 .. n /\ devices'[i] = devices[i]
          BY <3>4, <3>6, <3>10
        <4>2. CASE j \in 1 .. n
          BY <2>1, <3>4, <3>6, <3>10, <4>1, <4>2 DEF DevicesInv
        <4>3. CASE j = n + 1
          <5>1. devices[i].port < port /\ devices[i].index < Len(disks) + 1
            BY <2>4, <2>5, <3>4, <4>1
          <5>2. QED
            BY <3>3, <3>6, <4>1, <4>3, <5>1
        <4>4. QED
          BY <3>4, <4>2, <4>3
      <3>11. ASSUME NEW t \in 1 .. trusted'
             PROVE  \E i \in 1 .. n + 1 : devices'[i].trustIndex = t
        <4>1. CASE t \in 1 .. trusted
          <5>1. PICK i \in 1 .. n : devices[i].trustIndex = t
            BY <2>1, <3>4, <4>1 DEF DevicesInv
          <5>2. QED
            BY <3>4, <3>6, <5>1
        <4>2. CASE t \notin 1 .. trusted
          <5>1. t = trusted + 1 /\ new.trust
            BY <3>1, <3>7, <4>2
          <5>2. n + 1 \in 1 .. n + 1 /\ dev.trustIndex = t
            BY <3>3, <3>4, <5>1
          <5>3. QED
            BY <3>6, <5>2
        <4>3. QED
          BY <4>1, <4>2
      <3>12. QED
        BY <2>4, <3>6, <3>7, <3>8, <3>9, <3>10, <3>11 DEF DevicesInv
    <2>3. CASE ~(new # AhciDriver!Unidentified /\ ~mayFail)
      <3>1. UNCHANGED << devices, active, trusted >>
        BY <1>1, <2>3
      <3>2. \A i \in 1 .. Len(devices) : devices[i].index \in 1 .. Len(disks')
        BY <2>4, <2>5
      <3>3. QED
        BY <2>1, <2>4, <2>5, <3>1, <3>2 DEF DevicesInv
    <2>6. QED
      BY <2>2, <2>3
  <1>4. QED
    BY <1>2, <1>3, OtherAnswered

(* A read of blocks starts with nothing read, or answers.                   *)
LEMMA ReadBegun ==
  ASSUME AhciConstants, AhciInv, AhciDriver!AhciBlockIoReadBlocks
  PROVE  AhciInv'
  <1> DEFINE Found(r)  == AhciDriver!SearchDeviceByIndex(r.index)
             Answer(r) == IF r.index = 0 \/ r.index > active THEN "INVALID_PARAMETER"
                          ELSE IF Found(r) = 0 THEN "NOT_FOUND"
                          ELSE AhciDriver!ReadAnswer(r, devices[Found(r)])
  <1>1. PICK r \in AhciReads :
          ahciCall' = IF Answer(r) # ""
            THEN AhciDriver!Returned("ReadBlocks", r, Answer(r), Found(r))
            ELSE [is |-> "running", fn |-> "AccessAtaDevice", arguments |-> r,
                  device |-> Found(r), lba |-> r.lba, offset |-> 0,
                  left |-> r.size \div devices[Found(r)].blockSize]
    BY DEF AhciDriver!AhciBlockIoReadBlocks
  <1>2. commands' = << >> /\ UNCHANGED << devices, active, trusted, disks >>
    BY DEF AhciDriver!AhciBlockIoReadBlocks, AhciDriver!Begin
  <1>3. DevicesInv /\ DevicesInv'
    BY <1>2, DevicesKept DEF AhciInv
  <1>4. commands' \in Seq({}) /\ AhciDriver!RegionsFit'
    <2>1. << >> \in Seq({}) /\ DOMAIN << >> = {}
      OBVIOUS
    <2>2. QED
      BY <1>2, <2>1 DEF AhciDriver!RegionsFit
  <1>5. r.lba \in Nat /\ r.size \in Nat
    BY DEF AhciConstants
  <1>6. PICK found, says : found = Found(r) /\ says = Answer(r)
    OBVIOUS
  <1>7. CASE says # ""
    <2>1. ahciCall' = AhciDriver!Returned("ReadBlocks", r, says, found)
      BY <1>1, <1>6, <1>7
    <2>2. says = "SUCCESS" => r.size = 0
      BY <1>6 DEF AhciDriver!ReadAnswer
    <2>3. CallInv'
      BY <1>5, <2>1, <2>2
      DEF CallInv, AhciDriver!Returned, AhciDriver!ReadsWhatWasAsked, AhciDriver!HasRead, AhciDriver!PortsEnumerated
    <2>4. QED
      BY <1>3, <1>4, <2>3 DEF AhciInv
  <1>8. CASE says = ""
    <2>1. found # 0 /\ AhciDriver!ReadAnswer(r, devices[found]) = ""
      BY <1>6, <1>8
    <2>2. found \in 1 .. Len(devices)
      <3> DEFINE places == { i \in DOMAIN devices : devices[i].index = r.index }
      <3>1. places \subseteq DOMAIN devices /\ found = AhciDriver!First(places)
        BY <1>6 DEF AhciDriver!SearchDeviceByIndex
      <3> HIDE DEF places
      <3>2. QED
        BY <1>3, <2>1, <3>1, NumberFound
    <2>3. PICK dev, size, last, total, rest :
            /\ dev = devices[found] /\ size = dev.blockSize /\ last = dev.lastBlock
            /\ total = r.size \div size /\ rest = r.size % size
      OBVIOUS
    <2>4. size \in Nat \ {0} /\ last \in Nat
      BY <1>3, <2>2, <2>3 DEF DevicesInv, DeviceFits
    <2>5. /\ r.size # 0 /\ rest = 0
          /\ ~(r.lba > last) /\ ~(total - 1 > last - r.lba)
      <3>1. AhciDriver!ReadAnswer(r, dev) = ""
        BY <2>1, <2>3
      <3>2. ~(~r.buffer)
        BY <3>1 DEF AhciDriver!ReadAnswer
      <3>3. r.size # 0
        BY <3>1, <3>2 DEF AhciDriver!ReadAnswer
      <3>4. rest = 0
        BY <2>3, <3>1, <3>2 DEF AhciDriver!ReadAnswer
      <3>5. r.size > 0
        BY <1>5, <3>3
      <3>6. ~(r.lba > last \/ total - 1 > last - r.lba)
        BY <2>3, <3>1, <3>2, <3>4, <3>5 DEF AhciDriver!ReadAnswer
      <3>7. QED
        BY <3>3, <3>4, <3>6
    <2>6. total \in Nat /\ r.size = size * total + rest
      BY <1>5, <2>3, <2>4, ShiftedRight
    <2>7. total * size = r.size /\ 0 < total /\ r.lba + total - 1 <= last /\ 0 * size = 0
      <3>1. size * total = total * size /\ 0 * size = 0 /\ size * 0 = 0
        BY <2>4, <2>6
      <3>2. total # 0
        BY <2>5, <2>6, <3>1
      <3>3. QED
        BY <1>5, <2>4, <2>5, <2>6, <3>1, <3>2
    <2>8. AhciDriver!Transferred(commands', dev, r.lba, r.lba + 0)
      BY <1>2, <1>5, NothingSent
    <2>9. /\ devices'[found] = dev
          /\ ahciCall' = [is |-> "running", fn |-> "AccessAtaDevice", arguments |-> r,
                          device |-> found, lba |-> r.lba + 0, offset |-> 0 * size,
                          left |-> total - 0]
      <3>1. r.lba + 0 = r.lba /\ 0 * size = 0 /\ total - 0 = total
        BY <1>5, <2>6, <2>7
      <3>2. QED
        BY <1>1, <1>2, <1>6, <1>8, <2>3, <3>1
    <2>10. Reading(r, found, 0)'
      BY <2>3, <2>7, <2>8, <2>9 DEF Reading
    <2>11. found \in 1 .. Len(devices')
      BY <1>2, <2>2
    <2>12. CallInv'
      BY <2>10, <2>11 DEF CallInv
    <2>13. QED
      BY <1>3, <1>4, <2>12 DEF AhciInv
  <1>9. QED
    BY <1>7, <1>8

(* One round reads the blocks behind those that were read.                  *)
LEMMA RoundRead ==
  ASSUME AhciConstants, AhciInv, AhciDriver!AccessAtaDevice
  PROVE  AhciInv'
  <1>1. /\ ahciCall.is = "running" /\ ahciCall.fn = "AccessAtaDevice"
        /\ UNCHANGED << devices, active, trusted, disks >>
    BY DEF AhciDriver!AccessAtaDevice, AhciDriver!State
  <1>2. DevicesInv /\ DevicesInv'
    BY <1>1, DevicesKept DEF AhciInv
  <1>3. PICK r \in AhciReads, d \in 1 .. Len(devices), n \in Nat : Reading(r, d, n)
    <2>1. ~\E polls, answered : Waiting(polls, answered)
      BY <1>1 DEF Waiting
    <2>2. QED
      BY <1>1, <2>1 DEF AhciInv, CallInv
  <1>4. PICK dev, size, total, most :
          /\ dev = devices[d] /\ size = dev.blockSize /\ total = r.size \div size
          /\ most = MostBlocks(dev.lba48)
    OBVIOUS
  <1>5. /\ r.lba \in Nat /\ r.size \in Nat /\ DeviceFits(dev)
        /\ size \in Nat \ {0} /\ most \in Nat \ {0} /\ total \in Nat
        /\ dev.lba48 \in BOOLEAN /\ dev.lastBlock \in Nat
    <2>1. r.lba \in Nat /\ r.size \in Nat
      BY DEF AhciConstants
    <2>2. DeviceFits(dev)
      BY <1>2, <1>4 DEF DevicesInv
    <2>3. most \in Nat \ {0}
      BY <1>4, MostPositive
    <2>4. size \in Nat \ {0}
      BY <1>4, <2>2 DEF DeviceFits
    <2>5. total \in Nat
      BY <1>4, <2>1, <2>4, ShiftedRight
    <2>6. QED
      BY <2>1, <2>2, <2>3, <2>4, <2>5 DEF DeviceFits
  <1>6. /\ ahciCall = [is |-> "running", fn |-> "AccessAtaDevice", arguments |-> r, device |-> d,
                       lba |-> r.lba + n, offset |-> n * size, left |-> total - n]
        /\ n < total /\ total * size = r.size /\ r.lba + total - 1 <= dev.lastBlock
        /\ r.lba + total <= AhciDriver!Reach(dev.lba48) =>
             AhciDriver!Transferred(commands, dev, r.lba, r.lba + n)
    BY <1>3, <1>4 DEF Reading
  <1>7. PICK lba, count, offset, left :
          /\ lba = r.lba + n /\ offset = n * size /\ left = total - n
          /\ count = AhciDriver!MinOf(left, most)
    OBVIOUS
  <1>8. /\ count \in Nat \ {0} /\ count <= most /\ count <= left
        /\ lba \in Nat /\ lba - r.lba = n
        /\ r.lba + total <= AhciDriver!Reach(dev.lba48) => lba < AhciDriver!Reach(dev.lba48)
    <2>1. PICK reach : reach = AhciDriver!Reach(dev.lba48)
      OBVIOUS
    <2>2. reach \in Int
      <3>1. Byte \in Nat /\ Half \in Nat
        BY DEF AhciConstants
      <3>2. QED
        BY <2>1, <3>1 DEF AhciDriver!Reach
    <2>3. left \in Nat \ {0}
      BY <1>5, <1>6, <1>7
    <2>4. count \in Nat \ {0} /\ count <= most /\ count <= left
      <3>1. count = left \/ count = most
        BY <1>7 DEF AhciDriver!MinOf
      <3>2. count = left <=> left <= most \/ left = most
        BY <1>5, <1>7, <2>3 DEF AhciDriver!MinOf
      <3>3. QED
        BY <1>5, <2>3, <3>1, <3>2
    <2>5. lba \in Nat /\ lba - r.lba = n
      <3>1. lba = r.lba + n
        BY <1>7
      <3>2. QED
        BY ONLY <1>3, <1>5, <3>1
    <2>6. r.lba + total <= reach => lba < reach
      <3>1. r.lba \in Nat /\ total \in Nat
        BY <1>5
      <3>2. lba = r.lba + n /\ n < total
        BY <1>6, <1>7
      <3>3. QED
        BY ONLY <1>3, <2>2, <3>1, <3>2
    <2>7. QED
      BY <2>1, <2>4, <2>5, <2>6
  <1>9. /\ ahciCall.arguments = r /\ ahciCall.device = d /\ ahciCall.lba = lba
        /\ ahciCall.offset = offset /\ ahciCall.left = left
    BY <1>6, <1>7
  <1>10. PICK out : out = AhciDriver!TransferAtaDevice(dev, r.aligned, lba, count)
    OBVIOUS
  <1>11. PICK command :
           command = [taskFile |-> AhciDriver!BlockCommand(dev.lba48, lba, count),
                      regions |-> out.regions, length |-> out.length, offset |-> offset]
    OBVIOUS
  <1>12. PICK status \in AhciDriver!Statuses(out) :
         /\ commands' = IF out.sent THEN Append(commands, command) ELSE commands
         /\ ahciCall' = IF status # "SUCCESS" \/ left = count
              THEN AhciDriver!Returned("ReadBlocks", r, status, d)
              ELSE [ahciCall EXCEPT !.left = @ - count, !.lba = @ + count,
                                    !.offset = @ + count * size]
    BY <1>4, <1>7, <1>9, <1>10, <1>11, Zenon DEF AhciDriver!AccessAtaDevice, MostBlocks
  <1>13. PICK S : commands \in Seq(S)
    BY DEF AhciInv
  <1>14. Accounted(out)
    <2>1. out = AhciDriver!AhciAtaPassThruPassThru(dev.port, dev.multiplier,
                  AhciDriver!Packet("PIO_DATA_IN", count, 0, FALSE, r.aligned, 1))
      BY <1>10 DEF AhciDriver!TransferAtaDevice
    <2>2. count \in Nat /\ 0 \in Nat
      BY <1>8
    <2>3. QED
      BY ONLY AhciConstants, <1>2, <2>1, <2>2, PacketAccounted
  <1>15. (\E T : commands' \in Seq(T)) /\ AhciDriver!RegionsFit'
    <2>1. CASE out.sent
      <3>1. commands \in Seq(S \cup {command})
        <4>1. Seq(S) \subseteq Seq(S \cup {command})
          OBVIOUS
        <4>2. QED
          BY <1>13, <4>1
      <3>2. commands' = Append(commands, command)
        BY <1>12, <2>1
      <3>3. commands' \in Seq(S \cup {command})
        BY <3>1, <3>2
      <3>4. ASSUME NEW i \in DOMAIN commands'
            PROVE  commands'[i].regions = AhciDriver!Unbuilt =>
                     AhciDriver!RoundedDown(commands'[i].length)
        <4>1. CASE i \in DOMAIN commands
          BY <1>13, <3>2, <4>1 DEF AhciInv, AhciDriver!RegionsFit
        <4>2. CASE i \notin DOMAIN commands
          <5>1. commands'[i] = command
            BY <1>13, <3>2, <4>2
          <5>2. command.regions = out.regions /\ command.length = out.length
            BY <1>11
          <5>3. QED
            BY <1>14, <2>1, <5>1, <5>2 DEF Accounted
        <4>3. QED
          BY <4>1, <4>2
      <3>5. QED
        BY <3>3, <3>4 DEF AhciDriver!RegionsFit
    <2>2. CASE ~out.sent
      <3>1. commands' = commands
        BY <1>12, <2>2
      <3>2. QED
        BY <1>13, <3>1 DEF AhciInv, AhciDriver!RegionsFit
    <2>3. QED
      BY <2>1, <2>2
  <1>16. CASE status # "SUCCESS"
    <2>1. ahciCall' = AhciDriver!Returned("ReadBlocks", r, status, d)
      BY <1>12, <1>16
    <2>2. CallInv'
      BY <1>16, <2>1
      DEF CallInv, AhciDriver!Returned, AhciDriver!ReadsWhatWasAsked, AhciDriver!HasRead, AhciDriver!PortsEnumerated
    <2>3. QED
      BY <1>2, <1>15, <2>2 DEF AhciInv
  <1>17. CASE status = "SUCCESS"
    <2> DEFINE fits == r.lba + total <= AhciDriver!Reach(dev.lba48)
    <2>1. /\ out.sent /\ out.regions = AhciDriver!AhciBuildCommand(count * size)
          /\ count * size \in Nat
          /\ \/ count * size <= AHCI_MAX_PRDT_NUMBER * AHCI_MAX_DATA_PER_PRDT
             \/ AhciDriver!RoundedDown(count * size)
      <3> out.status = "SUCCESS"
        BY <1>17 DEF AhciDriver!Statuses
      <3>1. AhciDriver!TransferAtaDevice(devices[d], r.aligned, lba, count).status = "SUCCESS"
        BY <1>4, <1>10
      <3>2. count \in Nat \ {0} /\ count <= MostBlocks(devices[d].lba48)
        BY <1>4, <1>8
      <3>3. LET outcome == AhciDriver!TransferAtaDevice(devices[d], r.aligned, lba, count)
                length  == count * devices[d].blockSize
            IN  /\ outcome.sent /\ outcome.regions = AhciDriver!AhciBuildCommand(length)
                /\ length \in Nat
                /\ \/ length <= AHCI_MAX_PRDT_NUMBER * AHCI_MAX_DATA_PER_PRDT
                   \/ AhciDriver!RoundedDown(length)
        BY ONLY AhciConstants, <1>2, <1>3, <3>1, <3>2, BlocksPassed
      <3>4. QED
        BY <1>4, <1>10, <3>3
    <2>2. /\ command.taskFile = AhciDriver!BlockCommand(dev.lba48, lba, count)
          /\ command.regions = out.regions /\ command.offset = offset
      BY <1>11
    <2>3. fits => /\ AhciDriver!AddressOf(command.taskFile, dev.lba48) = lba
                  /\ command.taskFile.head < Half
      BY <1>5, <1>8, <2>2, AddressRead
    <2>4. AhciDriver!CountOf(command.taskFile, dev.lba48) = count
      <3>1. count <= MostBlocks(dev.lba48)
        BY <1>4, <1>8
      <3>2. QED
        BY <1>5, <1>8, <2>2, <3>1, CountRead
    <2>5. AhciDriver!RoundedDown(count * size) \/ AhciDriver!Cover(command.regions, count * size)
      BY <2>1, <2>2, RegionsBuilt
    <2>6. command.offset = (lba - r.lba) * size
      BY <1>7, <1>8, <2>2
    <2>7. fits => AhciDriver!Transferred(Append(commands, command), dev, r.lba, lba + count)
      <3> SUFFICES ASSUME fits
                   PROVE  AhciDriver!Transferred(Append(commands, command), dev, r.lba, lba + count)
        OBVIOUS
      <3>1. AhciDriver!Transferred(commands, dev, r.lba, lba)
        BY <1>6, <1>7
      <3>2. command.offset = (lba - r.lba) * dev.blockSize
        BY <1>4, <2>6
      <3>3. \/ AhciDriver!RoundedDown(count * dev.blockSize)
            \/ AhciDriver!Cover(command.regions, count * dev.blockSize)
        BY <1>4, <2>5
      <3>4. command \in {command} /\ count \in Nat
        BY <1>8
      <3>5. QED
        BY <1>5, <1>8, <1>13, <2>3, <2>4, <3>1, <3>2, <3>3, <3>4, TransferredMore
    <2>8. commands' = Append(commands, command) /\ devices' = devices
      BY <1>1, <1>12, <2>1
    <2>9. CASE left = count
      <3>1. ahciCall' = AhciDriver!Returned("ReadBlocks", r, "SUCCESS", d)
        BY <1>12, <1>17, <2>9
      <3>2. lba + count = r.lba + total
        <4>1. lba = r.lba + n /\ count = total - n
          BY <1>7, <2>9
        <4>2. r.lba \in Nat /\ total \in Nat
          BY <1>5
        <4>3. QED
          BY ONLY <1>3, <4>1, <4>2
      <3>3. /\ fits => AhciDriver!Transferred(commands', devices'[d], r.lba,
                                      r.lba + (r.size \div devices'[d].blockSize))
            /\ devices'[d] = dev /\ r.size \div devices'[d].blockSize = total
            /\ (r.size \div devices'[d].blockSize) * devices'[d].blockSize = r.size
        BY <1>4, <1>6, <2>7, <2>8, <3>2
      <3>4. AhciDriver!ReadsWhatWasAsked'
        BY <3>1, <3>3
        DEF AhciDriver!Returned, AhciDriver!ReadsWhatWasAsked, AhciDriver!HasRead,
            AhciDriver!ReadExactly
      <3>5. AhciDriver!PortsEnumerated'
        BY <3>1 DEF AhciDriver!Returned, AhciDriver!PortsEnumerated
      <3>6. CallInv'
        BY <3>1, <3>4, <3>5 DEF CallInv, AhciDriver!Returned
      <3>7. QED
        BY <1>2, <1>15, <3>6 DEF AhciInv
    <2>10. CASE left # count
      <3>1. PICK m \in Nat : m = n + count
        BY <1>8
      <3>2. /\ m < total /\ left - count = total - m /\ lba + count = r.lba + m
            /\ offset + count * size = m * size
        <4>1. m < total /\ left - count = total - m /\ lba + count = r.lba + m
          <5>1. left = total - n /\ lba = r.lba + n
            BY <1>7
          <5>2. /\ count \in Nat \ {0} /\ count <= left /\ left # count
                /\ total \in Nat /\ r.lba \in Nat
            BY <1>5, <1>8, <2>10
          <5>3. QED
            BY ONLY <1>3, <3>1, <5>1, <5>2
        <4>2. n * size + count * size = (n + count) * size
          BY <1>5, <1>8
        <4>3. QED
          BY <1>7, <3>1, <4>1, <4>2
      <3>3. ahciCall' = [is |-> "running", fn |-> "AccessAtaDevice", arguments |-> r,
                         device |-> d, lba |-> r.lba + m, offset |-> m * size,
                         left |-> total - m]
        <4>1. ahciCall' = [ahciCall EXCEPT !.left = left - count, !.lba = lba + count,
                                           !.offset = offset + count * size]
          BY <1>9, <1>12, <1>17, <2>10, Zenon
        <4>2. PICK a, b, c : /\ a = left - count /\ b = lba + count
                             /\ c = offset + count * size
          OBVIOUS
        <4>3. PICK old : old = [is |-> "running", fn |-> "AccessAtaDevice", arguments |-> r,
                                device |-> d, lba |-> lba, offset |-> offset, left |-> left]
          OBVIOUS
        <4>4. PICK once : once = [old EXCEPT !.left = a]
          OBVIOUS
        <4>5. PICK twice : twice = [once EXCEPT !.lba = b]
          OBVIOUS
        <4>6. once = [is |-> "running", fn |-> "AccessAtaDevice", arguments |-> r,
                      device |-> d, lba |-> lba, offset |-> offset, left |-> a]
          BY <4>3, <4>4
        <4>7. twice = [is |-> "running", fn |-> "AccessAtaDevice", arguments |-> r,
                       device |-> d, lba |-> b, offset |-> offset, left |-> a]
          BY <4>5, <4>6
        <4>8. [twice EXCEPT !.offset = c]
                = [is |-> "running", fn |-> "AccessAtaDevice", arguments |-> r,
                   device |-> d, lba |-> b, offset |-> c, left |-> a]
          BY <4>7
        <4>9. [old EXCEPT !.left = a, !.lba = b, !.offset = c] = [twice EXCEPT !.offset = c]
          <5>1. [old EXCEPT !.left = a, !.lba = b, !.offset = c]
                  = [[[old EXCEPT !.left = a] EXCEPT !.lba = b] EXCEPT !.offset = c]
            OBVIOUS
          <5>2. QED
            BY <4>4, <4>5, <5>1
        <4>10. ahciCall = old
          BY <1>6, <1>7, <4>3
        <4>11. QED
          BY <3>2, <4>1, <4>2, <4>8, <4>9, <4>10
      <3>4. fits => AhciDriver!Transferred(commands', dev, r.lba, r.lba + m)
        BY <2>7, <2>8, <3>2
      <3>5. devices'[d] = dev /\ d \in 1 .. Len(devices')
        BY <1>4, <2>8
      <3>6. Reading(r, d, m)'
        BY <1>4, <1>6, <3>2, <3>3, <3>4, <3>5 DEF Reading
      <3>7. CallInv'
        BY <3>1, <3>5, <3>6 DEF CallInv
      <3>8. QED
        BY <1>2, <1>15, <3>7 DEF AhciInv
    <2>11. QED
      BY <2>9, <2>10
  <1>18. QED
    BY <1>16, <1>17

(* What waits keeps waiting or answers.                                     *)
LEMMA Waited ==
  ASSUME AhciInv, AhciDriver!Wait
  PROVE  AhciInv'
  <1>1. /\ ahciCall.is = "running" /\ ahciCall.fn = "wait"
        /\ UNCHANGED << devices, active, trusted, disks, commands >>
    BY DEF AhciDriver!Wait, AhciDriver!State
  <1>2. PICK polls, answered : Waiting(polls, answered)
    <2>1. ~\E r \in AhciReads, d \in 1 .. Len(devices), n \in Nat : Reading(r, d, n)
      BY <1>1 DEF Reading
    <2>2. QED
      BY <1>1, <2>1 DEF AhciInv, CallInv
  <1>3. /\ ahciCall = [is |-> "running", fn |-> "wait", polls |-> polls, returns |-> answered]
        /\ answered.is = "returned" /\ answered.fn \notin {"ReadBlocks", "GetNextPort"}
    BY <1>2 DEF Waiting
  <1>4. ahciCall' \in {answered, ahciCall, [ahciCall EXCEPT !.polls = polls - 1]}
    <2>1. ahciCall.polls = polls /\ ahciCall.returns = answered
      BY <1>3
    <2>2. ahciCall' = CASE ahciCall.polls = 0 -> ahciCall.returns
                        [] ahciCall.polls = AhciDriver!Forever -> ahciCall
                        [] OTHER -> [ahciCall EXCEPT !.polls = ahciCall.polls - 1]
      BY DEF AhciDriver!Wait
    <2>3. PICK less : less = [ahciCall EXCEPT !.polls = ahciCall.polls - 1]
      OBVIOUS
    <2>4. ahciCall' = ahciCall.returns \/ ahciCall' = ahciCall \/ ahciCall' = less
      BY <2>2, <2>3
    <2>5. QED
      BY <2>1, <2>3, <2>4
  <1>5. CallInv'
    <2>1. CASE ahciCall' = answered
      BY <1>3, <2>1 DEF CallInv, AhciDriver!ReadsWhatWasAsked, AhciDriver!HasRead, AhciDriver!PortsEnumerated
    <2>2. CASE ahciCall' = ahciCall
      <3>1. Waiting(polls, answered)'
        BY <1>3, <2>2 DEF Waiting
      <3>2. QED
        BY <3>1 DEF CallInv
    <2>3. CASE ahciCall' = [ahciCall EXCEPT !.polls = polls - 1]
      <3>1. ahciCall' = [is |-> "running", fn |-> "wait", polls |-> polls - 1,
                         returns |-> answered]
        BY <1>3, <2>3
      <3>2. Waiting(polls - 1, answered)'
        BY <1>3, <3>1 DEF Waiting
      <3>3. QED
        BY <3>2 DEF CallInv
    <2>4. QED
      BY <1>4, <2>1, <2>2, <2>3
  <1>6. QED
    BY <1>1, <1>5, DevicesKept DEF AhciInv, AhciDriver!RegionsFit

(* A security command is sent with regions.                                 *)
LEMMA SecurityKept ==
  ASSUME AhciConstants, AhciInv, NEW fn \in {"ReceiveData", "SendData"}, NEW send,
         AhciDriver!AhciStorageSecurity(fn, send)
  PROVE  AhciInv'
  <1>1. UNCHANGED << devices, active, trusted, disks >>
    BY DEF AhciDriver!AhciStorageSecurity, AhciDriver!Begin
  <1>2. DevicesInv /\ DevicesInv'
    BY <1>1, DevicesKept DEF AhciInv
  <1> DEFINE Found(index) == AhciDriver!SearchTrustComputingDeviceByIndex(index)
             Answer(index, size) ==
               IF (~send /\ size = 0) \/ index = 0 \/ index > trusted THEN "INVALID_PARAMETER"
               ELSE IF Found(index) = 0 THEN "NOT_FOUND"
               ELSE IF ~devices[Found(index)].trust THEN "UNSUPPORTED"
               ELSE ""
  <1>3. PICK index \in 0 .. trusted + 1, size \in AhciPayloads, timeout \in Timeouts,
             aligned \in BOOLEAN, mayFail \in {FALSE, AllocationMayFail} :
          IF Answer(index, size) # ""
            THEN /\ ahciCall' = AhciDriver!Returned(fn, size, Answer(index, size), Found(index))
                 /\ commands' = << >>
            ELSE AhciDriver!SendOne(fn, size, AhciDriver!TrustCommand(size),
                   AhciDriver!TrustTransferAtaDevice(devices[Found(index)], size, send, aligned,
                                                     timeout, mayFail))
    BY ZenonT(60) DEF AhciDriver!AhciStorageSecurity
  <1> PICK says, found : says = Answer(index, size) /\ found = Found(index)
    OBVIOUS
  <1> HIDE DEF Answer, Found
  <1>4. CASE says # ""
    <2>1. ahciCall'.is = "returned" /\ ahciCall'.fn = fn /\ commands' = << >>
      <3>1. /\ ahciCall' = AhciDriver!Returned(fn, size, says, found)
            /\ commands' = << >>
        BY <1>3, <1>4
      <3>2. QED
        BY ONLY <3>1 DEF AhciDriver!Returned
    <2>2. QED
      BY <1>2, <2>1, OtherAnswered
  <1>5. CASE says = ""
    <2>1. PICK outcome, dev :
            /\ dev = devices[found]
            /\ outcome = AhciDriver!TrustTransferAtaDevice(dev, size, send, aligned, timeout,
                                                           mayFail)
      OBVIOUS
    <2>2. AhciDriver!SendOne(fn, size, AhciDriver!TrustCommand(size), outcome)
      BY <1>3, <1>5, <2>1
    <2>3. \/ outcome = AhciDriver!Refuses("OUT_OF_RESOURCES")
          \/ \E in, out \in Nat : \E protocol, any :
            outcome = AhciDriver!AhciAtaPassThruPassThru(dev.port, dev.multiplier,
                        AhciDriver!Packet(protocol, in, out, TRUE, any, timeout))
      <3>1. PICK short : short = size % AhciWord
        OBVIOUS
      <3>2. size \in Nat /\ AhciWord \in Nat \ {0}
        BY DEF AhciConstants
      <3>3. short \in Nat /\ 0 \in Nat
        BY <3>1, <3>2, ShiftedRight
      <3>4. \/ outcome = AhciDriver!Refuses("OUT_OF_RESOURCES")
            \/ outcome = AhciDriver!AhciAtaPassThruPassThru(dev.port, dev.multiplier,
                 AhciDriver!Packet("NON_DATA", 0, 0, TRUE, TRUE, timeout))
            \/ outcome = AhciDriver!AhciAtaPassThruPassThru(dev.port, dev.multiplier,
                 AhciDriver!Packet("PIO_DATA_OUT", 0, short, TRUE, TRUE, timeout))
            \/ outcome = AhciDriver!AhciAtaPassThruPassThru(dev.port, dev.multiplier,
                 AhciDriver!Packet("PIO_DATA_IN", short, 0, TRUE, aligned, timeout))
        BY <2>1, <3>1 DEF AhciDriver!TrustTransferAtaDevice
      <3>5. QED
        BY <3>3, <3>4
    <2>4. Accounted(outcome)
      <3>1. AhciDriver!Refuses("OUT_OF_RESOURCES").sent = FALSE
        BY DEF AhciDriver!Refuses
      <3>2. CASE outcome = AhciDriver!Refuses("OUT_OF_RESOURCES")
        BY <3>1, <3>2 DEF Accounted
      <3>3. CASE outcome # AhciDriver!Refuses("OUT_OF_RESOURCES")
        <4>1. PICK in, out \in Nat : \E protocol, any :
                outcome = AhciDriver!AhciAtaPassThruPassThru(dev.port, dev.multiplier,
                            AhciDriver!Packet(protocol, in, out, TRUE, any, timeout))
          BY <2>3, <3>3
        <4>2. QED
          BY <1>2, <4>1, PacketAccounted
      <3>4. QED
        BY <3>2, <3>3
    <2>5. fn \notin {"ReadBlocks", "GetNextPort"}
      OBVIOUS
    <2>6. QED
      BY <1>2, <2>2, <2>4, <2>5, OneSent
  <1>6. QED
    BY <1>4, <1>5

(* So is what a client passes through.                                      *)
LEMMA PassThruKept ==
  ASSUME AhciConstants, AhciInv, AhciDriver!PassThru
  PROVE  AhciInv'
  <1>1. PICK packet \in Packets, port \in Ports :
          AhciDriver!SendOne("PassThru", packet, AhciDriver!NoCommand,
            AhciDriver!AhciAtaPassThruPassThru(port, AhciDriver!None, packet))
    BY DEF AhciDriver!PassThru
  <1> PICK outcome : outcome = AhciDriver!AhciAtaPassThruPassThru(port, AhciDriver!None, packet)
    OBVIOUS
  <1>2. UNCHANGED << devices, active, trusted, disks >>
    BY DEF AhciDriver!PassThru, AhciDriver!Begin
  <1>3. DevicesInv /\ DevicesInv'
    BY <1>2, DevicesKept DEF AhciInv
  <1>4. PICK in, out \in Nat : \E protocol, bytes, aligned, timeout :
          packet = AhciDriver!Packet(protocol, in, out, bytes, aligned, timeout)
    BY DEF AhciConstants
  <1>5. Accounted(outcome)
    BY <1>3, <1>4, PacketAccounted
  <1>6. QED
    BY <1>1, <1>3, <1>5, OneSent

(* The port that is answered is the next one with a device.                 *)
LEMMA PortAnswered ==
  ASSUME AhciConstants, AhciInv, AhciDriver!AhciAtaPassThruGetNextPort
  PROVE  AhciInv'
  <1> DEFINE Behind(port) == { i \in DOMAIN devices : devices[i].port > port }
             Found(port)  == IF port = AhciDriver!None THEN AhciDriver!First(DOMAIN devices)
                             ELSE IF port = previousPort THEN AhciDriver!First(Behind(port)) ELSE 0
             Status(port) == IF Found(port) # 0 THEN "SUCCESS"
                             ELSE IF port \in {AhciDriver!None, previousPort} THEN "NOT_FOUND"
                             ELSE "INVALID_PARAMETER"
  <1>1. PICK port \in Ports \cup {AhciDriver!None} :
          ahciCall' = AhciDriver!Returned("GetNextPort", [port |-> port, previous |-> previousPort],
                        Status(port),
                        IF Found(port) = 0 THEN port ELSE devices[Found(port)].port)
    BY DEF AhciDriver!AhciAtaPassThruGetNextPort
  <1>2. commands' = << >> /\ UNCHANGED << devices, active, trusted, disks >>
    BY DEF AhciDriver!AhciAtaPassThruGetNextPort, AhciDriver!Begin
  <1>3. DevicesInv /\ DevicesInv'
    BY <1>2, DevicesKept DEF AhciInv
  <1>4. commands' \in Seq({}) /\ AhciDriver!RegionsFit'
    <2>1. << >> \in Seq({}) /\ DOMAIN << >> = {}
      OBVIOUS
    <2>2. QED
      BY <1>2, <2>1 DEF AhciDriver!RegionsFit
  <1>5. PICK found, status, from :
          /\ found = Found(port) /\ status = Status(port)
          /\ from = IF port = AhciDriver!None THEN -1 ELSE port
    OBVIOUS
  <1>6. \A i \in DOMAIN devices : devices[i].port \in Nat
    <2>1. DOMAIN devices = 1 .. Len(devices)
      BY <1>3 DEF DevicesInv
    <2>2. Ports \subseteq Nat
      <3>1. Ports \subseteq 0 .. AhciDriver!None - 1
        BY DEF AhciConstants
      <3>2. AhciDriver!None - 1 \in Int
        BY DEF AhciDriver!None
      <3>3. 0 .. AhciDriver!None - 1 \subseteq Nat
        BY ONLY <3>2
      <3>4. QED
        BY <3>1, <3>3
    <2>3. QED
      BY <1>3, <2>1, <2>2 DEF DevicesInv
  <1>7. ASSUME from \in {-1, previousPort}
        PROVE  /\ found = AhciDriver!First(Behind(from))
               /\ found = 0 => status = "NOT_FOUND"
               /\ found # 0 => status = "SUCCESS"
    <2>1. CASE port = AhciDriver!None
      <3>1. Behind(from) = DOMAIN devices
        BY <1>5, <1>6, <2>1
      <3> HIDE DEF Behind
      <3>2. QED
        BY <1>5, <2>1, <3>1
    <2>2. CASE port # AhciDriver!None
      <3>1. port \in Nat
        <4>1. Ports \subseteq 0 .. AhciDriver!None - 1
          BY DEF AhciConstants
        <4>2. AhciDriver!None - 1 \in Int
          BY DEF AhciDriver!None
        <4>3. port \in 0 .. AhciDriver!None - 1
          BY <2>2, <4>1
        <4>4. QED
          BY ONLY <4>2, <4>3
      <3>2. from = port /\ port = previousPort
        BY <1>5, <1>7, <2>2, <3>1
      <3> HIDE DEF Behind
      <3>3. QED
        BY <1>5, <2>2, <3>2
    <2>3. QED
      BY <2>1, <2>2
  <1>8. ahciCall' = AhciDriver!Returned("GetNextPort", [port |-> port, previous |-> previousPort],
                      status, IF found = 0 THEN port ELSE devices[found].port)
    BY <1>1, <1>5, Zenon
  <1>9. AhciDriver!PortsEnumerated'
    <2> DEFINE places == Behind(from)
               behind == { p \in { devices'[i].port : i \in DOMAIN devices' } : p > from }
    <2>1. SUFFICES ASSUME from \in {-1, previousPort}
                   PROVE  IF behind = {} THEN status = "NOT_FOUND"
                          ELSE /\ status = "SUCCESS"
                               /\ (IF found = 0 THEN port ELSE devices[found].port) \in behind
                               /\ \A p \in behind :
                                    (IF found = 0 THEN port ELSE devices[found].port) <= p
      <3>1. /\ ahciCall'.arguments.port = port /\ ahciCall'.arguments.previous = previousPort
            /\ ahciCall'.status = status
            /\ ahciCall'.value = IF found = 0 THEN port ELSE devices[found].port
        BY <1>8 DEF AhciDriver!Returned
      <3>2. from = IF ahciCall'.arguments.port = AhciDriver!None THEN -1
                   ELSE ahciCall'.arguments.port
        BY <1>5, <3>1
      <3>3. QED
        BY <2>1, <3>1, <3>2, Zenon DEF AhciDriver!PortsEnumerated
    <2>2. behind = { devices[i].port : i \in places }
      BY <1>2
    <2>3. places \subseteq DOMAIN devices /\ found = AhciDriver!First(places)
      BY <1>7, <2>1
    <2>4. CASE places = {}
      <3>1. behind = {} /\ found = 0
        <4> HIDE DEF places, behind
        <4>1. QED
          BY <1>3, <2>2, <2>3, <2>4, NumberFound
      <3>2. QED
        BY <1>7, <2>1, <3>1
    <2>5. CASE places # {}
      <3> HIDE DEF places, behind
      <3>1. found \in places /\ found \in 1 .. Len(devices) /\ \A i \in places : found <= i
        BY <1>3, <2>3, <2>5, NumberFound
      <3>2. found # 0 /\ devices[found].port \in behind
        BY <2>2, <3>1
      <3>3. ASSUME NEW p \in behind PROVE devices[found].port <= p
        <4>1. PICK i \in places : p = devices[i].port
          BY <2>2
        <4>2. DOMAIN devices = 1 .. Len(devices) /\ Len(devices) \in Nat
          BY <1>3 DEF DevicesInv
        <4>3. i \in 1 .. Len(devices) /\ found <= i
          BY <2>3, <3>1, <4>2
        <4>4. CASE found = i
          <5>1. devices[found].port \in Nat
            BY <1>6, <3>1, <4>2
          <5>2. QED
            BY <4>1, <4>4, <5>1
        <4>5. CASE found # i
          <5>1. found < i
            BY <3>1, <4>3, <4>5
          <5>2. devices[found].port < devices[i].port
            BY <1>3, <3>1, <4>3, <5>1 DEF DevicesInv
          <5>3. devices[found].port \in Nat /\ devices[i].port \in Nat
            BY <1>6, <3>1, <4>2, <4>3
          <5>4. QED
            BY <4>1, <5>2, <5>3
        <4>6. QED
          BY <4>4, <4>5
      <3>4. behind # {} /\ status = "SUCCESS"
        BY <1>7, <2>1, <3>2
      <3>5. QED
        BY <3>2, <3>3, <3>4
    <2>6. QED
      BY <2>4, <2>5
  <1>10. CallInv'
    <2>1. ahciCall'.is = "returned" /\ ahciCall'.fn = "GetNextPort"
      BY <1>8 DEF AhciDriver!Returned
    <2>2. QED
      BY <1>9, <2>1 DEF CallInv, AhciDriver!ReadsWhatWasAsked, AhciDriver!HasRead
  <1>11. QED
    BY <1>3, <1>4, <1>10 DEF AhciInv

LEMMA DeviceAnswered ==
  ASSUME AhciInv, AhciDriver!AhciAtaPassThruGetNextDevice
  PROVE  AhciInv'
  <1>1. /\ commands' = << >> /\ UNCHANGED << devices, active, trusted, disks >>
        /\ \E arguments, status, value :
             ahciCall' = AhciDriver!Returned("GetNextDevice", arguments, status, value)
    <2>1. commands' = << >> /\ AhciDriver!Begin
      BY Zenon DEF AhciDriver!AhciAtaPassThruGetNextDevice
    <2>2. \E arguments, status, value :
            ahciCall' = AhciDriver!Returned("GetNextDevice", arguments, status, value)
      BY Zenon DEF AhciDriver!AhciAtaPassThruGetNextDevice
    <2>3. QED
      BY <2>1, <2>2 DEF AhciDriver!Begin
  <1>2. ahciCall'.is = "returned" /\ ahciCall'.fn = "GetNextDevice"
    BY <1>1 DEF AhciDriver!Returned
  <1>3. DevicesInv'
    BY <1>1, DevicesKept DEF AhciInv
  <1>4. QED
    BY <1>1, <1>2, <1>3, OtherAnswered

LEMMA AhciStep ==
  ASSUME AhciConstants, AhciInv, [AhciDriver!Next]_(AhciDriver!vars)
  PROVE  AhciInv'
  <1>1. CASE AhciDriver!AhciModeInitialization
    <2>1. UNCHANGED << devices, active, trusted, disks, ahciCall, commands >>
      BY <1>1 DEF AhciDriver!AhciModeInitialization
    <2>2. QED
      BY <2>1, AhciStutter
  <1>2. CASE AhciDriver!CreateNewDevice
    BY <1>2, DeviceCreated
  <1>3. CASE AhciDriver!AhciBlockIoReadBlocks
    BY <1>3, ReadBegun
  <1>4. CASE AhciDriver!AccessAtaDevice
    BY <1>4, RoundRead
  <1>5. CASE AhciDriver!AhciStorageSecurityReceiveData
    <2>1. AhciDriver!AhciStorageSecurity("ReceiveData", FALSE)
      BY <1>5 DEF AhciDriver!AhciStorageSecurityReceiveData
    <2>2. QED
      BY <2>1, SecurityKept
  <1>6. CASE AhciDriver!AhciStorageSecuritySendData
    <2>1. AhciDriver!AhciStorageSecurity("SendData", TRUE)
      BY <1>6 DEF AhciDriver!AhciStorageSecuritySendData
    <2>2. QED
      BY <2>1, SecurityKept
  <1>7. CASE AhciDriver!PassThru
    BY <1>7, PassThruKept
  <1>8. CASE AhciDriver!Wait
    BY <1>8, Waited
  <1>9. CASE AhciDriver!AhciAtaPassThruGetNextPort
    BY <1>9, PortAnswered
  <1>10. CASE AhciDriver!AhciAtaPassThruGetNextDevice
    BY <1>10, DeviceAnswered
  <1>11. CASE UNCHANGED AhciDriver!vars
    <2>1. UNCHANGED << devices, active, trusted, disks, ahciCall, commands >>
      BY <1>11 DEF AhciDriver!vars
    <2>2. QED
      BY <2>1, AhciStutter
  <1>12. QED
    BY <1>1, <1>2, <1>3, <1>4, <1>5, <1>6, <1>7, <1>8, <1>9, <1>10, <1>11
    DEF AhciDriver!Next

LEMMA AhciInvExact ==
  ASSUME AhciInv
  PROVE  AhciExact
  <1>1. DevicesInv
    BY DEF AhciInv
  <1>2. PICK n \in Nat : n = Len(devices) /\ DOMAIN devices = 1 .. n /\ active = n
    BY <1>1 DEF DevicesInv
  <1>3. ASSUME NEW d \in DOMAIN devices PROVE AhciDriver!SearchDeviceByIndex(devices[d].index) = d
    <2> DEFINE places == { j \in DOMAIN devices : devices[j].index = devices[d].index }
    <2>1. d \in places /\ places \subseteq DOMAIN devices
      OBVIOUS
    <2>2. AhciDriver!SearchDeviceByIndex(devices[d].index) = AhciDriver!First(places)
      BY DEF AhciDriver!SearchDeviceByIndex
    <2>3. ASSUME NEW j \in places PROVE j = d
      <3>1. j \in 1 .. n /\ d \in 1 .. n /\ devices[j].index = devices[d].index
        BY <1>2
      <3>2. devices[d].index \in Int
        BY <1>1, <1>2 DEF DevicesInv
      <3>3. (j < d => devices[j].index < devices[d].index)
            /\ (d < j => devices[d].index < devices[j].index)
        BY <1>1, <1>2, <3>1 DEF DevicesInv
      <3>4. QED
        BY <3>1, <3>2, <3>3
    <2> HIDE DEF places
    <2>4. AhciDriver!First(places) \in places
      BY <1>1, <2>1, NumberFound
    <2>5. QED
      BY <2>2, <2>3, <2>4
  <1>4. ASSUME NEW t \in 1 .. trusted
        PROVE  /\ AhciDriver!SearchTrustComputingDeviceByIndex(t) # 0
               /\ devices[AhciDriver!SearchTrustComputingDeviceByIndex(t)].trust
    <2> DEFINE places == { j \in DOMAIN devices : devices[j].trustIndex = t }
    <2>1. places # {} /\ places \subseteq DOMAIN devices
      <3>1. \E j \in 1 .. Len(devices) : devices[j].trustIndex = t
        BY <1>1 DEF DevicesInv
      <3>2. QED
        BY <1>2, <3>1
    <2>2. \A j \in places : devices[j].trust
      <3>1. trusted \in Nat
        BY <1>1 DEF DevicesInv
      <3>2. t > 0
        BY <3>1
      <3>3. QED
        BY <1>1, <1>2, <3>2 DEF DevicesInv
    <2>3. AhciDriver!SearchTrustComputingDeviceByIndex(t) = AhciDriver!First(places)
      BY DEF AhciDriver!SearchTrustComputingDeviceByIndex
    <2> HIDE DEF places
    <2>4. QED
      BY <1>1, <2>1, <2>2, <2>3, NumberFound
  <1>5. AhciDriver!NumbersUnique
    BY <1>2, <1>3, <1>4 DEF AhciDriver!NumbersUnique
  <1>6. AhciDriver!ReadsWhatWasAsked /\ AhciDriver!PortsEnumerated
    <2>1. CASE ahciCall.is = "returned"
      <3>1. /\ ~\E polls, answered : Waiting(polls, answered)
            /\ ~\E r \in AhciReads, d \in 1 .. Len(devices), k \in Nat : Reading(r, d, k)
        BY <2>1 DEF Waiting, Reading
      <3>2. QED
        BY <3>1 DEF AhciInv, CallInv
    <2>2. CASE ahciCall.is # "returned"
      BY <2>2 DEF AhciDriver!ReadsWhatWasAsked, AhciDriver!HasRead, AhciDriver!PortsEnumerated
    <2>3. QED
      BY <2>1, <2>2
  <1>7. QED
    BY <1>5, <1>6 DEF AhciInv, AhciExact, AhciDriver!AhciExact

LEMMA AhciInit ==
  ASSUME AhciDriver!Init
  PROVE  AhciInv
  <1>1. /\ devices = << >> /\ disks = << >> /\ active = 0 /\ trusted = 0 /\ commands = << >>
        /\ ahciCall = AhciDriver!NoCall
    BY DEF AhciDriver!Init
  <1>2. << >> \in Seq({}) /\ << >> \in Seq(Ports) /\ Len(<< >>) = 0 /\ DOMAIN << >> = {}
    OBVIOUS
  <1>3. 1 .. 0 = {}
    OBVIOUS
  <1>4. DevicesInv
    BY <1>1, <1>2, <1>3 DEF DevicesInv
  <1>5. AhciDriver!RegionsFit
    BY <1>1, <1>2 DEF AhciDriver!RegionsFit
  <1>6. ahciCall.is = "returned" /\ ahciCall.fn = "none"
    BY <1>1 DEF AhciDriver!NoCall, AhciDriver!Returned
  <1>7. CallInv
    BY <1>6 DEF CallInv, AhciDriver!ReadsWhatWasAsked, AhciDriver!HasRead, AhciDriver!PortsEnumerated
  <1>8. QED
    BY <1>1, <1>2, <1>4, <1>5, <1>7 DEF AhciInv

(* Whatever disks say of themselves, the AHCI driver reads exactly the      *)
(* blocks it was asked for, where an address can name them, and into the    *)
(* buffer it was given, cut into however many commands; an enumeration      *)
(* passes no port over, no two devices have a number in common, and the     *)
(* regions of every command fit, but for the lengths that are rounded down  *)
(* (AhciPeiBlockIo.c, AhciMode.c, AhciPeiPassThru.c).                       *)
THEOREM AhciCorrect ==
  ASSUME AhciConstants
  PROVE  AhciDriver!Spec => []AhciExact
  <1>1. AhciDriver!Init => AhciInv
    BY AhciInit
  <1>2. AhciInv /\ [AhciDriver!Next]_(AhciDriver!vars) => AhciInv'
    BY AhciStep
  <1>3. AhciInv => AhciExact
    BY AhciInvExact
  <1>4. QED
    BY <1>1, <1>2, <1>3, PTL DEF AhciDriver!Spec
=============================================================================
