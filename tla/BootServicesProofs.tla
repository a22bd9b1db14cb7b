-------------------------- MODULE BootServicesProofs --------------------------
(* Proofs of the safety properties of BootServices: the refinement of the   *)
(* database and names that are hidden, then the Multiple services and, with  *)
(* what they say about the calls of a stack, exclusive access.               *)
EXTENDS BootServices, HandleDatabaseProofs

Pcs == { "enter", "scan", "disconnecting", "purged", "denied", "reconnected",
         "children", "stopping", "drivers", "uninstalled", "rollback" }

Pairs   == Protocols \X Interfaces
Triples == Handles \X Protocols \X Interfaces
Records == Prots \X OpenProtocolData

FrameFields ==
  [ op : Functions, pc : Pcs,
    handle : Handles \cup {NULL}, protocol : Protocols \cup {NULL},
    interface : Interfaces \cup {NULL}, new : Interfaces \cup {NULL},
    prot : Prots \cup {NULL}, agent : Handles \cup {NULL},
    controller : Handles \cup {NULL}, attributes : OpenModes \cup {{}},
    todo : SUBSET (Handles \cup {NULL} \cup Records),
    args : Seq(Pairs), done : Seq(Pairs), status : Statuses,
    before : SUBSET Triples ]

(* A call that has looked an interface up and not yet let go of it.        *)
Holds(f) ==
  f.op \in Uninstalls \cup {"Open"} /\ f.pc \in {"scan", "disconnecting", "purged"}

WellFormed(f) ==
  /\ f.op \in Uninstalls =>
       f.handle \in Handles /\ f.protocol \in Protocols /\ f.interface \in Interfaces
  /\ f.op = "Reinstall" => f.new \in Interfaces
  /\ f.op = "Open" => f.attributes \in OpenModes /\ Exclusive \in f.attributes
  /\ f.op \in {"Disconnect", "Start", "Stop"} => f.agent \in Handles
  /\ f.op = "Connect" /\ f.pc = "drivers" => f.todo \subseteq Handles
  /\ f.op = "Connect" /\ f.pc = "children" => f.todo \subseteq Records
  /\ f.op = "UninstallMultiple" =>
       f.handle \in Handles /\ (f.pc = "uninstalled" => f.args # << >>)
  /\ f.op = "InstallMultiple" /\ f.done # << >> => f.handle \in Handles

Frames == { f \in FrameFields : WellFormed(f) }

(* What a call holds is still there, on the handle and of the GUID it was  *)
(* found under.                                                            *)
AnchoredIn(f, memory) ==
  Holds(f) => /\ f.prot \in Prots
              /\ memory[f.prot] \in ProtocolInterface
              /\ memory[f.prot].handle = f.handle
              /\ memory[f.prot].protocol = f.protocol

Names(f, h, g) == f.handle = h /\ f.protocol = g

(* A call f never removes what a call below it on the stack holds.         *)
Spares(f, below) ==
  Holds(below) =>
    /\ f.op = "Uninstall" /\ Holds(f) => ~Names(below, f.handle, f.protocol)
    /\ f.op = "UninstallMultiple" =>
         \A n \in DOMAIN f.args : ~Names(below, f.handle, f.args[n][1])
    /\ f.op = "InstallMultiple" =>
         \A n \in DOMAIN f.done : ~Names(below, f.handle, f.done[n][1])

StackInv ==
  /\ stack \in Seq(Frames)
  /\ \A k \in DOMAIN stack : AnchoredIn(stack[k], prot)
  /\ \A k, j \in DOMAIN stack : k < j => Spares(stack[k], stack[j])
  /\ \A k \in DOMAIN stack :
       k > 1 /\ stack[k].op = "Uninstall" => stack[k].pc # "enter"
  /\ At({"Uninstall"}, "enter") =>
       \A k \in DOMAIN stack : k > 1 /\ Holds(stack[k]) =>
         stack[k].prot \notin Find(Top.handle, Top.protocol, Top.interface)
-----------------------------------------------------------------------------
(* What the four ways to move the stack do to its positions.               *)

LEMMA Pushed ==
  ASSUME NEW S, NEW s \in Seq(S), NEW f \in S
  PROVE  /\ << f >> \o s \in Seq(S)
         /\ Len(<< f >> \o s) = Len(s) + 1
         /\ (<< f >> \o s)[1] = f
         /\ \A k \in 2 .. Len(s) + 1 : (<< f >> \o s)[k] = s[k - 1]
  OBVIOUS

LEMMA Replaced ==
  ASSUME NEW S, NEW s \in Seq(S), s # << >>, NEW f \in S
  PROVE  /\ << f >> \o Tail(s) \in Seq(S)
         /\ Len(<< f >> \o Tail(s)) = Len(s)
         /\ (<< f >> \o Tail(s))[1] = f
         /\ \A k \in 2 .. Len(s) : (<< f >> \o Tail(s))[k] = s[k]
  OBVIOUS

LEMMA Called ==
  ASSUME NEW S, NEW s \in Seq(S), s # << >>, NEW f \in S, NEW me \in S
  PROVE  /\ << f, me >> \o Tail(s) \in Seq(S)
         /\ Len(<< f, me >> \o Tail(s)) = Len(s) + 1
         /\ (<< f, me >> \o Tail(s))[1] = f
         /\ (<< f, me >> \o Tail(s))[2] = me
         /\ \A k \in 3 .. Len(s) + 1 : (<< f, me >> \o Tail(s))[k] = s[k - 1]
  OBVIOUS

LEMMA Popped ==
  ASSUME NEW S, NEW s \in Seq(S), s # << >>
  PROVE  /\ Tail(s) \in Seq(S)
         /\ Len(Tail(s)) = Len(s) - 1
         /\ \A k \in 1 .. Len(s) - 1 : Tail(s)[k] = s[k + 1]
  OBVIOUS

LEMMA GotoFrame ==
  ASSUME NEW f \in Frames, NEW pc \in Pcs, f.op # "Connect", pc # "uninstalled",
         NEW g, g = [f EXCEPT !.pc = pc]
  PROVE  /\ g \in Frames
         /\ g.op = f.op /\ g.pc = pc /\ g.handle = f.handle /\ g.protocol = f.protocol /\ g.prot = f.prot
         /\ g.args = f.args /\ g.done = f.done
  BY Zenon DEF Frames, FrameFields, WellFormed

LEMMA AnswerInv ==
  ASSUME StackInv, stack' = stack, ~At({"Uninstall"}, "enter"),
         \A k \in DOMAIN stack : AnchoredIn(stack[k], prot')
  PROVE  StackInv'
  BY DEF StackInv, At, Idle, Top

LEMMA BecomeInv ==
  ASSUME StackInv, ~Idle, NEW f \in Frames, Become(f),
         ~(f.op = "Uninstall" /\ f.pc = "enter"),
         AnchoredIn(f, prot'),
         \A k \in 2 .. Len(stack) : AnchoredIn(stack[k], prot'),
         \A k \in 2 .. Len(stack) : Spares(f, stack[k])
  PROVE  StackInv'
  <1>1. stack \in Seq(Frames) /\ stack # << >>
    BY DEF StackInv, Idle
  <1>2. /\ stack' \in Seq(Frames)
        /\ Len(stack') = Len(stack)
        /\ stack'[1] = f
        /\ \A k \in 2 .. Len(stack) : stack'[k] = stack[k]
    BY <1>1, Replaced DEF Become
  <1>3. DOMAIN stack' = 1 .. Len(stack) /\ DOMAIN stack = 1 .. Len(stack) /\ Len(stack) \in Nat
    BY <1>1, <1>2
  <1>4. \A k \in DOMAIN stack' : AnchoredIn(stack'[k], prot')
    BY <1>2, <1>3
  <1>5. \A k, j \in DOMAIN stack' : k < j => Spares(stack'[k], stack'[j])
    BY <1>2, <1>3 DEF StackInv
  <1>6. \A k \in DOMAIN stack' : k > 1 /\ stack'[k].op = "Uninstall" => stack'[k].pc # "enter"
    BY <1>2, <1>3 DEF StackInv
  <1>7. ~At({"Uninstall"}, "enter")'
    BY <1>2 DEF At, Top
  <1>8. QED
    BY <1>2, <1>4, <1>5, <1>6, <1>7 DEF StackInv

LEMMA CallInv ==
  ASSUME StackInv, ~Idle, NEW f \in Frames, NEW me \in Frames, Call(f, me),
         ~Holds(f),
         ~(me.op = "Uninstall" /\ me.pc = "enter"),
         AnchoredIn(me, prot'),
         Spares(f, me),
         \A k \in 2 .. Len(stack) : AnchoredIn(stack[k], prot'),
         \A k \in 2 .. Len(stack) : Spares(f, stack[k]),
         \A k \in 2 .. Len(stack) : Spares(me, stack[k]),
         f.op = "Uninstall" =>
           /\ ~Holds(me) /\ UNCHANGED dbvars
           /\ \A k \in 2 .. Len(stack) : Holds(stack[k]) =>
                stack[k].prot \notin Find(f.handle, f.protocol, f.interface)
  PROVE  StackInv'
  <1>1. stack \in Seq(Frames) /\ stack # << >>
    BY DEF StackInv, Idle
  <1>2. /\ stack' \in Seq(Frames)
        /\ Len(stack') = Len(stack) + 1
        /\ stack'[1] = f
        /\ stack'[2] = me
        /\ \A k \in 3 .. Len(stack) + 1 : stack'[k] = stack[k - 1]
    <2>1. stack' = << f, me >> \o Tail(stack)
      BY DEF Call
    <2> DEFINE t == << f, me >> \o Tail(stack)
    <2>2. /\ t \in Seq(Frames)
          /\ Len(t) = Len(stack) + 1
          /\ t[1] = f
          /\ t[2] = me
          /\ \A k \in 3 .. Len(stack) + 1 : t[k] = stack[k - 1]
      BY <1>1, Called
    <2> HIDE DEF t
    <2>3. stack' = t
      BY <2>1 DEF t
    <2>4. QED
      BY <2>2, <2>3
  <1>3. DOMAIN stack' = 1 .. Len(stack) + 1 /\ DOMAIN stack = 1 .. Len(stack) /\ Len(stack) \in Nat
    BY <1>1, <1>2
  <1>4. \A k \in DOMAIN stack' : AnchoredIn(stack'[k], prot')
    <2>1. AnchoredIn(f, prot')
      BY DEF AnchoredIn
    <2>2. \A k \in 3 .. Len(stack) + 1 : k - 1 \in 2 .. Len(stack)
      BY <1>3
    <2>3. QED
      BY <2>1, <2>2, <1>2, <1>3
  <1>5. ASSUME NEW k \in DOMAIN stack', NEW j \in DOMAIN stack', k < j
        PROVE  Spares(stack'[k], stack'[j])
    <2>1. CASE j = 2
      BY <1>2, <1>3, <1>5, <2>1
    <2>2. CASE j > 2
      <3>1. j - 1 \in 2 .. Len(stack) /\ stack'[j] = stack[j - 1]
        BY <1>2, <1>3, <2>2
      <3>2. CASE k <= 2
        BY <1>2, <1>3, <3>1, <3>2
      <3>3. CASE k > 2
        <4>1. k - 1 \in 2 .. Len(stack) /\ stack'[k] = stack[k - 1] /\ k - 1 < j - 1
          BY <1>2, <1>3, <1>5, <3>3
        <4>2. QED
          BY <1>3, <3>1, <4>1 DEF StackInv
      <3>4. QED
        BY <3>2, <3>3, <1>3
    <2>3. QED
      BY <1>3, <1>5, <2>1, <2>2
  <1>6. \A k \in DOMAIN stack' : k > 1 /\ stack'[k].op = "Uninstall" => stack'[k].pc # "enter"
    BY <1>2, <1>3, SMTT(60) DEF StackInv
  <1>7. Top' = f
    BY <1>2 DEF Top
  <1>8. ASSUME At({"Uninstall"}, "enter")', NEW k \in DOMAIN stack', k > 1, Holds(stack'[k])
        PROVE  stack'[k].prot \notin Find(Top.handle, Top.protocol, Top.interface)'
    <2>1. f.op = "Uninstall" /\ UNCHANGED dbvars /\ k \in 3 .. Len(stack) + 1
      BY <1>2, <1>3, <1>7, <1>8 DEF At
    <2>2. stack[k - 1].prot \notin Find(f.handle, f.protocol, f.interface)
      BY <2>1, <1>2, <1>3, <1>8
    <2>3. QED
      BY <2>1, <2>2, <1>2, <1>7 DEF Find, Lookup, dbvars
  <1>9. QED
    BY <1>2, <1>4, <1>5, <1>6, <1>8 DEF StackInv

LEMMA EnterInv ==
  ASSUME StackInv, NEW f \in Frames, Enter(f), UNCHANGED dbvars,
         Idle \/ InDriver,
         AnchoredIn(f, prot),
         \A k \in DOMAIN stack : Spares(f, stack[k]),
         f.op = "Uninstall" =>
           \A k \in DOMAIN stack : Holds(stack[k]) =>
             stack[k].prot \notin Find(f.handle, f.protocol, f.interface)
  PROVE  StackInv'
  <1>1. stack \in Seq(Frames)
    BY DEF StackInv
  <1>2. /\ stack' \in Seq(Frames)
        /\ Len(stack') = Len(stack) + 1
        /\ stack'[1] = f
        /\ \A k \in 2 .. Len(stack) + 1 : stack'[k] = stack[k - 1]
    BY <1>1, Pushed, ZenonT(60) DEF Enter
  <1>3. DOMAIN stack' = 1 .. Len(stack) + 1 /\ DOMAIN stack = 1 .. Len(stack) /\ Len(stack) \in Nat
    BY <1>1, <1>2
  <1>4. \A k \in 2 .. Len(stack) + 1 : k - 1 \in DOMAIN stack
    BY <1>3
  <1>5. prot' = prot
    BY DEF dbvars
  <1>6. \A k \in DOMAIN stack' : AnchoredIn(stack'[k], prot')
    BY <1>2, <1>3, <1>4, <1>5 DEF StackInv
  <1>7. ASSUME NEW k \in DOMAIN stack', NEW j \in DOMAIN stack', k < j
        PROVE  Spares(stack'[k], stack'[j])
    <2>1. j - 1 \in DOMAIN stack /\ stack'[j] = stack[j - 1]
      BY <1>2, <1>3, <1>4, <1>7
    <2>2. CASE k = 1
      BY <2>1, <2>2, <1>2
    <2>3. CASE k # 1
      <3>1. k - 1 \in DOMAIN stack /\ stack'[k] = stack[k - 1] /\ k - 1 < j - 1
        BY <1>2, <1>3, <1>4, <1>7, <2>3
      <3>2. QED
        BY <2>1, <3>1 DEF StackInv
    <2>4. QED
      BY <2>2, <2>3
  <1>8. \A k \in DOMAIN stack' : k > 1 /\ stack'[k].op = "Uninstall" => stack'[k].pc # "enter"
    <2>1. Idle => DOMAIN stack = {}
      BY DEF Idle
    <2>2. InDriver => stack[1].op # "Uninstall"
      BY <1>1 DEF InDriver, Top, Idle
    <2>3. QED
      BY <1>2, <1>3, <1>4, <2>1, <2>2 DEF StackInv
  <1>9. Top' = f
    BY <1>2 DEF Top
  <1>10. ASSUME At({"Uninstall"}, "enter")', NEW k \in DOMAIN stack', k > 1, Holds(stack'[k])
         PROVE  stack'[k].prot \notin Find(Top.handle, Top.protocol, Top.interface)'
    <2>1. f.op = "Uninstall" /\ k - 1 \in DOMAIN stack /\ stack'[k] = stack[k - 1]
      BY <1>2, <1>3, <1>4, <1>9, <1>10 DEF At
    <2>2. QED
      BY <2>1, <1>9, <1>10 DEF Find, Lookup, dbvars
  <1>11. QED
    BY <1>2, <1>6, <1>7, <1>8, <1>10 DEF StackInv

LEMMA ReturnInv ==
  ASSUME StackInv, ~Idle, NEW s, Return(s),
         \A k \in 2 .. Len(stack) : AnchoredIn(stack[k], prot')
  PROVE  StackInv'
  <1>1. stack \in Seq(Frames) /\ stack # << >>
    BY DEF StackInv, Idle
  <1>2. /\ stack' \in Seq(Frames)
        /\ Len(stack') = Len(stack) - 1
        /\ \A k \in 1 .. Len(stack) - 1 : stack'[k] = stack[k + 1]
    BY <1>1, Popped DEF Return
  <1>3. DOMAIN stack' = 1 .. Len(stack) - 1 /\ DOMAIN stack = 1 .. Len(stack) /\ Len(stack) \in Nat
    BY <1>1, <1>2
  <1>4. \A k \in 1 .. Len(stack) - 1 : k + 1 \in 2 .. Len(stack) /\ k + 1 \in DOMAIN stack
    BY <1>3
  <1>5. \A k \in DOMAIN stack' : AnchoredIn(stack'[k], prot')
    BY <1>2, <1>3, <1>4
  <1>6. ASSUME NEW k \in DOMAIN stack', NEW j \in DOMAIN stack', k < j
        PROVE  Spares(stack'[k], stack'[j])
    <2>1. /\ k + 1 \in DOMAIN stack /\ stack'[k] = stack[k + 1]
          /\ j + 1 \in DOMAIN stack /\ stack'[j] = stack[j + 1]
          /\ k + 1 < j + 1
      BY <1>2, <1>3, <1>4, <1>6
    <2>2. QED
      BY <2>1 DEF StackInv
  <1>7. \A k \in DOMAIN stack' : stack'[k].op = "Uninstall" => stack'[k].pc # "enter"
    BY <1>2, <1>3, <1>4 DEF StackInv
  <1>8. ~At({"Uninstall"}, "enter")'
    <2>1. CASE stack' = << >>
      BY <2>1 DEF At, Idle
    <2>2. CASE stack' # << >>
      <3>1. 1 \in DOMAIN stack'
        BY <1>2, <2>2
      <3>2. QED
        BY <3>1, <1>7 DEF At, Top
    <2>3. QED
      BY <2>1, <2>2
  <1>9. QED
    BY <1>2, <1>5, <1>6, <1>7, <1>8 DEF StackInv

(* Below the top nothing that is held moves while the structures keep      *)
(* their handle and GUID.                                                  *)
LEMMA AnchorsKept ==
  ASSUME StackInv,
         \A i \in Prots : prot[i] \in ProtocolInterface =>
           /\ prot'[i] \in ProtocolInterface
           /\ prot'[i].handle = prot[i].handle /\ prot'[i].protocol = prot[i].protocol
  PROVE  \A k \in DOMAIN stack : AnchoredIn(stack[k], prot')
  BY DEF StackInv, AnchoredIn

LEMMA TopFrame ==
  ASSUME StackInv, ~Idle
  PROVE  /\ Top \in Frames /\ AnchoredIn(Top, prot) /\ Len(stack) \in Nat /\ 1 \in DOMAIN stack
         /\ DOMAIN stack = 1 .. Len(stack)
         /\ \A k \in 2 .. Len(stack) : stack[k] \in Frames /\ AnchoredIn(stack[k], prot) /\ Spares(Top, stack[k])
  BY DEF StackInv, Idle, Top

-----------------------------------------------------------------------------
(* The activation records that calls begin with.                           *)

LEMMA NewFrame ==
  ASSUME NEW function \in Functions
  PROVE  /\ Frame(function) \in FrameFields
         /\ Frame(function).op = function /\ Frame(function).pc = "enter"
         /\ Frame(function).args = << >> /\ Frame(function).done = << >>
  BY DEF Frame, FrameFields, Pcs, Statuses

LEMMA NewUninstall ==
  ASSUME NEW h \in Handles, NEW g \in Protocols, NEW x \in Interfaces
  PROVE  LET f == UninstallFrame(h, g, x) IN
         /\ f \in Frames /\ f.op = "Uninstall" /\ f.pc = "enter"
         /\ f.handle = h /\ f.protocol = g /\ f.interface = x
  <1>1. Frame("Uninstall") \in FrameFields /\ Frame("Uninstall").op = "Uninstall"
        /\ Frame("Uninstall").pc = "enter"
    BY NewFrame DEF Functions
  <1> DEFINE f0 == [Frame("Uninstall") EXCEPT !.handle = h, !.protocol = g, !.interface = x]
  <1>2. f0 \in FrameFields /\ f0.op = "Uninstall" /\ f0.pc = "enter"
        /\ f0.handle = h /\ f0.protocol = g /\ f0.interface = x
    BY <1>1, Zenon DEF FrameFields
  <1>3. WellFormed(f0)
    BY <1>2 DEF WellFormed, Uninstalls
  <1>4. QED
    BY <1>2, <1>3 DEF UninstallFrame, Frames

LEMMA NewReinstall ==
  ASSUME NEW h \in Handles, NEW g \in Protocols, NEW x \in Interfaces, NEW y \in Interfaces
  PROVE  LET f == ReinstallFrame(h, g, x, y) IN
         /\ f \in Frames /\ f.op = "Reinstall" /\ f.pc = "enter"
  <1>1. UninstallFrame(h, g, x) \in FrameFields /\ UninstallFrame(h, g, x).pc = "enter"
        /\ UninstallFrame(h, g, x).handle = h /\ UninstallFrame(h, g, x).protocol = g
        /\ UninstallFrame(h, g, x).interface = x
    BY NewUninstall DEF Frames
  <1> DEFINE f0 == [UninstallFrame(h, g, x) EXCEPT !.op = "Reinstall", !.new = y]
  <1>2. f0 \in FrameFields /\ f0.op = "Reinstall" /\ f0.pc = "enter"
        /\ f0.handle = h /\ f0.protocol = g /\ f0.interface = x /\ f0.new = y
    BY <1>1, ZenonT(60) DEF FrameFields, Functions
  <1>3. WellFormed(f0)
    BY <1>2 DEF WellFormed, Uninstalls
  <1>4. QED
    BY <1>2, <1>3 DEF ReinstallFrame, Frames

LEMMA NewConnect ==
  ASSUME NEW h \in Handles \cup {NULL}
  PROVE  ConnectFrame(h) \in Frames /\ ConnectFrame(h).op = "Connect" /\ ConnectFrame(h).pc = "enter"
  <1>1. Frame("Connect") \in FrameFields /\ Frame("Connect").op = "Connect"
        /\ Frame("Connect").pc = "enter"
    BY NewFrame DEF Functions
  <1> DEFINE f0 == [Frame("Connect") EXCEPT !.handle = h]
  <1>2. f0 \in FrameFields /\ f0.op = "Connect" /\ f0.pc = "enter"
    BY <1>1, ZenonT(60) DEF FrameFields
  <1>3. WellFormed(f0)
    BY <1>2 DEF WellFormed, Uninstalls
  <1>4. QED
    BY <1>2, <1>3 DEF ConnectFrame, Frames

LEMMA NewDisconnect ==
  ASSUME NEW h \in Handles \cup {NULL}, NEW d \in Handles
  PROVE  /\ DisconnectFrame(h, d) \in Frames
         /\ DisconnectFrame(h, d).op = "Disconnect" /\ DisconnectFrame(h, d).pc = "enter"
  <1>1. Frame("Disconnect") \in FrameFields /\ Frame("Disconnect").op = "Disconnect"
        /\ Frame("Disconnect").pc = "enter"
    BY NewFrame DEF Functions
  <1> DEFINE f0 == [Frame("Disconnect") EXCEPT !.handle = h, !.agent = d]
  <1>2. f0 \in FrameFields /\ f0.op = "Disconnect" /\ f0.pc = "enter" /\ f0.agent = d
    BY <1>1, ZenonT(60) DEF FrameFields
  <1>3. WellFormed(f0)
    BY <1>2 DEF WellFormed, Uninstalls
  <1>4. QED
    BY <1>2, <1>3 DEF DisconnectFrame, Frames

LEMMA NewStart ==
  ASSUME NEW h \in Handles \cup {NULL}, NEW d \in Handles
  PROVE  /\ StartFrame(h, d) \in Frames
         /\ StartFrame(h, d).op = "Start" /\ StartFrame(h, d).pc = "enter"
  <1>1. Frame("Start") \in FrameFields /\ Frame("Start").op = "Start"
        /\ Frame("Start").pc = "enter"
    BY NewFrame DEF Functions
  <1> DEFINE f0 == [Frame("Start") EXCEPT !.handle = h, !.agent = d]
  <1>2. f0 \in FrameFields /\ f0.op = "Start" /\ f0.pc = "enter" /\ f0.agent = d
    BY <1>1, ZenonT(60) DEF FrameFields
  <1>3. WellFormed(f0)
    BY <1>2 DEF WellFormed, Uninstalls
  <1>4. QED
    BY <1>2, <1>3 DEF StartFrame, Frames

LEMMA NewStop ==
  ASSUME NEW h \in Handles \cup {NULL}, NEW d \in Handles, NEW S \in SUBSET (Handles \cup {NULL})
  PROVE  /\ StopFrame(h, d, S) \in Frames
         /\ StopFrame(h, d, S).op = "Stop" /\ StopFrame(h, d, S).pc = "enter"
  <1>1. Frame("Stop") \in FrameFields /\ Frame("Stop").op = "Stop"
        /\ Frame("Stop").pc = "enter"
    BY NewFrame DEF Functions
  <1> DEFINE f0 == [Frame("Stop") EXCEPT !.handle = h, !.agent = d, !.todo = S]
  <1>2. f0 \in FrameFields /\ f0.op = "Stop" /\ f0.pc = "enter" /\ f0.agent = d
    BY <1>1, ZenonT(60) DEF FrameFields
  <1>3. WellFormed(f0)
    BY <1>2 DEF WellFormed, Uninstalls
  <1>4. QED
    BY <1>2, <1>3 DEF StopFrame, Frames

LEMMA NewMultiple ==
  ASSUME NEW function \in Multiples, NEW h \in Handles \cup {NULL}, NEW args \in Seq(Pairs),
         function = "UninstallMultiple" => h \in Handles,
         Installed \subseteq Triples
  PROVE  LET f == MultipleFrame(function, h, args) IN
         /\ f \in Frames /\ f.op = function /\ f.pc = "enter"
         /\ f.handle = h /\ f.args = args /\ f.done = << >> /\ f.before = Installed
  <1>1. Frame(function) \in FrameFields /\ Frame(function).op = function
        /\ Frame(function).pc = "enter" /\ Frame(function).done = << >> /\ function \in Functions
    BY NewFrame DEF Functions, Multiples
  <1> DEFINE f == [Frame(function) EXCEPT !.handle = h, !.args = args, !.before = Installed]
  <1>2. /\ f \in FrameFields /\ f.op = function /\ f.pc = "enter"
        /\ f.handle = h /\ f.args = args /\ f.done = << >> /\ f.before = Installed
    BY <1>1, ZenonT(60) DEF FrameFields
  <1>3. WellFormed(f)
    BY <1>2 DEF WellFormed, Uninstalls, Multiples
  <1>4. QED
    BY <1>2, <1>3 DEF MultipleFrame, Frames

LEMMA InstalledType == ASSUME TypeOK PROVE Installed \subseteq Triples
  BY DEF Installed, Interface, Triples, Allocated, TypeOK, ProtocolInterface

LEMMA NewOpen ==
  ASSUME NEW h \in Handles, NEW g \in Protocols, NEW i \in Prots, NEW a \in Handles \cup {NULL},
         NEW c \in Handles \cup {NULL}, NEW mode \in OpenModes, Exclusive \in mode
  PROVE  LET f == OpenFrame(h, g, i, a, c, mode) IN
         /\ f \in Frames /\ f.op = "Open" /\ f.pc = "scan"
         /\ f.handle = h /\ f.protocol = g /\ f.prot = i
  <1>1. Frame("Open") \in FrameFields /\ Frame("Open").op = "Open"
    BY NewFrame DEF Functions
  <1> DEFINE f0 == [Frame("Open") EXCEPT !.pc = "scan", !.handle = h, !.protocol = g,
                       !.prot = i, !.agent = a, !.controller = c, !.attributes = mode]
  <1>2. f0 \in FrameFields /\ f0.op = "Open" /\ f0.pc = "scan" /\ f0.attributes = mode
        /\ f0.handle = h /\ f0.protocol = g /\ f0.prot = i
    BY <1>1, ZenonT(60) DEF FrameFields, Pcs
  <1>3. WellFormed(f0)
    BY <1>2 DEF WellFormed, Uninstalls
  <1>4. QED
    BY <1>2, <1>3 DEF OpenFrame, Frames

-----------------------------------------------------------------------------
(* Every step of the services is a step of the database, or leaves it      *)
(* alone, and keeps the invariant of the stack.                            *)

LEMMA InstallInterfaceStep ==
  ASSUME IInv, NEW h \in Handles \cup {NULL}, NEW g \in Protocols, NEW x \in Interfaces,
         NEW k \in Handles \cup {NULL}, NEW s, InstallInterface(h, g, x, k, s)
  PROVE  /\ [DBNext]_dbvars
         /\ \A i \in Prots : prot[i] \in ProtocolInterface => prot'[i] = prot[i]
         /\ s = "SUCCESS" => /\ k \in Handles /\ (h # NULL => k = h) /\ Lookup(k, g) = {}
                             /\ \E i \in Prots : LinkInterface(k, g, x, i)
         /\ s # "SUCCESS" => k = h /\ prot' = prot
  <1>1. CASE h # NULL /\ Lookup(h, g) # {} /\ s = "INVALID_PARAMETER" /\ k = h /\ UNCHANGED dbvars
    BY <1>1 DEF dbvars
  <1>2. CASE s \in {"OUT_OF_RESOURCES", "INVALID_PARAMETER"} /\ k = h /\ OnlyCreateEntry(g)
    BY <1>2 DEF OnlyCreateEntry, DBNext
  <1>3. CASE /\ IF h = NULL THEN k \in Handles \ handles
                            ELSE k = h /\ h \in handles /\ Lookup(h, g) = {}
             /\ s = "SUCCESS"
             /\ \E i \in Prots : LinkInterface(k, g, x, i)
    <2>1. k \in Handles /\ Lookup(k, g) = {} /\ (h # NULL => k = h)
      BY <1>3 DEF Lookup
    <2>2. PICK i \in Prots : LinkInterface(k, g, x, i)
      BY <1>3
    <2>3. DBNext
      BY <2>1, <2>2 DEF DBNext, AddInterface
    <2>4. \A j \in Prots : prot[j] \in ProtocolInterface => prot'[j] = prot[j]
      BY <2>2, FreeMemoryAssumption DEF LinkInterface, IInv, TypeOK
    <2>5. QED
      BY <1>3, <2>1, <2>2, <2>3, <2>4
  <1>4. QED
    BY <1>1, <1>2, <1>3 DEF InstallInterface

LEMMA InstallStep ==
  ASSUME IInv, StackInv, NEW h \in Handles \cup {NULL}, NEW g \in Protocols, NEW x \in Interfaces,
         InstallProtocolInterface(h, g, x)
  PROVE  StackInv' /\ [DBNext]_dbvars
  <1>1. PICK k \in Handles \cup {NULL}, s \in Statuses :
          InstallInterface(h, g, x, k, s) /\ Answer(s)
    BY DEF InstallProtocolInterface
  <1>2. /\ [DBNext]_dbvars
        /\ \A i \in Prots : prot[i] \in ProtocolInterface => prot'[i] = prot[i]
    BY <1>1, InstallInterfaceStep
  <1>3. ~At({"Uninstall"}, "enter")
    BY DEF InstallProtocolInterface, MayCall, InDriver, At, Idle
  <1>4. StackInv'
    <2>1. \A j \in DOMAIN stack : AnchoredIn(stack[j], prot')
      BY <1>2, AnchorsKept
    <2>2. stack' = stack
      BY <1>1 DEF Answer
    <2>3. QED
      BY <1>3, <2>1, <2>2, AnswerInv
  <1>5. QED
    BY <1>2, <1>4

(* A call that leaves the database alone.                                  *)
LEMMA AnchorsUnchanged ==
  ASSUME StackInv, prot' = prot
  PROVE  \A k \in DOMAIN stack : AnchoredIn(stack[k], prot')
  BY DEF StackInv

LEMMA UninstallStep ==
  ASSUME IInv, StackInv, NEW h \in Handles, NEW g \in Protocols, NEW x \in Interfaces,
         UninstallProtocolInterface(h, g, x)
  PROVE  StackInv' /\ [DBNext]_dbvars
  <1> DEFINE f == UninstallFrame(h, g, x)
  <1>1. /\ f \in Frames /\ f.op = "Uninstall" /\ f.pc = "enter"
        /\ f.handle = h /\ f.protocol = g /\ f.interface = x
    BY NewUninstall
  <1>2. Enter(f) /\ UNCHANGED dbvars /\ (Idle \/ InDriver) /\ Unused(h, g, x)
    BY DEF UninstallProtocolInterface, MayCall
  <1> HIDE DEF f
  <1>3. AnchoredIn(f, prot) /\ \A k \in DOMAIN stack : Spares(f, stack[k])
    BY <1>1 DEF AnchoredIn, Holds, Spares
  <1>4. \A k \in DOMAIN stack : stack[k].prot \notin Find(h, g, x)
    BY <1>2 DEF Unused, Held
  <1>5. QED
    BY <1>1, <1>2, <1>3, <1>4, EnterInv

LEMMA ReinstallStep ==
  ASSUME IInv, StackInv, NEW h \in Handles, NEW g \in Protocols,
         NEW x \in Interfaces, NEW y \in Interfaces,
         ReinstallProtocolInterface(h, g, x, y)
  PROVE  StackInv' /\ [DBNext]_dbvars
  <1> DEFINE f == ReinstallFrame(h, g, x, y)
  <1>1. f \in Frames /\ f.op = "Reinstall" /\ f.pc = "enter"
    BY NewReinstall
  <1>2. Enter(f) /\ UNCHANGED dbvars /\ (Idle \/ InDriver)
    BY DEF ReinstallProtocolInterface, MayCall
  <1> HIDE DEF f
  <1>3. AnchoredIn(f, prot) /\ \A k \in DOMAIN stack : Spares(f, stack[k])
    BY <1>1 DEF AnchoredIn, Holds, Spares
  <1>4. QED
    BY <1>1, <1>2, <1>3, EnterInv

LEMMA ReturnStep ==
  ASSUME StackInv, ~Idle, NEW s, Return(s), UNCHANGED dbvars
  PROVE  StackInv' /\ [DBNext]_dbvars
  <1>1. prot' = prot
    BY DEF dbvars
  <1>2. \A k \in 2 .. Len(stack) : AnchoredIn(stack[k], prot')
    BY <1>1, TopFrame
  <1>3. QED
    BY <1>2, ReturnInv

(* Pairs of an interface's handle and GUID name it.                        *)
LEMMA OneInterface ==
  ASSUME IInv, NEW h, NEW g, NEW x, NEW i \in Find(h, g, x), NEW j \in Prots,
         prot[j] \in ProtocolInterface, prot[j].handle = h, prot[j].protocol = g
  PROVE  i = j
  <1>1. j \in Allocated
    BY FreeMemoryAssumption DEF Allocated
  <1>2. h \in Handles
    BY DEF ProtocolInterface
  <1>3. i \in Allocated /\ prot[i].handle = h /\ prot[i].protocol = g
    BY <1>2 DEF Find, Lookup, IInv, Links, ListsAgree
  <1>4. QED
    BY <1>1, <1>3 DEF IInv, Links, UniqueProtocol

LEMMA FoundInterface ==
  ASSUME IInv, NEW h \in Handles, NEW g, NEW i \in Lookup(h, g)
  PROVE  /\ i \in Allocated /\ i \in Prots
         /\ prot[i] \in ProtocolInterface /\ prot[i].handle = h /\ prot[i].protocol = g
  BY DEF Lookup, IInv, Links, ListsAgree, Allocated, TypeOK

LEMMA FindInterfaceStep ==
  ASSUME IInv, StackInv, FindInterface
  PROVE  StackInv' /\ [DBNext]_dbvars
  <1> DEFINE found == Find(Top.handle, Top.protocol, Top.interface)
  <1>1. /\ ~Idle /\ Top \in Frames /\ Top.op \in Uninstalls /\ Top.pc = "enter"
        /\ UNCHANGED dbvars
    BY TopFrame DEF FindInterface, At
  <1>2. CASE \E s : Return(s)
    BY <1>1, <1>2, ReturnStep
  <1>3. ASSUME NEW i \in found, Become([Top EXCEPT !.pc = "scan", !.prot = i])
        PROVE  StackInv' /\ [DBNext]_dbvars
    <2>1. /\ Top.handle \in Handles /\ Top.protocol \in Protocols /\ Top \in FrameFields
      BY <1>1 DEF Frames, WellFormed
    <2>2. i \in Prots /\ prot[i] \in ProtocolInterface
          /\ prot[i].handle = Top.handle /\ prot[i].protocol = Top.protocol
      BY <2>1, <1>3, FoundInterface DEF Find
    <2> DEFINE f == [Top EXCEPT !.pc = "scan", !.prot = i]
    <2>3. /\ f \in Frames /\ f.op = Top.op /\ f.pc = "scan" /\ f.prot = i
          /\ f.handle = Top.handle /\ f.protocol = Top.protocol
      <3>1. /\ f \in FrameFields /\ f.op = Top.op /\ f.pc = "scan" /\ f.prot = i
            /\ f.handle = Top.handle /\ f.protocol = Top.protocol
            /\ f.interface = Top.interface /\ f.new = Top.new
        BY <2>1, <2>2, Zenon DEF FrameFields, Pcs
      <3>2. WellFormed(f)
        BY <3>1, <1>1 DEF Frames, WellFormed, Uninstalls
      <3>3. QED
        BY <3>1, <3>2 DEF Frames
    <2> HIDE DEF f
    <2>4. AnchoredIn(f, prot')
      BY <1>1, <2>2, <2>3 DEF AnchoredIn, dbvars
    <2>5. ASSUME NEW k \in 2 .. Len(stack)
          PROVE  Spares(f, stack[k])
      <3>1. SUFFICES ASSUME Holds(stack[k]), f.op = "Uninstall"
                     PROVE  ~Names(stack[k], f.handle, f.protocol)
        BY <1>1, <2>3 DEF Spares, Uninstalls
      <3>2. k \in DOMAIN stack /\ k > 1 /\ AnchoredIn(stack[k], prot)
        BY <1>1, TopFrame
      <3>3. stack[k].prot \notin found
        BY <1>1, <2>3, <3>1, <3>2 DEF StackInv, At
      <3>4. QED
        BY <1>3, <2>3, <3>1, <3>2, <3>3, OneInterface DEF AnchoredIn, Names
    <2>6. \A k \in 2 .. Len(stack) : AnchoredIn(stack[k], prot')
      BY <1>1, TopFrame DEF dbvars
    <2>7. QED
      BY <1>1, <1>3, <2>3, <2>4, <2>5, <2>6, BecomeInv DEF f
  <1>4. QED
    BY <1>2, <1>3 DEF FindInterface

(* A step of the running call to another pc that keeps its hold or gives   *)
(* it up.                                                                  *)
LEMMA GotoStep ==
  ASSUME IInv, StackInv, ~Idle, Top.op \in Uninstalls \cup {"Open"}, Holds(Top),
         NEW pc \in {"scan", "purged"}, Goto(pc),
         prot' = prot
  PROVE  StackInv'
  <1> DEFINE f == [Top EXCEPT !.pc = pc]
  <1>1. /\ f \in Frames /\ f.op = Top.op /\ f.pc = pc
        /\ f.handle = Top.handle /\ f.protocol = Top.protocol /\ f.prot = Top.prot
    BY TopFrame, GotoFrame DEF Pcs, Uninstalls
  <1>2. Become(f)
    BY DEF Goto
  <1> HIDE DEF f
  <1>3. AnchoredIn(f, prot')
    BY <1>1, TopFrame DEF AnchoredIn
  <1>4. \A k \in 2 .. Len(stack) : AnchoredIn(stack[k], prot') /\ Spares(f, stack[k])
    BY <1>1, TopFrame DEF Spares, Holds, Uninstalls
  <1>5. QED
    BY <1>1, <1>2, <1>3, <1>4, BecomeInv

(* The running call, which holds an interface or not, makes another.       *)
LEMMA CallStep ==
  ASSUME IInv, StackInv, ~Idle, NEW f \in Frames, NEW me \in Frames,
         Call(f, me), UNCHANGED dbvars,
         f.op \in {"Connect", "Disconnect", "Start", "Stop"}, f.pc = "enter",
         me.op = Top.op, me.pc # "enter",
         me.handle = Top.handle, me.protocol = Top.protocol,
         me.args = Top.args, me.done = Top.done,
         Holds(me) => Holds(Top) /\ me.prot = Top.prot
  PROVE  StackInv' /\ [DBNext]_dbvars
  <1>1. prot' = prot
    BY DEF dbvars
  <1>2. ~Holds(f) /\ f.op # "Uninstall"
    BY DEF Holds, Uninstalls
  <1>3. AnchoredIn(me, prot') /\ Spares(f, me)
    BY <1>1, <1>2, TopFrame DEF AnchoredIn, Spares
  <1>4. \A k \in 2 .. Len(stack) : AnchoredIn(stack[k], prot') /\ Spares(me, stack[k])
    BY <1>1, TopFrame DEF Spares
  <1>5. \A k \in 2 .. Len(stack) : Spares(f, stack[k])
    BY <1>2 DEF Spares
  <1>6. QED
    BY <1>2, <1>3, <1>4, <1>5, CallInv

LEMMA DisconnectDriverStep ==
  ASSUME IInv, StackInv, DisconnectDriver
  PROVE  StackInv' /\ [DBNext]_dbvars
  <1>1. ~Idle /\ Top \in Frames /\ Top.op \in Uninstalls \cup {"Open"} /\ Top.pc = "scan"
        /\ AnchoredIn(Top, prot) /\ Holds(Top) /\ UNCHANGED dbvars
    BY TopFrame DEF DisconnectDriver, At, Holds
  <1>2. PICK o \in DriverOpens(Top.prot) :
          CallFrom("disconnecting", DisconnectFrame(Top.handle, o.agent))
    BY DEF DisconnectDriver
  <1>3. o.agent \in Handles
    BY <1>1 DEF AnchoredIn, DriverOpens, IInv, TypeOK, OpenProtocolData
  <1>4. Top.handle \in Handles \cup {NULL}
    BY <1>1 DEF Frames, FrameFields
  <1> DEFINE f == DisconnectFrame(Top.handle, o.agent)
             me == [Top EXCEPT !.pc = "disconnecting"]
  <1>5. f \in Frames /\ f.op = "Disconnect" /\ f.pc = "enter"
    BY <1>3, <1>4, NewDisconnect
  <1>6. /\ me \in Frames /\ me.op = Top.op /\ me.pc = "disconnecting"
        /\ me.handle = Top.handle /\ me.protocol = Top.protocol /\ me.prot = Top.prot
        /\ me.args = Top.args /\ me.done = Top.done
    <2>1. Top.op # "Connect" /\ "disconnecting" \in Pcs
      BY <1>1 DEF Uninstalls, Pcs
    <2>2. QED
      BY <1>1, <2>1, GotoFrame
  <1>7. Call(f, me)
    BY <1>2 DEF CallFrom
  <1> HIDE DEF f, me
  <1>8. QED
    BY <1>1, <1>5, <1>6, <1>7, CallStep

LEMMA PurgeStep ==
  ASSUME IInv, StackInv, Purge
  PROVE  StackInv' /\ [DBNext]_dbvars
  <1>1. ~Idle /\ Top.op \in Uninstalls /\ Top.pc = "scan" /\ Holds(Top) /\ AnchoredIn(Top, prot)
        /\ RemoveOpens(Top.prot, WeakOpens(Top.prot)) /\ Goto("purged")
    BY TopFrame DEF Purge, At, Holds
  <1>2. Top.prot \in Prots
    BY <1>1 DEF AnchoredIn
  <1>3. WeakOpens(Top.prot) \in SUBSET openList[Top.prot]
    BY DEF WeakOpens
  <1>4. DBNext
    BY <1>1, <1>2, <1>3 DEF DBNext
  <1>5. prot' = prot
    BY <1>1 DEF RemoveOpens, SetOpenList
  <1>6. QED
    BY <1>1, <1>4, <1>5, GotoStep

LEMMA DriverDisconnectedStep ==
  ASSUME IInv, StackInv, DriverDisconnected
  PROVE  StackInv' /\ [DBNext]_dbvars
  <1>1. ~Idle /\ Top.op \in Uninstalls \cup {"Open"} /\ Holds(Top) /\ Goto("scan") /\ UNCHANGED dbvars
    BY DEF DriverDisconnected, At, Holds
  <1>2. prot' = prot
    BY <1>1 DEF dbvars
  <1>3. QED
    BY <1>1, <1>2, GotoStep

LEMMA ReconnectStep ==
  ASSUME IInv, StackInv, Reconnect
  PROVE  StackInv' /\ [DBNext]_dbvars
  <1> DEFINE f == ConnectFrame(Top.handle)
             me == [Top EXCEPT !.pc = "denied", !.prot = NULL]
  <1>1. /\ ~Idle /\ Top \in Frames /\ Top.op \in Uninstalls
        /\ Call(f, me) /\ UNCHANGED dbvars
    BY TopFrame DEF Reconnect, At
  <1>2. f \in Frames /\ f.op = "Connect" /\ f.pc = "enter"
    <2>1. Top.handle \in Handles
      BY <1>1 DEF Frames, WellFormed
    <2>2. QED
      BY <2>1, NewConnect
  <1>3. /\ me \in FrameFields /\ me.op = Top.op /\ me.pc = "denied"
        /\ me.handle = Top.handle /\ me.protocol = Top.protocol
        /\ me.interface = Top.interface /\ me.new = Top.new
        /\ me.args = Top.args /\ me.done = Top.done
    <2>1. Top \in FrameFields
      BY <1>1 DEF Frames
    <2>2. QED
      BY <2>1, ZenonT(60) DEF FrameFields, Pcs
  <1>4. me \in Frames
    BY <1>1, <1>3 DEF Frames, WellFormed, Uninstalls
  <1> HIDE DEF f, me
  <1>5. ~Holds(me)
    BY <1>3 DEF Holds
  <1>6. QED
    BY <1>1, <1>2, <1>3, <1>4, <1>5, CallStep

(* What the second look-up finds is what the call has held all the time,   *)
(* so nobody has it open.                                                  *)
LEMMA FoundAgain ==
  ASSUME IInv, StackInv, NEW function \in Uninstalls, LetGo(function), NEW i \in FindAgain
  PROVE  i = Top.prot /\ i \in Prots /\ openListCount[i] = 0
  <1>1. Holds(Top) /\ AnchoredIn(Top, prot) /\ openListCount[Top.prot] = 0
    BY TopFrame DEF LetGo, At, Holds
  <1>2. i = Top.prot
    BY <1>1, OneInterface DEF FindAgain, AnchoredIn
  <1>3. QED
    BY <1>1, <1>2 DEF AnchoredIn

(* Removing it takes nothing from the calls below.                         *)
LEMMA UninstallNowStep ==
  ASSUME IInv, StackInv, Uninstall
  PROVE  StackInv' /\ [DBNext]_dbvars
  <1>1. PICK i \in FindAgain : UnlinkInterface(i)
    BY DEF Uninstall
  <1>2. /\ ~Idle /\ Top.op = "Uninstall" /\ Top.pc = "purged" /\ LetGo("Uninstall")
        /\ Return("SUCCESS") /\ Holds(Top) /\ AnchoredIn(Top, prot)
    BY TopFrame DEF Uninstall, LetGo, At, Holds, Uninstalls
  <1>3. i = Top.prot /\ i \in Prots /\ openListCount[i] = 0
    BY <1>1, <1>2, FoundAgain DEF Uninstalls
  <1>4. DBNext
    BY <1>1, <1>3 DEF DBNext, RemoveInterface
  <1>5. ASSUME NEW k \in 2 .. Len(stack)
        PROVE  AnchoredIn(stack[k], prot')
    <2>1. SUFFICES ASSUME Holds(stack[k]) PROVE AnchoredIn(stack[k], prot')
      BY DEF AnchoredIn
    <2>2. AnchoredIn(stack[k], prot) /\ Spares(Top, stack[k])
      BY <1>2, TopFrame
    <2>3. ~Names(stack[k], Top.handle, Top.protocol)
      BY <1>2, <2>1, <2>2 DEF Spares
    <2>4. stack[k].prot # i
      BY <1>2, <1>3, <2>1, <2>2, <2>3 DEF AnchoredIn, Names
    <2>5. prot'[stack[k].prot] = prot[stack[k].prot]
      BY <1>1, <2>1, <2>2, <2>4 DEF UnlinkInterface, AnchoredIn, IInv, TypeOK
    <2>6. QED
      BY <2>2, <2>5 DEF AnchoredIn
  <1>6. QED
    BY <1>2, <1>4, <1>5, ReturnInv

LEMMA ReinstallNowStep ==
  ASSUME IInv, StackInv, Reinstall
  PROVE  StackInv' /\ [DBNext]_dbvars
  <1>1. PICK i \in FindAgain : RelinkInterface(i, Top.new)
    BY DEF Reinstall
  <1> DEFINE f == ConnectFrame(Top.handle)
             me == [Top EXCEPT !.pc = "reconnected", !.prot = NULL]
  <1>2. /\ ~Idle /\ Top \in Frames /\ Top.op = "Reinstall" /\ LetGo("Reinstall") /\ Call(f, me)
    BY TopFrame DEF Reinstall, LetGo, At
  <1>3. /\ Top.handle \in Handles /\ Top.new \in Interfaces /\ Top \in FrameFields
    BY <1>2 DEF Frames, WellFormed, Uninstalls
  <1>4. i = Top.prot /\ i \in Prots /\ openListCount[i] = 0
    BY <1>1, <1>2, FoundAgain DEF Uninstalls
  <1>5. DBNext
    BY <1>1, <1>3, <1>4 DEF DBNext, ReplaceInterface
  <1>6. f \in Frames /\ f.op = "Connect" /\ f.pc = "enter"
    BY <1>3, NewConnect
  <1>7. /\ me \in FrameFields /\ me.op = "Reinstall" /\ me.pc = "reconnected"
        /\ me.handle = Top.handle /\ me.protocol = Top.protocol
        /\ me.interface = Top.interface /\ me.new = Top.new
    BY <1>2, <1>3, Zenon DEF FrameFields, Pcs
  <1>8. me \in Frames
    BY <1>2, <1>7 DEF Frames, WellFormed, Uninstalls
  <1> HIDE DEF f, me
  <1>9. ~Holds(f) /\ ~Holds(me)
    BY <1>6, <1>7 DEF Holds, Uninstalls
  <1>10. \A j \in Prots : prot[j] \in ProtocolInterface =>
           /\ prot'[j] \in ProtocolInterface
           /\ prot'[j].handle = prot[j].handle /\ prot'[j].protocol = prot[j].protocol
    <2>1. prot' = [prot EXCEPT ![i].interface = Top.new]
      BY <1>1 DEF RelinkInterface
    <2>2. QED
      BY <1>3, <1>4, <2>1 DEF IInv, TypeOK, ProtocolInterface
  <1>11. \A k \in 2 .. Len(stack) : AnchoredIn(stack[k], prot')
    BY <1>2, <1>10, AnchorsKept, TopFrame
  <1>12. /\ AnchoredIn(me, prot') /\ Spares(f, me)
         /\ \A k \in 2 .. Len(stack) : Spares(f, stack[k]) /\ Spares(me, stack[k])
    BY <1>6, <1>7, <1>9 DEF AnchoredIn, Spares
  <1>13. QED
    BY <1>2, <1>5, <1>6, <1>7, <1>8, <1>9, <1>11, <1>12, CallInv

LEMMA UninstallReturnsStep ==
  ASSUME StackInv, Denied \/ Vanished \/ Reinstalled
  PROVE  StackInv' /\ [DBNext]_dbvars
  <1>1. ~Idle /\ UNCHANGED dbvars /\ \E s : Return(s)
    BY DEF Denied, Vanished, Reinstalled, LetGo, At
  <1>2. QED
    BY <1>1, ReturnStep

(* An answer to a driver or the client moves nothing.                      *)
LEMMA AnswerStep ==
  ASSUME StackInv, Idle \/ InDriver, NEW s, Answer(s), prot' = prot
  PROVE  StackInv'
  <1>1. ~At({"Uninstall"}, "enter") /\ stack' = stack
    BY DEF InDriver, At, Answer
  <1>2. QED
    BY <1>1, AnchorsUnchanged, AnswerInv

LEMMA RecordOpenStep ==
  ASSUME TypeOK, NEW i \in Prots, NEW a \in Handles \cup {NULL}, NEW c \in Handles \cup {NULL},
         NEW mode \in OpenModes, NEW s, RecordOpen(i, a, c, mode, s), AccessGranted(i, mode)
  PROVE  [DBNext]_dbvars /\ prot' = prot
  <1>1. CASE UNCHANGED dbvars
    BY <1>1 DEF dbvars
  <1>2. CASE a # NULL /\ CreateOpen(i, a, c, mode)
    <2>1. AddOpen(i, a, c, mode) /\ a \in Handles
      BY <1>2 DEF AddOpen
    <2>2. DBNext
      BY <2>1 DEF DBNext
    <2>3. QED
      BY <1>2, <2>2 DEF CreateOpen, SetOpenList
  <1>3. QED
    BY <1>1, <1>2 DEF RecordOpen

(* The conflicts an open looks for are those the database rules out.       *)
LEMMA NoConflict ==
  ASSUME NEW i, NEW mode \in OpenModes, ~Conflicts(i, mode),
         Exclusive \in mode => DriverOpens(i) = {}
  PROVE  AccessGranted(i, mode)
  <1>1. mode \in Attributes
    BY OpenModesAssumption
  <1>2. QED
    BY <1>1 DEF AccessGranted, Conflicts, Attributes, ByDriver, Exclusive, ByHandleProtocol,
                GetProtocol, TestProtocol, ByChildController

LEMMA OpenInterfaceStep ==
  ASSUME IInv, StackInv, Idle \/ InDriver,
         NEW h \in Handles, NEW g \in Protocols, NEW i \in Lookup(h, g),
         NEW a \in Handles \cup {NULL}, NEW c \in Handles \cup {NULL}, NEW mode \in OpenModes,
         OpenInterface(i, h, g, a, c, mode)
  PROVE  StackInv' /\ [DBNext]_dbvars
  <1>0. i \in Prots /\ prot[i] \in ProtocolInterface /\ prot[i].handle = h /\ prot[i].protocol = g
    BY FoundInterface
  <1>1. CASE UNCHANGED dbvars /\ \E s : Answer(s)
    <2>1. prot' = prot
      BY <1>1 DEF dbvars
    <2>2. QED
      BY <1>1, <2>1, AnswerStep
  <1>2. ASSUME NEW o \in ExactMatch(i, a, c, mode), o.count < MaxOpenCount, CountOpen(i, o),
               Answer("SUCCESS")
        PROVE  StackInv' /\ [DBNext]_dbvars
    <2>1. o \in openList[i] /\ prot' = prot
      BY <1>2 DEF ExactMatch, CountOpen, SetOpenList
    <2>2. DBNext
      BY <1>0, <1>2, <2>1 DEF DBNext
    <2>3. QED
      BY <1>2, <2>1, <2>2, AnswerStep
  <1>3. ASSUME ~Conflicts(i, mode), Exclusive \in mode => DriverOpens(i) = {},
               NEW s, RecordOpen(i, a, c, mode, s), Answer(s)
        PROVE  StackInv' /\ [DBNext]_dbvars
    <2>1. AccessGranted(i, mode)
      BY <1>3, NoConflict
    <2>2. [DBNext]_dbvars /\ prot' = prot
      BY <1>0, <1>3, <2>1, RecordOpenStep DEF IInv
    <2>3. QED
      BY <1>3, <2>2, AnswerStep
  <1>4. ASSUME Exclusive \in mode, UNCHANGED dbvars,
               Enter(OpenFrame(h, g, i, a, c, mode))
        PROVE  StackInv' /\ [DBNext]_dbvars
    <2> DEFINE f == OpenFrame(h, g, i, a, c, mode)
    <2>1. /\ f \in Frames /\ f.op = "Open" /\ f.pc = "scan"
          /\ f.handle = h /\ f.protocol = g /\ f.prot = i
      BY <1>0, <1>4, NewOpen
    <2>2. Enter(f)
      BY <1>4
    <2> HIDE DEF f
    <2>3. AnchoredIn(f, prot) /\ \A k \in DOMAIN stack : Spares(f, stack[k])
      BY <1>0, <2>1 DEF AnchoredIn, Spares
    <2>4. QED
      BY <1>4, <2>1, <2>2, <2>3, EnterInv
  <1>5. QED
    BY <1>1, <1>2, <1>3, <1>4 DEF OpenInterface

LEMMA AgentsType ==
  ASSUME StackInv PROVE Agents \subseteq Handles \cup {NULL}
  <1>1. InDriver => Top.agent \in Handles
    BY TopFrame DEF InDriver, Frames, WellFormed
  <1>2. QED
    BY <1>1 DEF Agents

LEMMA OpenProtocolStep ==
  ASSUME IInv, StackInv, NEW h \in Handles, NEW g \in Protocols, NEW mode \in OpenModes,
         NEW a \in Agents, NEW c \in ControllersFor(h, mode), OpenProtocol(h, g, a, c, mode)
  PROVE  StackInv' /\ [DBNext]_dbvars
  <1>1. a \in Handles \cup {NULL} /\ c \in Handles \cup {NULL}
    BY AgentsType DEF ControllersFor
  <1>2. Idle \/ InDriver
    BY DEF OpenProtocol, MayCall
  <1>3. CASE UNCHANGED dbvars /\ \E s : Answer(s)
    <2>1. prot' = prot
      BY <1>3 DEF dbvars
    <2>2. QED
      BY <1>2, <1>3, <2>1, AnswerStep
  <1>4. ASSUME NEW i \in Lookup(h, g), OpenInterface(i, h, g, a, c, mode)
        PROVE  StackInv' /\ [DBNext]_dbvars
    BY <1>1, <1>2, <1>4, OpenInterfaceStep
  <1>5. QED
    BY <1>3, <1>4 DEF OpenProtocol

LEMMA ExclusiveOpenStep ==
  ASSUME IInv, StackInv, ExclusiveOpen
  PROVE  StackInv' /\ [DBNext]_dbvars
  <1>1. ~Idle /\ Top \in Frames /\ Top.op = "Open" /\ AnchoredIn(Top, prot) /\ Holds(Top)
        /\ DriverOpens(Top.prot) = {}
    BY TopFrame DEF ExclusiveOpen, At, Holds
  <1>2. PICK s \in Statuses :
          RecordOpen(Top.prot, Top.agent, Top.controller, Top.attributes, s) /\ Return(s)
    BY DEF ExclusiveOpen
  <1>3. /\ Top.prot \in Prots /\ Top.agent \in Handles \cup {NULL}
        /\ Top.controller \in Handles \cup {NULL}
        /\ Top.attributes \in OpenModes /\ Exclusive \in Top.attributes
    BY <1>1 DEF AnchoredIn, Frames, WellFormed, FrameFields
  <1>4. AccessGranted(Top.prot, Top.attributes)
    BY <1>1, <1>3 DEF AccessGranted, ByDriver, Exclusive
  <1>5. [DBNext]_dbvars /\ prot' = prot
    BY <1>2, <1>3, <1>4, RecordOpenStep DEF IInv
  <1>6. \A k \in 2 .. Len(stack) : AnchoredIn(stack[k], prot')
    BY <1>1, <1>5, TopFrame
  <1>7. QED
    BY <1>1, <1>2, <1>5, <1>6, ReturnInv

LEMMA ExclusiveDeniedStep ==
  ASSUME StackInv, ExclusiveDenied
  PROVE  StackInv' /\ [DBNext]_dbvars
  <1>1. ~Idle /\ UNCHANGED dbvars /\ \E s : Return(s)
    BY DEF ExclusiveDenied, At
  <1>2. QED
    BY <1>1, ReturnStep

LEMMA CloseProtocolStep ==
  ASSUME IInv, StackInv, NEW h \in Handles, NEW g \in Protocols, NEW a, NEW c,
         CloseProtocol(h, g, a, c)
  PROVE  StackInv' /\ [DBNext]_dbvars
  <1>1. Idle \/ InDriver
    BY DEF CloseProtocol, MayCall
  <1>2. CASE UNCHANGED dbvars /\ \E s : Answer(s)
    <2>1. prot' = prot
      BY <1>2 DEF dbvars
    <2>2. QED
      BY <1>1, <1>2, <2>1, AnswerStep
  <1>3. ASSUME NEW i \in Lookup(h, g), NEW S \in SUBSET openList[i], RemoveOpens(i, S),
               Answer("SUCCESS")
        PROVE  StackInv' /\ [DBNext]_dbvars
    <2>1. i \in Prots
      BY FoundInterface
    <2>2. DBNext
      BY <1>3, <2>1 DEF DBNext
    <2>3. prot' = prot
      BY <1>3 DEF RemoveOpens, SetOpenList
    <2>4. QED
      BY <1>1, <1>3, <2>2, <2>3, AnswerStep
  <1>4. QED
    BY <1>2, <1>3 DEF CloseProtocol

-----------------------------------------------------------------------------
(* Disconnecting and connecting.                                           *)

LEMMA OpensOnType ==
  ASSUME TypeOK, NEW h \in Handles
  PROVE  OpensOn(h) \subseteq Records
  BY DEF OpensOn, TypeOK, Records

LEMMA ChildrenType ==
  ASSUME TypeOK, NEW h \in Handles, NEW d
  PROVE  Children(h, d) \in SUBSET (Handles \cup {NULL})
  BY OpensOnType DEF Children, Records, OpenProtocolData

(* Changing pc and nothing else, for a call.                               *)
LEMMA CallFromStep ==
  ASSUME IInv, StackInv, ~Idle, Top.op # "Connect", NEW f \in Frames,
         f.op \in {"Connect", "Disconnect", "Start", "Stop"}, f.pc = "enter",
         NEW pc \in {"children", "stopping"}, CallFrom(pc, f), UNCHANGED dbvars
  PROVE  StackInv' /\ [DBNext]_dbvars
  <1> DEFINE me == [Top EXCEPT !.pc = pc]
  <1>1. /\ me \in Frames /\ me.op = Top.op /\ me.pc = pc
        /\ me.handle = Top.handle /\ me.protocol = Top.protocol /\ me.prot = Top.prot
        /\ me.args = Top.args /\ me.done = Top.done
    BY TopFrame, GotoFrame DEF Pcs
  <1>2. Call(f, me)
    BY DEF CallFrom
  <1> HIDE DEF me
  <1>3. ~Holds(me)
    BY <1>1 DEF Holds
  <1>4. QED
    BY <1>1, <1>2, <1>3, CallStep

LEMMA DisconnectStep ==
  ASSUME IInv, StackInv, Disconnect
  PROVE  StackInv' /\ [DBNext]_dbvars
  <1> DEFINE h == Top.handle
             d == Top.agent
             f == StopFrame(h, d, Children(h, d))
             pc == IF Children(h, d) = {} THEN "stopping" ELSE "children"
  <1>1. /\ ~Idle /\ Top.op = "Disconnect" /\ Top \in Frames /\ UNCHANGED dbvars
    BY TopFrame DEF Disconnect, At
  <1>2. CASE \E s : Return(s)
    BY <1>1, <1>2, ReturnStep
  <1>3. CASE h \in handles /\ CallFrom(pc, f)
    <2>1. h \in Handles /\ d \in Handles
      BY <1>1, <1>3 DEF Frames, WellFormed, IInv, TypeOK
    <2>2. f \in Frames /\ f.op = "Stop" /\ f.pc = "enter"
      BY <2>1, ChildrenType, NewStop DEF IInv
    <2>3. pc \in {"children", "stopping"}
      OBVIOUS
    <2> HIDE DEF f, pc
    <2>4. QED
      BY <1>1, <1>3, <2>2, <2>3, CallFromStep
  <1>4. QED
    BY <1>2, <1>3 DEF Disconnect

LEMMA ChildrenStoppedStep ==
  ASSUME IInv, StackInv, ChildrenStopped
  PROVE  StackInv' /\ [DBNext]_dbvars
  <1> DEFINE f == StopFrame(Top.handle, Top.agent, {})
  <1>1. /\ ~Idle /\ Top.op = "Disconnect" /\ Top \in Frames /\ UNCHANGED dbvars
        /\ CallFrom("stopping", f)
    BY TopFrame DEF ChildrenStopped, At
  <1>2. Top.handle \in Handles \cup {NULL} /\ Top.agent \in Handles
    BY <1>1 DEF Frames, FrameFields, WellFormed
  <1>3. f \in Frames /\ f.op = "Stop" /\ f.pc = "enter"
    BY <1>2, NewStop
  <1> HIDE DEF f
  <1>4. QED
    BY <1>1, <1>3, CallFromStep

(* The steps that only return.                                             *)
LEMMA ReturningStep ==
  ASSUME StackInv, Disconnected \/ Connected \/ MultipleSucceeds \/ MultipleFails \/ Driver
  PROVE  StackInv' /\ [DBNext]_dbvars
  <1>1. ~Idle /\ UNCHANGED dbvars /\ \E s : Return(s)
    BY DEF Disconnected, Connected, MultipleSucceeds, MultipleFails, Driver, DriverReturns,
           InDriver, At
  <1>2. QED
    BY <1>1, ReturnStep

(* A call that connects goes on with other things to do.                   *)
WithTodo(f, pc, todo) == [f EXCEPT !.pc = pc, !.todo = todo]

LEMMA TodoFrame ==
  ASSUME NEW f \in Frames, f.op = "Connect", NEW pc \in {"drivers", "children"},
         NEW todo \in SUBSET (Handles \cup {NULL} \cup Records),
         pc = "drivers" => todo \subseteq Handles,
         pc = "children" => todo \subseteq Records
  PROVE  LET me == WithTodo(f, pc, todo) IN
         /\ me \in Frames /\ me.op = f.op /\ me.pc = pc /\ me.todo = todo
         /\ me.handle = f.handle /\ me.protocol = f.protocol
         /\ me.args = f.args /\ me.done = f.done
  <1> DEFINE me == WithTodo(f, pc, todo)
  <1>1. f \in FrameFields
    BY DEF Frames
  <1>0. pc \in Pcs
    BY DEF Pcs
  <1>2. /\ me \in FrameFields /\ me.op = f.op /\ me.pc = pc /\ me.todo = todo
        /\ me.handle = f.handle /\ me.protocol = f.protocol
        /\ me.args = f.args /\ me.done = f.done
    BY <1>0, <1>1, ZenonT(60) DEF FrameFields, WithTodo
  <1>3. WellFormed(me)
    BY <1>2 DEF WellFormed, Uninstalls
  <1>4. QED
    BY <1>2, <1>3, Zenon DEF Frames

LEMMA BecomeTodoStep ==
  ASSUME IInv, StackInv, ~Idle, Top.op = "Connect", NEW pc \in {"drivers", "children"},
         NEW todo \in SUBSET (Handles \cup {NULL} \cup Records),
         pc = "drivers" => todo \subseteq Handles,
         pc = "children" => todo \subseteq Records,
         Become(WithTodo(Top, pc, todo)), UNCHANGED dbvars
  PROVE  StackInv' /\ [DBNext]_dbvars
  <1> DEFINE f == WithTodo(Top, pc, todo)
  <1>1. f \in Frames /\ f.op = "Connect"
    <2>1. Top \in Frames
      BY TopFrame
    <2>2. QED
      BY <2>1, TodoFrame
  <1> HIDE DEF f
  <1>2. AnchoredIn(f, prot') /\ \A k \in 2 .. Len(stack) : Spares(f, stack[k])
    BY <1>1 DEF AnchoredIn, Spares, Holds, Uninstalls
  <1>3. \A k \in 2 .. Len(stack) : AnchoredIn(stack[k], prot')
    BY TopFrame DEF dbvars
  <1>4. QED
    BY <1>1, <1>2, <1>3, BecomeInv DEF f

LEMMA BindingHandles ==
  ASSUME IInv
  PROVE  { prot[i].handle : i \in ToSet(byProtocol[DriverBinding]) } \subseteq Handles
  <1>1. DriverBinding \in Protocols
    BY GuidAssumption
  <1>2. \A i \in ToSet(byProtocol[DriverBinding]) : i \in Allocated
    BY <1>1 DEF IInv, Links, ListsAgree
  <1>3. \A i \in Allocated : prot[i].handle \in Handles
    BY DEF IInv, TypeOK, Allocated, ProtocolInterface
  <1>4. QED
    BY <1>2, <1>3

LEMMA CollectDriversStep ==
  ASSUME IInv, StackInv, CollectDrivers
  PROVE  StackInv' /\ [DBNext]_dbvars
  <1> DEFINE S == { prot[i].handle : i \in ToSet(byProtocol[DriverBinding]) }
  <1>1. ~Idle /\ Top.op = "Connect" /\ UNCHANGED dbvars
    BY DEF CollectDrivers, At
  <1>2. CASE \E s : Return(s)
    BY <1>1, <1>2, ReturnStep
  <1>3. CASE Become([Top EXCEPT !.pc = "drivers", !.todo = S])
    <2>1. S \subseteq Handles
      BY BindingHandles
    <2> HIDE DEF S
    <2>2. QED
      BY <1>1, <1>3, <2>1, BecomeTodoStep DEF WithTodo
  <1>4. QED
    BY <1>2, <1>3 DEF CollectDrivers

LEMMA CollectChildrenStep ==
  ASSUME IInv, StackInv, CollectChildren
  PROVE  StackInv' /\ [DBNext]_dbvars
  <1> DEFINE S == { io \in OpensOn(Top.handle) : ByChildController \in io[2].attributes }
  <1>1. ~Idle /\ Top.op = "Connect" /\ UNCHANGED dbvars
    BY DEF CollectChildren, At
  <1>2. CASE \E s : Return(s)
    BY <1>1, <1>2, ReturnStep
  <1>3. CASE Top.handle \in handles /\ Become([Top EXCEPT !.pc = "children", !.todo = S])
    <2>1. S \subseteq Records
      BY <1>3, OpensOnType DEF IInv, TypeOK
    <2> HIDE DEF S
    <2>2. QED
      BY <1>1, <1>3, <2>1, BecomeTodoStep DEF WithTodo
  <1>4. QED
    BY <1>2, <1>3 DEF CollectChildren

LEMMA CallTodoStep ==
  ASSUME IInv, StackInv, ~Idle, Top.op = "Connect", Top.pc \in {"drivers", "children"},
         NEW todo \in SUBSET Top.todo, NEW f \in Frames,
         f.op \in {"Connect", "Start"}, f.pc = "enter",
         Call(f, [Top EXCEPT !.todo = todo]), UNCHANGED dbvars
  PROVE  StackInv' /\ [DBNext]_dbvars
  <1> DEFINE me == [Top EXCEPT !.todo = todo]
  <1>1. /\ me \in Frames /\ me.op = "Connect" /\ me.pc = Top.pc
        /\ me.handle = Top.handle /\ me.protocol = Top.protocol
        /\ me.args = Top.args /\ me.done = Top.done
    <2>1. Top \in FrameFields /\ WellFormed(Top)
      BY TopFrame DEF Frames
    <2>2. Top.todo \in SUBSET (Handles \cup {NULL} \cup Records)
      BY <2>1 DEF FrameFields
    <2>3. todo \in SUBSET (Handles \cup {NULL} \cup Records)
      BY <2>2
    <2>4. /\ me \in FrameFields /\ me.op = Top.op /\ me.pc = Top.pc /\ me.todo = todo
          /\ me.handle = Top.handle /\ me.protocol = Top.protocol
          /\ me.args = Top.args /\ me.done = Top.done
      BY <2>1, <2>3, ZenonT(60) DEF FrameFields
    <2>5. WellFormed(me)
      BY <2>1, <2>4 DEF WellFormed, Uninstalls
    <2>6. QED
      BY <2>4, <2>5 DEF Frames
  <1> HIDE DEF me
  <1>2. ~Holds(me)
    BY <1>1 DEF Holds, Uninstalls
  <1>3. QED
    BY <1>1, <1>2, CallStep DEF me

LEMMA StartDriverStep ==
  ASSUME IInv, StackInv, StartDriver
  PROVE  StackInv' /\ [DBNext]_dbvars
  <1>1. ~Idle /\ Top.op = "Connect" /\ Top.pc = "drivers" /\ Top \in Frames /\ UNCHANGED dbvars
    BY TopFrame DEF StartDriver, At
  <1>2. PICK d \in Top.todo : Call(StartFrame(Top.handle, d), [Top EXCEPT !.todo = @ \ {d}])
    BY DEF StartDriver
  <1>3. d \in Handles /\ Top.handle \in Handles \cup {NULL}
    BY <1>1 DEF Frames, FrameFields, WellFormed
  <1>4. StartFrame(Top.handle, d) \in Frames /\ StartFrame(Top.handle, d).op = "Start"
        /\ StartFrame(Top.handle, d).pc = "enter"
    BY <1>3, NewStart
  <1>5. QED
    BY <1>1, <1>2, <1>4, CallTodoStep

LEMMA ConnectChildStep ==
  ASSUME IInv, StackInv, ConnectChild
  PROVE  StackInv' /\ [DBNext]_dbvars
  <1>1. ~Idle /\ Top.op = "Connect" /\ Top.pc = "children" /\ Top \in Frames /\ UNCHANGED dbvars
    BY TopFrame DEF ConnectChild, At
  <1>2. PICK io \in Top.todo :
          Call(ConnectFrame(io[2].controller), [Top EXCEPT !.todo = @ \ {io}])
    BY DEF ConnectChild
  <1>3. io[2].controller \in Handles \cup {NULL}
    <2>1. io \in Records
      BY <1>1 DEF Frames, WellFormed
    <2>2. QED
      BY <2>1 DEF Records, OpenProtocolData
  <1>4. ConnectFrame(io[2].controller) \in Frames /\ ConnectFrame(io[2].controller).op = "Connect"
        /\ ConnectFrame(io[2].controller).pc = "enter"
    BY <1>3, NewConnect
  <1>5. QED
    BY <1>1, <1>2, <1>4, CallTodoStep

-----------------------------------------------------------------------------
(* The Multiple services.                                                  *)

LEMMA ArgumentsType == Arguments \subseteq Seq(Pairs)
  <1>1. \A m \in 0 .. MaxArgs : [1 .. m -> Pairs] \subseteq Seq(Pairs)
    BY DepthAssumption
  <1>2. QED
    BY <1>1 DEF Arguments, SeqOf, Pairs

LEMMA InstallMultipleStep ==
  ASSUME IInv, StackInv, NEW h \in Handles \cup {NULL}, NEW args \in Arguments,
         InstallMultiple(h, args)
  PROVE  StackInv' /\ [DBNext]_dbvars
  <1> DEFINE f == MultipleFrame("InstallMultiple", h, args)
  <1>1. f \in Frames /\ f.op = "InstallMultiple" /\ f.pc = "enter" /\ f.done = << >>
    BY ArgumentsType, InstalledType, NewMultiple DEF IInv, Multiples
  <1>2. Enter(f) /\ UNCHANGED dbvars /\ (Idle \/ InDriver)
    BY DEF InstallMultiple, MayCall
  <1> HIDE DEF f
  <1>3. AnchoredIn(f, prot) /\ \A k \in DOMAIN stack : Spares(f, stack[k])
    BY <1>1 DEF AnchoredIn, Holds, Spares, Uninstalls
  <1>4. QED
    BY <1>1, <1>2, <1>3, EnterInv

(* No call on the stack holds an interface of a GUID that is to go.        *)
LEMMA UninstallMultipleStep ==
  ASSUME IInv, StackInv, NEW h \in Handles, NEW args \in Arguments, UninstallMultiple(h, args)
  PROVE  StackInv' /\ [DBNext]_dbvars
  <1> DEFINE f == MultipleFrame("UninstallMultiple", h, args)
  <1>1. f \in Frames /\ f.op = "UninstallMultiple" /\ f.pc = "enter" /\ f.handle = h /\ f.args = args
    BY ArgumentsType, InstalledType, NewMultiple DEF IInv, Multiples
  <1>2. Enter(f) /\ UNCHANGED dbvars /\ (Idle \/ InDriver)
    BY DEF UninstallMultiple, MayCall
  <1> HIDE DEF f
  <1>3. AnchoredIn(f, prot)
    BY <1>1 DEF AnchoredIn, Holds, Uninstalls
  <1>4. ASSUME NEW k \in DOMAIN stack
        PROVE  Spares(f, stack[k])
    <2>1. SUFFICES ASSUME Holds(stack[k]), NEW n \in DOMAIN args, Names(stack[k], h, args[n][1])
                   PROVE  FALSE
      BY <1>1 DEF Spares
    <2>2. UnusedProtocol(h, args[n][1])
      BY DEF UninstallMultiple
    <2>3. AnchoredIn(stack[k], prot)
      BY DEF StackInv
    <2>4. stack[k].prot \in Lookup(h, args[n][1])
      <3>1. stack[k].prot \in Allocated /\ prot[stack[k].prot].handle = h
            /\ prot[stack[k].prot].protocol = args[n][1]
        BY <2>1, <2>3, FreeMemoryAssumption DEF AnchoredIn, Names, Allocated
      <3>2. QED
        BY <3>1 DEF Lookup, IInv, Links, ListsAgree, HandleLifetime
    <2>5. QED
      BY <2>2, <2>4 DEF UnusedProtocol, Held
  <1>5. QED
    BY <1>1, <1>2, <1>3, <1>4, EnterInv

(* Where an interface is missing, no call on the stack holds one.          *)
LEMMA NothingHeld ==
  ASSUME IInv, StackInv, NEW h \in Handles, NEW g, Lookup(h, g) = {},
         NEW k \in DOMAIN stack, Holds(stack[k])
  PROVE  ~Names(stack[k], h, g)
  <1>1. SUFFICES ASSUME Names(stack[k], h, g) PROVE FALSE
    OBVIOUS
  <1>2. AnchoredIn(stack[k], prot)
    BY DEF StackInv
  <1>3. stack[k].prot \in Allocated /\ prot[stack[k].prot].handle = h
        /\ prot[stack[k].prot].protocol = g
    BY <1>1, <1>2, FreeMemoryAssumption DEF AnchoredIn, Names, Allocated
  <1>4. stack[k].prot \in Lookup(h, g)
    BY <1>3 DEF Lookup, IInv, Links, ListsAgree, HandleLifetime
  <1>5. QED
    BY <1>4

MultipleState(f, handle, args, done) ==
  f.handle = handle /\ f.args = args /\ f.done = done

(* The records Advance and Fail leave on the stack.                        *)
Advanced(f, k) ==
  [f EXCEPT !.handle = k, !.args = Tail(@), !.done = Append(@, Head(f.args))]
Failed(f, s) == [f EXCEPT !.pc = "rollback", !.status = s]
Counted(f)   == [f EXCEPT !.pc = "enter", !.args = Tail(@), !.done = Append(@, Head(f.args))]
Dropped(f)   == [f EXCEPT !.done = Tail(@)]
Waiting(f)   == [f EXCEPT !.pc = "uninstalled"]

LEMMA MultipleTyped ==
  ASSUME NEW f \in Frames, f.op \in Multiples
  PROVE  /\ f \in FrameFields
         /\ f.args \in Seq(Pairs) /\ f.done \in Seq(Pairs)
         /\ f.handle \in Handles \cup {NULL}
         /\ f.op = "UninstallMultiple" \/ f.done # << >> => f.handle \in Handles
         /\ f.args # << >> => /\ Head(f.args) \in Pairs /\ Tail(f.args) \in Seq(Pairs)
                              /\ Append(f.done, Head(f.args)) \in Seq(Pairs)
                              /\ Head(f.args)[1] \in Protocols /\ Head(f.args)[2] \in Interfaces
         /\ f.done # << >> => /\ Head(f.done) \in Pairs /\ Tail(f.done) \in Seq(Pairs)
                              /\ Head(f.done)[1] \in Protocols /\ Head(f.done)[2] \in Interfaces
  <1>1. f \in FrameFields /\ WellFormed(f)
    BY DEF Frames
  <1>2. f.args \in Seq(Pairs) /\ f.done \in Seq(Pairs) /\ f.handle \in Handles \cup {NULL}
    BY <1>1 DEF FrameFields
  <1>3. f.op = "UninstallMultiple" \/ f.done # << >> => f.handle \in Handles
    BY <1>1 DEF WellFormed, Multiples
  <1>4. \A p \in Pairs : p[1] \in Protocols /\ p[2] \in Interfaces
    BY DEF Pairs
  <1>5. \A s \in Seq(Pairs) : s # << >> => Head(s) \in Pairs /\ Tail(s) \in Seq(Pairs)
    OBVIOUS
  <1>6. f.args # << >> => Append(f.done, Head(f.args)) \in Seq(Pairs)
    BY <1>2, <1>5
  <1>7. QED
    BY <1>1, <1>2, <1>3, <1>4, <1>5, <1>6

LEMMA AdvancedFrame ==
  ASSUME NEW f \in Frames, f.op = "InstallMultiple", f.args # << >>, NEW k \in Handles
  PROVE  /\ Advanced(f, k) \in Frames /\ Advanced(f, k).op = f.op /\ Advanced(f, k).pc = f.pc
         /\ MultipleState(Advanced(f, k), k, Tail(f.args), Append(f.done, Head(f.args)))
         /\ Advanced(f, k).before = f.before
  <1>1. /\ f \in FrameFields /\ Tail(f.args) \in Seq(Pairs)
        /\ Append(f.done, Head(f.args)) \in Seq(Pairs) /\ k \in Handles \cup {NULL}
    BY MultipleTyped DEF Multiples
  <1> DEFINE g == Advanced(f, k)
  <1>2. /\ g \in FrameFields /\ g.op = f.op /\ g.pc = f.pc /\ g.handle = k
        /\ g.args = Tail(f.args) /\ g.done = Append(f.done, Head(f.args)) /\ g.before = f.before
    BY <1>1, Zenon DEF FrameFields, Advanced
  <1>3. WellFormed(g)
    BY <1>2 DEF WellFormed, Uninstalls
  <1>4. QED
    BY <1>2, <1>3 DEF Frames, MultipleState

LEMMA FailedFrame ==
  ASSUME NEW f \in Frames, f.op \in Multiples, NEW s \in Statuses
  PROVE  /\ Failed(f, s) \in Frames /\ Failed(f, s).op = f.op /\ Failed(f, s).pc = "rollback"
         /\ MultipleState(Failed(f, s), f.handle, f.args, f.done)
         /\ Failed(f, s).before = f.before /\ Failed(f, s).status = s
  <1>1. f \in FrameFields /\ WellFormed(f) /\ "rollback" \in Pcs
    BY DEF Frames, Pcs
  <1> DEFINE g == Failed(f, s)
  <1>2. /\ g \in FrameFields /\ g.op = f.op /\ g.pc = "rollback" /\ g.handle = f.handle
        /\ g.args = f.args /\ g.done = f.done /\ g.before = f.before /\ g.status = s
    BY <1>1, ZenonT(60) DEF FrameFields, Failed
  <1>3. WellFormed(g)
    BY <1>1, <1>2 DEF WellFormed, Uninstalls, Multiples
  <1>4. QED
    BY <1>2, <1>3 DEF Frames, MultipleState

LEMMA CountedFrame ==
  ASSUME NEW f \in Frames, f.op = "UninstallMultiple", f.args # << >>
  PROVE  /\ Counted(f) \in Frames /\ Counted(f).op = f.op /\ Counted(f).pc = "enter"
         /\ MultipleState(Counted(f), f.handle, Tail(f.args), Append(f.done, Head(f.args)))
         /\ Counted(f).before = f.before
  <1>1. /\ f \in FrameFields /\ Tail(f.args) \in Seq(Pairs) /\ f.handle \in Handles
        /\ Append(f.done, Head(f.args)) \in Seq(Pairs) /\ "enter" \in Pcs
    BY MultipleTyped DEF Multiples, Pcs
  <1> DEFINE g == Counted(f)
  <1>2. /\ g \in FrameFields /\ g.op = f.op /\ g.pc = "enter" /\ g.handle = f.handle
        /\ g.args = Tail(f.args) /\ g.done = Append(f.done, Head(f.args)) /\ g.before = f.before
    BY <1>1, Zenon DEF FrameFields, Counted
  <1>3. WellFormed(g)
    BY <1>1, <1>2 DEF WellFormed, Uninstalls
  <1>4. QED
    BY <1>2, <1>3 DEF Frames, MultipleState

LEMMA DroppedFrame ==
  ASSUME NEW f \in Frames, f.op \in Multiples, f.done # << >>
  PROVE  /\ Dropped(f) \in Frames /\ Dropped(f).op = f.op /\ Dropped(f).pc = f.pc
         /\ MultipleState(Dropped(f), f.handle, f.args, Tail(f.done))
         /\ Dropped(f).before = f.before /\ Dropped(f).status = f.status
  <1>1. /\ f \in FrameFields /\ Tail(f.done) \in Seq(Pairs) /\ f.handle \in Handles
        /\ WellFormed(f)
    BY MultipleTyped DEF Frames
  <1> DEFINE g == Dropped(f)
  <1>2. /\ g \in FrameFields /\ g.op = f.op /\ g.pc = f.pc /\ g.handle = f.handle
        /\ g.args = f.args /\ g.done = Tail(f.done) /\ g.before = f.before /\ g.status = f.status
    BY <1>1, Zenon DEF FrameFields, Dropped
  <1>3. WellFormed(g)
    BY <1>1, <1>2 DEF WellFormed, Uninstalls, Multiples
  <1>4. QED
    BY <1>2, <1>3 DEF Frames, MultipleState

LEMMA WaitingFrame ==
  ASSUME NEW f \in Frames, f.op = "UninstallMultiple", f.args # << >>
  PROVE  /\ Waiting(f) \in Frames /\ Waiting(f).op = f.op /\ Waiting(f).pc = "uninstalled"
         /\ MultipleState(Waiting(f), f.handle, f.args, f.done)
         /\ Waiting(f).before = f.before
  <1>1. f \in FrameFields /\ WellFormed(f) /\ "uninstalled" \in Pcs
    BY DEF Frames, Pcs
  <1> DEFINE g == Waiting(f)
  <1>2. /\ g \in FrameFields /\ g.op = f.op /\ g.pc = "uninstalled" /\ g.handle = f.handle
        /\ g.args = f.args /\ g.done = f.done /\ g.before = f.before
    BY <1>1, ZenonT(60) DEF FrameFields, Waiting
  <1>3. WellFormed(g)
    BY <1>1, <1>2 DEF WellFormed, Uninstalls
  <1>4. QED
    BY <1>2, <1>3 DEF Frames, MultipleState

-----------------------------------------------------------------------------
(* A call below that holds an interface is not affected by an uninstall of *)
(* another GUID or handle.                                                 *)
LEMMA NotNamed ==
  ASSUME IInv, NEW h \in Handles, NEW g, NEW x, NEW b, Holds(b), AnchoredIn(b, prot),
         ~Names(b, h, g)
  PROVE  b.prot \notin Find(h, g, x)
  <1>1. ASSUME b.prot \in Find(h, g, x) PROVE FALSE
    BY <1>1, FoundInterface DEF Find, AnchoredIn, Names
  <1>2. QED
    BY <1>1

(* A Multiple service calls CoreUninstallProtocolInterface.                *)
LEMMA CallUninstallStep ==
  ASSUME IInv, StackInv, ~Idle, Top.op \in Multiples, Top.handle \in Handles,
         NEW g \in Protocols, NEW x \in Interfaces, NEW me \in Frames, me.op = Top.op,
         \A k \in 2 .. Len(stack) : Spares(me, stack[k]),
         \A k \in 2 .. Len(stack) : Holds(stack[k]) => ~Names(stack[k], Top.handle, g),
         Call(UninstallFrame(Top.handle, g, x), me), UNCHANGED dbvars
  PROVE  StackInv' /\ [DBNext]_dbvars
  <1> DEFINE f == UninstallFrame(Top.handle, g, x)
  <1>1. /\ f \in Frames /\ f.op = "Uninstall" /\ f.pc = "enter"
        /\ f.handle = Top.handle /\ f.protocol = g /\ f.interface = x
    BY NewUninstall
  <1>2. Call(f, me)
    OBVIOUS
  <1> HIDE DEF f
  <1>3. ~Holds(f) /\ ~Holds(me) /\ me.op # "Uninstall"
    BY <1>1 DEF Holds, Uninstalls, Multiples
  <1>4. AnchoredIn(me, prot') /\ Spares(f, me) /\ \A k \in 2 .. Len(stack) : Spares(f, stack[k])
    BY <1>1, <1>3 DEF AnchoredIn, Spares
  <1>5. \A k \in 2 .. Len(stack) : AnchoredIn(stack[k], prot')
    BY TopFrame DEF dbvars
  <1>6. \A k \in 2 .. Len(stack) : Holds(stack[k]) =>
          stack[k].prot \notin Find(f.handle, f.protocol, f.interface)
    BY <1>1, NotNamed, TopFrame
  <1>7. QED
    BY <1>1, <1>2, <1>3, <1>4, <1>5, <1>6, CallInv

(* What a Multiple service still has to uninstall stays among what it has  *)
(* been given.                                                             *)
LEMMA SparesUninstalls ==
  ASSUME NEW f, NEW g, NEW b, f.op = "UninstallMultiple", g.op = "UninstallMultiple",
         g.handle = f.handle, f.args \in Seq(Pairs),
         g.args = f.args \/ (f.args # << >> /\ g.args = Tail(f.args)), Spares(f, b)
  PROVE  Spares(g, b)
  <1>1. ASSUME NEW n \in DOMAIN g.args PROVE \E m \in DOMAIN f.args : g.args[n] = f.args[m]
    <2>1. CASE f.args # << >> /\ g.args = Tail(f.args)
      <3>1. n + 1 \in DOMAIN f.args /\ g.args[n] = f.args[n + 1]
        BY <1>1, <2>1
      <3>2. QED
        BY <3>1
    <2>2. QED
      BY <1>1, <2>1
  <1>2. QED
    BY <1>1 DEF Spares, Names

LEMMA SparesRollback ==
  ASSUME NEW f, NEW g, NEW b, f.op = "InstallMultiple", g.op = "InstallMultiple",
         g.handle = f.handle, f.done \in Seq(Pairs),
         g.done = f.done \/ (f.done # << >> /\ g.done = Tail(f.done)), Spares(f, b)
  PROVE  Spares(g, b)
  <1>1. ASSUME NEW n \in DOMAIN g.done PROVE \E m \in DOMAIN f.done : g.done[n] = f.done[m]
    <2>1. CASE f.done # << >> /\ g.done = Tail(f.done)
      <3>1. n + 1 \in DOMAIN f.done /\ g.done[n] = f.done[n + 1]
        BY <1>1, <2>1
      <3>2. QED
        BY <3>1
    <2>2. QED
      BY <1>1, <2>1
  <1>2. QED
    BY <1>1 DEF Spares, Names

LEMMA UninstallNextStep ==
  ASSUME IInv, StackInv, UninstallNext
  PROVE  StackInv' /\ [DBNext]_dbvars
  <1>1. ~Idle /\ Top \in Frames /\ Top.op = "UninstallMultiple" /\ Top.args # << >>
        /\ UNCHANGED dbvars
    BY TopFrame DEF UninstallNext, At
  <1> DEFINE g == Head(Top.args)[1]
             x == Head(Top.args)[2]
             me == Waiting(Top)
  <1>2. /\ g \in Protocols /\ x \in Interfaces /\ Top.handle \in Handles
        /\ Top.args \in Seq(Pairs)
    BY <1>1, MultipleTyped DEF Multiples
  <1>3. me \in Frames /\ me.op = Top.op /\ MultipleState(me, Top.handle, Top.args, Top.done)
    BY <1>1, WaitingFrame
  <1>4. Call(UninstallFrame(Top.handle, g, x), me)
    BY DEF UninstallNext, CallFrom, Waiting
  <1> HIDE DEF me
  <1>5. \A k \in 2 .. Len(stack) : Spares(me, stack[k])
    BY <1>1, <1>3, TopFrame DEF MultipleState, Spares, Names
  <1>6. \A k \in 2 .. Len(stack) : Holds(stack[k]) => ~Names(stack[k], Top.handle, g)
    <2>1. 1 \in DOMAIN Top.args /\ Top.args[1] = Head(Top.args)
      BY <1>1, <1>2
    <2>2. QED
      BY <1>1, <2>1, TopFrame DEF Spares
  <1>7. QED
    BY <1>1, <1>2, <1>3, <1>4, <1>5, <1>6, CallUninstallStep DEF Multiples

LEMMA UninstallDoneStep ==
  ASSUME IInv, StackInv, UninstallDone
  PROVE  StackInv' /\ [DBNext]_dbvars
  <1>1. ~Idle /\ Top \in Frames /\ Top.op = "InstallMultiple" /\ Top.done # << >>
        /\ UNCHANGED dbvars
    BY TopFrame DEF UninstallDone, At
  <1> DEFINE g == Head(Top.done)[1]
             x == Head(Top.done)[2]
             me == Dropped(Top)
  <1>2. /\ g \in Protocols /\ x \in Interfaces /\ Top.handle \in Handles
        /\ Top.done \in Seq(Pairs)
    BY <1>1, MultipleTyped DEF Multiples
  <1>3. me \in Frames /\ me.op = Top.op /\ MultipleState(me, Top.handle, Top.args, Tail(Top.done))
    BY <1>1, DroppedFrame DEF Multiples
  <1>4. Call(UninstallFrame(Top.handle, g, x), me)
    BY DEF UninstallDone, Dropped
  <1> HIDE DEF me
  <1>5. \A k \in 2 .. Len(stack) : Spares(me, stack[k])
    BY <1>1, <1>2, <1>3, TopFrame, SparesRollback DEF MultipleState
  <1>6. \A k \in 2 .. Len(stack) : Holds(stack[k]) => ~Names(stack[k], Top.handle, g)
    <2>1. 1 \in DOMAIN Top.done /\ Top.done[1] = Head(Top.done)
      BY <1>1, <1>2
    <2>2. QED
      BY <1>1, <2>1, TopFrame DEF Spares
  <1>7. QED
    BY <1>1, <1>2, <1>3, <1>4, <1>5, <1>6, CallUninstallStep DEF Multiples

(* The running Multiple service goes on, after a change of the database    *)
(* that moves nothing that is there.                                       *)
LEMMA MultipleGoesOn ==
  ASSUME StackInv, ~Idle, NEW f \in Frames, f.op \in Multiples, Become(f),
         \A i \in Prots : prot[i] \in ProtocolInterface => prot'[i] = prot[i],
         \A k \in 2 .. Len(stack) : Spares(f, stack[k])
  PROVE  StackInv'
  <1>1. \A k \in DOMAIN stack : AnchoredIn(stack[k], prot')
    BY AnchorsKept
  <1>2. ~Holds(f) /\ f.op # "Uninstall"
    BY DEF Holds, Uninstalls, Multiples
  <1>3. AnchoredIn(f, prot') /\ \A k \in 2 .. Len(stack) : AnchoredIn(stack[k], prot')
    BY <1>1, <1>2, TopFrame DEF AnchoredIn
  <1>4. QED
    BY <1>2, <1>3, BecomeInv

LEMMA FailStep ==
  ASSUME StackInv, ~Idle, Top.op \in Multiples, NEW s \in Statuses, Fail(s),
         \A i \in Prots : prot[i] \in ProtocolInterface => prot'[i] = prot[i]
  PROVE  StackInv'
  <1> DEFINE f == Failed(Top, s)
  <1>1. /\ f \in Frames /\ f.op = Top.op /\ MultipleState(f, Top.handle, Top.args, Top.done)
        /\ Top.args \in Seq(Pairs) /\ Top.done \in Seq(Pairs)
    BY TopFrame, FailedFrame, MultipleTyped
  <1>2. Become(f)
    BY DEF Fail, Failed
  <1> HIDE DEF f
  <1>3. \A k \in 2 .. Len(stack) : Spares(f, stack[k])
    BY <1>1, TopFrame DEF MultipleState, Spares, Names, Multiples
  <1>4. QED
    BY <1>1, <1>2, <1>3, MultipleGoesOn

LEMMA UninstalledNextStep ==
  ASSUME IInv, StackInv, ret \in Statuses, UninstalledNext
  PROVE  StackInv' /\ [DBNext]_dbvars
  <1>1. ~Idle /\ Top \in Frames /\ Top.op = "UninstallMultiple" /\ UNCHANGED dbvars /\ prot' = prot
        /\ Top.args # << >>
    BY TopFrame DEF UninstalledNext, At, dbvars, Frames, WellFormed
  <1>2. CASE Fail(ret)
    BY <1>1, <1>2, FailStep DEF Multiples
  <1>3. CASE ret = "SUCCESS"
    <2> DEFINE f == Counted(Top)
    <2>1. /\ f \in Frames /\ f.op = Top.op
          /\ MultipleState(f, Top.handle, Tail(Top.args), Append(Top.done, Head(Top.args)))
          /\ Top.args \in Seq(Pairs)
      BY <1>1, CountedFrame, MultipleTyped DEF Multiples
    <2>2. Become(f)
      BY <1>3 DEF UninstalledNext, Counted
    <2> HIDE DEF f
    <2>3. \A k \in 2 .. Len(stack) : Spares(f, stack[k])
      BY <1>1, <2>1, TopFrame, SparesUninstalls DEF MultipleState
    <2>4. QED
      BY <1>1, <2>1, <2>2, <2>3, MultipleGoesOn DEF Multiples
  <1>4. QED
    BY <1>2, <1>3 DEF UninstalledNext

LEMMA ReinstallDoneStep ==
  ASSUME IInv, StackInv, ReinstallDone
  PROVE  StackInv' /\ [DBNext]_dbvars
  <1>1. ~Idle /\ Top \in Frames /\ Top.op = "UninstallMultiple" /\ Top.done # << >>
    BY TopFrame DEF ReinstallDone, At
  <1>2. /\ Head(Top.done)[1] \in Protocols /\ Head(Top.done)[2] \in Interfaces
        /\ Top.handle \in Handles /\ Top.args \in Seq(Pairs)
    BY <1>1, MultipleTyped DEF Multiples
  <1>3. PICK s \in Statuses :
          InstallInterface(Top.handle, Head(Top.done)[1], Head(Top.done)[2], Top.handle, s)
    BY DEF ReinstallDone
  <1>4. /\ [DBNext]_dbvars
        /\ \A i \in Prots : prot[i] \in ProtocolInterface => prot'[i] = prot[i]
    BY <1>2, <1>3, InstallInterfaceStep
  <1> DEFINE f == Dropped(Top)
  <1>5. f \in Frames /\ f.op = Top.op /\ MultipleState(f, Top.handle, Top.args, Tail(Top.done))
    BY <1>1, DroppedFrame DEF Multiples
  <1>6. Become(f)
    BY DEF ReinstallDone, Dropped
  <1> HIDE DEF f
  <1>7. \A k \in 2 .. Len(stack) : Spares(f, stack[k])
    BY <1>1, <1>5, TopFrame DEF MultipleState, Spares, Names
  <1>8. QED
    BY <1>1, <1>4, <1>5, <1>6, <1>7, MultipleGoesOn DEF Multiples

LEMMA InstallNextStep ==
  ASSUME IInv, StackInv, InstallNext
  PROVE  StackInv' /\ [DBNext]_dbvars
  <1> DEFINE g == Head(Top.args)[1]
             x == Head(Top.args)[2]
  <1>1. ~Idle /\ Top \in Frames /\ Top.op = "InstallMultiple" /\ Top.args # << >>
    BY TopFrame DEF InstallNext, At
  <1>2. /\ g \in Protocols /\ x \in Interfaces /\ Top.handle \in Handles \cup {NULL}
        /\ Top.args \in Seq(Pairs) /\ Top.done \in Seq(Pairs)
        /\ Top.done # << >> => Top.handle \in Handles
    BY <1>1, MultipleTyped DEF Multiples
  <1> HIDE DEF g, x
  <1>3. CASE Fail("ALREADY_STARTED") /\ UNCHANGED dbvars
    <2>1. prot' = prot
      BY <1>3 DEF dbvars
    <2>2. QED
      BY <1>1, <1>3, <2>1, FailStep DEF Multiples, Statuses
  <1>4. ASSUME NEW k \in Handles \cup {NULL}, NEW s \in Statuses,
               InstallInterface(Top.handle, g, x, k, s),
               IF s = "SUCCESS" THEN Advance(k) ELSE Fail(s)
        PROVE  StackInv' /\ [DBNext]_dbvars
    <2>1. /\ [DBNext]_dbvars
          /\ \A i \in Prots : prot[i] \in ProtocolInterface => prot'[i] = prot[i]
          /\ s = "SUCCESS" => k \in Handles /\ (Top.handle # NULL => k = Top.handle) /\ Lookup(k, g) = {}
      BY <1>2, <1>4, InstallInterfaceStep
    <2>2. CASE s # "SUCCESS"
      BY <1>1, <1>4, <2>1, <2>2, FailStep DEF Multiples
    <2>3. CASE s = "SUCCESS"
      <3> DEFINE f == Advanced(Top, k)
      <3>1. /\ f \in Frames /\ f.op = "InstallMultiple"
            /\ MultipleState(f, k, Tail(Top.args), Append(Top.done, Head(Top.args)))
        BY <1>1, <2>1, <2>3, AdvancedFrame
      <3>2. Become(f)
        BY <1>4, <2>3 DEF Advance, Advanced
      <3> HIDE DEF f
      <3>3. ASSUME NEW j \in 2 .. Len(stack), Holds(stack[j]), NEW n \in DOMAIN f.done
            PROVE  ~Names(stack[j], k, f.done[n][1])
        <4>1. CASE n \in DOMAIN Top.done
          <5>1. Top.handle = k
            BY <1>2, <2>1, <2>3, <4>1, NullAssumption
          <5>2. f.done[n] = Top.done[n]
            BY <1>2, <3>1, <4>1 DEF MultipleState
          <5>3. QED
            BY <1>1, <3>3, <4>1, <5>1, <5>2, TopFrame DEF Spares
        <4>2. CASE n \notin DOMAIN Top.done
          <5>1. f.done[n] = Head(Top.args)
            BY <1>2, <3>1, <3>3, <4>2 DEF MultipleState
          <5>2. QED
            BY <1>1, <2>1, <2>3, <3>3, <5>1, TopFrame, NothingHeld DEF g
        <4>3. QED
          BY <4>1, <4>2
      <3>4. \A j \in 2 .. Len(stack) : Spares(f, stack[j])
        BY <3>1, <3>3 DEF Spares, MultipleState
      <3>5. QED
        BY <1>1, <2>1, <3>1, <3>2, <3>4, MultipleGoesOn DEF Multiples
    <2>4. QED
      BY <2>2, <2>3
  <1>5. QED
    BY <1>3, <1>4 DEF InstallNext, g, x

-----------------------------------------------------------------------------
(* Notification.                                                           *)

LEMMA NotifyStep ==
  ASSUME IInv, StackInv,
         \/ \E g \in Protocols, e \in Events : RegisterProtocolNotify(g, e)
         \/ \E e \in Events : UnregisterProtocolNotify(e)
         \/ \E service \in {"LocateProtocol", "LocateHandle"}, r \in Registrations :
              LocateByRegistration(service, r)
  PROVE  StackInv' /\ [DBNext]_dbvars
  <1>1. (Idle \/ InDriver) /\ \E s : Answer(s)
    BY DEF RegisterProtocolNotify, UnregisterProtocolNotify, LocateByRegistration, MayCall
  <1>2. [DBNext]_dbvars /\ prot' = prot
    <2>1. ASSUME NEW g \in Protocols, NEW e \in Events, RegisterProtocolNotify(g, e)
          PROVE  DBNext /\ prot' = prot
      BY <2>1 DEF RegisterProtocolNotify, DBNext, RegisterNotify, OnlyCreateEntry
    <2>2. ASSUME NEW e \in Events, UnregisterProtocolNotify(e)
          PROVE  DBNext /\ prot' = prot
      BY <2>2 DEF UnregisterProtocolNotify, DBNext, UnregisterNotify
    <2>3. ASSUME NEW service, NEW r \in Registrations, LocateByRegistration(service, r)
          PROVE  [DBNext]_dbvars /\ prot' = prot
      BY <2>3 DEF LocateByRegistration, DBNext, DeliverNext, dbvars
    <2>4. QED
      BY <2>1, <2>2, <2>3
  <1>3. QED
    BY <1>1, <1>2, AnswerStep

-----------------------------------------------------------------------------
(* All steps together.                                                     *)

ServicesInv == IInv /\ StackInv /\ ret \in Statuses

LEMMA StatusStep ==
  ASSUME StackInv, ret \in Statuses, [Next]_vars
  PROVE  ret' \in Statuses
  <1> USE DEF Statuses
  <1>1. CASE Services
    <2>1. ASSUME NEW h, NEW g, NEW x, NEW y,
                 \/ InstallProtocolInterface(h, g, x)
                 \/ UninstallProtocolInterface(h, g, x)
                 \/ ReinstallProtocolInterface(h, g, x, y)
          PROVE  ret' \in Statuses
      BY <2>1 DEF InstallProtocolInterface, UninstallProtocolInterface,
           ReinstallProtocolInterface, Answer, Enter
    <2>2. ASSUME NEW h, NEW g, NEW a, NEW c, NEW mode,
                 OpenProtocol(h, g, a, c, mode) \/ CloseProtocol(h, g, a, c)
          PROVE  ret' \in Statuses
      BY <2>2 DEF OpenProtocol, OpenInterface, CloseProtocol, Answer, Enter
    <2>3. ASSUME NEW h, NEW args, InstallMultiple(h, args) \/ UninstallMultiple(h, args)
          PROVE  ret' \in Statuses
      BY <2>3 DEF InstallMultiple, UninstallMultiple, Enter
    <2>4. ASSUME NEW g, NEW e, NEW service, NEW r,
                 \/ RegisterProtocolNotify(g, e) \/ UnregisterProtocolNotify(e)
                 \/ LocateByRegistration(service, r)
          PROVE  ret' \in Statuses
      BY <2>4 DEF RegisterProtocolNotify, UnregisterProtocolNotify, LocateByRegistration,
           Answer
    <2>5. QED
      BY <1>1, <2>1, <2>2, <2>3, <2>4 DEF Services
  <1>2. CASE MultipleFails
    <2>1. Top.status \in Statuses
      BY <1>2, TopFrame DEF MultipleFails, At, Frames, FrameFields
    <2>2. QED
      BY <1>2, <2>1 DEF MultipleFails, Return
  <1>3. CASE Library /\ ~MultipleFails
    BY <1>3 DEF Library, FindInterface, DisconnectDriver, DriverDisconnected, Purge,
         Reconnect, Denied, Vanished, Uninstall, Reinstall, Reinstalled, ExclusiveOpen,
         ExclusiveDenied, Disconnect, ChildrenStopped, Disconnected, CollectDrivers,
         StartDriver, CollectChildren, ConnectChild, Connected, InstallNext,
         UninstallNext, UninstalledNext, UninstallDone, ReinstallDone, MultipleSucceeds,
         Goto, Become, Call, CallFrom, Return, Fail, Advance
  <1>4. CASE Driver
    BY <1>4 DEF Driver, DriverReturns, Return
  <1>5. CASE UNCHANGED vars
    BY <1>5 DEF vars
  <1>6. QED
    BY <1>1, <1>2, <1>3, <1>4, <1>5 DEF Next

LEMMA ServicesStep ==
  ASSUME IInv, StackInv, Services
  PROVE  StackInv' /\ [DBNext]_dbvars
  <1>1. ASSUME NEW h \in Handles \cup {NULL}, NEW args \in Arguments, InstallMultiple(h, args)
        PROVE  StackInv' /\ [DBNext]_dbvars
    BY <1>1, InstallMultipleStep
  <1>2. ASSUME NEW h \in Handles, NEW args \in Arguments, UninstallMultiple(h, args)
        PROVE  StackInv' /\ [DBNext]_dbvars
    BY <1>2, UninstallMultipleStep
  <1>3. ASSUME NEW h \in Handles, NEW g \in Protocols, NEW mode \in OpenModes, NEW a \in Agents,
               NEW c \in ControllersFor(h, mode),
               OpenProtocol(h, g, a, c, mode) \/ CloseProtocol(h, g, a, c)
        PROVE  StackInv' /\ [DBNext]_dbvars
    BY <1>3, OpenProtocolStep, CloseProtocolStep
  <1>4. ASSUME NEW h \in Handles, NEW g \in Protocols, NEW x \in Interfaces,
               \/ UninstallProtocolInterface(h, g, x)
               \/ \E y \in Interfaces : ReinstallProtocolInterface(h, g, x, y)
        PROVE  StackInv' /\ [DBNext]_dbvars
    BY <1>4, UninstallStep, ReinstallStep
  <1>5. ASSUME NEW h \in Handles \cup {NULL}, NEW g \in Protocols, NEW x \in Interfaces,
               InstallProtocolInterface(h, g, x)
        PROVE  StackInv' /\ [DBNext]_dbvars
    BY <1>5, InstallStep
  <1>6. QED
    BY <1>1, <1>2, <1>3, <1>4, <1>5, NotifyStep DEF Services

LEMMA LibraryStep ==
  ASSUME IInv, StackInv, ret \in Statuses, Library
  PROVE  StackInv' /\ [DBNext]_dbvars
  BY FindInterfaceStep, DisconnectDriverStep, DriverDisconnectedStep, PurgeStep,
     ReconnectStep, UninstallReturnsStep, UninstallNowStep, ReinstallNowStep,
     ExclusiveOpenStep, ExclusiveDeniedStep, DisconnectStep, ChildrenStoppedStep,
     ReturningStep, CollectDriversStep, StartDriverStep, CollectChildrenStep,
     ConnectChildStep, InstallNextStep, UninstallNextStep, UninstalledNextStep,
     UninstallDoneStep, ReinstallDoneStep DEF Library

LEMMA InitServicesInv == Init => ServicesInv
  <1>1. SUFFICES ASSUME Init PROVE ServicesInv
    OBVIOUS
  <1>2. IInv
    BY <1>1, InitIInv DEF Init
  <1>3. StackInv /\ ret \in Statuses
    <2>1. stack = << >> /\ ret = ""
      BY <1>1 DEF Init
    <2>2. DOMAIN stack = {} /\ stack \in Seq(Frames)
      <3>1. DOMAIN << >> = {}
        OBVIOUS
      <3>2. << >> \in Seq(Frames)
        OBVIOUS
      <3>3. QED
        BY <2>1, <3>1, <3>2, Zenon
    <2>3. StackInv
      BY <2>1, <2>2, Zenon DEF StackInv, At, Idle
    <2>4. QED
      BY <2>1, <2>3 DEF Statuses
  <1>4. QED
    BY <1>2, <1>3 DEF ServicesInv

LEMMA NextServicesInv ==
  ASSUME ServicesInv, [Next]_vars PROVE ServicesInv' /\ [DBNext]_dbvars
  <1>1. IInv /\ StackInv /\ ret \in Statuses
    BY DEF ServicesInv
  <1>2. StackInv' /\ [DBNext]_dbvars
    <2>1. CASE Services
      BY <1>1, <2>1, ServicesStep
    <2>2. CASE Library
      BY <1>1, <2>2, LibraryStep
    <2>3. CASE Driver
      BY <1>1, <2>3, ReturningStep
    <2>4. CASE UNCHANGED vars
      BY <1>1, <2>4 DEF vars, dbvars, StackInv, At, Idle, Top, Find, Lookup
    <2>5. QED
      BY <2>1, <2>2, <2>3, <2>4 DEF Next
  <1>3. IInv'
    BY <1>1, <1>2, NextIInv
  <1>4. QED
    BY <1>1, <1>2, <1>3, StatusStep DEF ServicesInv

LEMMA SpecServicesInv == Spec => []ServicesInv
  <1>1. ServicesInv /\ [Next]_vars => ServicesInv'
    BY NextServicesInv
  <1>2. QED
    BY InitServicesInv, <1>1, PTL DEF Spec

(* The services, with the lock dropped half way and drivers changing the   *)
(* database meanwhile, implement the promises of the database.             *)
THEOREM ServicesRefineDatabase == Spec => ServicesImplementDatabase
  <1>1. ServicesInv /\ [Next]_vars => [DBNext]_dbvars
    BY NextServicesInv
  <1>2. Init => DBInit
    BY DEF Init
  <1>3. QED
    BY <1>1, <1>2, SpecServicesInv, PTL DEF Spec, ServicesImplementDatabase, DBSpec

-----------------------------------------------------------------------------
(* What is removed or replaced.                                            *)

InterfacesStay == \A i \in Prots : prot[i] \in ProtocolInterface => prot'[i] = prot[i]

LEMMA OpenInterfaceStays ==
  ASSUME NEW i, NEW h, NEW g, NEW a, NEW c, NEW mode, OpenInterface(i, h, g, a, c, mode)
  PROVE  prot' = prot
  BY DEF OpenInterface, RecordOpen, CountOpen, CreateOpen, SetOpenList, dbvars

LEMMA ServicesStay ==
  ASSUME IInv, Services
  PROVE  InterfacesStay
  <1>1. ASSUME NEW h \in Handles \cup {NULL}, NEW g \in Protocols, NEW x \in Interfaces,
               InstallProtocolInterface(h, g, x)
        PROVE  InterfacesStay
    BY <1>1, InstallInterfaceStep DEF InstallProtocolInterface, InterfacesStay
  <1>2. ASSUME NEW h, NEW g, NEW x, NEW y, NEW args,
               \/ UninstallProtocolInterface(h, g, x)
               \/ ReinstallProtocolInterface(h, g, x, y)
               \/ InstallMultiple(h, args)
               \/ UninstallMultiple(h, args)
        PROVE  prot' = prot
    BY <1>2 DEF UninstallProtocolInterface, ReinstallProtocolInterface, InstallMultiple,
         UninstallMultiple, dbvars
  <1>3. ASSUME NEW h, NEW g, NEW a, NEW c, NEW mode, OpenProtocol(h, g, a, c, mode)
        PROVE  prot' = prot
    BY <1>3, OpenInterfaceStays DEF OpenProtocol, dbvars
  <1>4. ASSUME NEW h, NEW g, NEW a, NEW c, CloseProtocol(h, g, a, c)
        PROVE  prot' = prot
    BY <1>4 DEF CloseProtocol, RemoveOpens, SetOpenList, dbvars
  <1>5. ASSUME NEW g, NEW e, NEW service, NEW r,
               \/ RegisterProtocolNotify(g, e) \/ UnregisterProtocolNotify(e)
               \/ LocateByRegistration(service, r)
        PROVE  prot' = prot
    BY <1>5 DEF RegisterProtocolNotify, UnregisterProtocolNotify, LocateByRegistration,
         RegisterNotify, OnlyCreateEntry, UnregisterNotify, DeliverNext, dbvars
  <1>6. prot' = prot => InterfacesStay
    BY DEF InterfacesStay
  <1>7. QED
    BY <1>1, <1>2, <1>3, <1>4, <1>5, <1>6 DEF Services

LEMMA LibraryStays ==
  ASSUME IInv, StackInv, Library, ~Uninstall, ~Reinstall
  PROVE  InterfacesStay
  <1>1. CASE InstallNext
    <2>1. /\ Top \in Frames /\ Top.op = "InstallMultiple" /\ Top.args # << >>
      BY <1>1, TopFrame DEF InstallNext, At
    <2>2. /\ Head(Top.args)[1] \in Protocols /\ Head(Top.args)[2] \in Interfaces
          /\ Top.handle \in Handles \cup {NULL}
      BY <2>1, MultipleTyped DEF Multiples
    <2>3. QED
      BY <1>1, <2>2, InstallInterfaceStep DEF InstallNext, dbvars, InterfacesStay
  <1>2. CASE ReinstallDone
    <2>1. /\ Top \in Frames /\ Top.op = "UninstallMultiple" /\ Top.done # << >>
      BY <1>2, TopFrame DEF ReinstallDone, At
    <2>2. /\ Head(Top.done)[1] \in Protocols /\ Head(Top.done)[2] \in Interfaces
          /\ Top.handle \in Handles \cup {NULL}
      BY <2>1, MultipleTyped DEF Multiples
    <2>3. QED
      BY <1>2, <2>2, InstallInterfaceStep DEF ReinstallDone, InterfacesStay
  <1>3. CASE Purge \/ ExclusiveOpen
    BY <1>3 DEF Purge, ExclusiveOpen, RemoveOpens, SetOpenList, RecordOpen, CreateOpen,
         dbvars, InterfacesStay
  <1>4. CASE ~InstallNext /\ ~ReinstallDone /\ ~Purge /\ ~ExclusiveOpen
    <2>1. UNCHANGED dbvars
      BY <1>4 DEF Library, FindInterface, DisconnectDriver, DriverDisconnected, Reconnect,
           Denied, Vanished, Reinstalled, ExclusiveDenied, Disconnect, ChildrenStopped,
           Disconnected, CollectDrivers, StartDriver, CollectChildren, ConnectChild,
           Connected, UninstallNext, UninstalledNext, UninstallDone, MultipleSucceeds,
           MultipleFails
    <2>2. QED
      BY <2>1 DEF dbvars, InterfacesStay
  <1>5. QED
    BY <1>1, <1>2, <1>3, <1>4

LEMMA StepsStay ==
  ASSUME IInv, StackInv, [Next]_vars, ~Uninstall, ~Reinstall
  PROVE  InterfacesStay
  <1>1. CASE Driver \/ UNCHANGED vars
    BY <1>1 DEF Driver, DriverReturns, dbvars, vars, InterfacesStay
  <1>2. QED
    BY <1>1, ServicesStay, LibraryStays DEF Next

(* The second look-up finds the interface by what the caller named.        *)
LEMMA NamedAgain ==
  ASSUME IInv, StackInv, NEW function \in Uninstalls, LetGo(function), NEW i \in FindAgain
  PROVE  Interface(i) = << Top.handle, Top.protocol, Top.interface >>
  <1>1. Top \in Frames /\ Top.op \in Uninstalls
    BY TopFrame DEF LetGo, At
  <1>2. Top.handle \in Handles
    BY <1>1 DEF Frames, WellFormed
  <1>3. i \in Lookup(Top.handle, Top.protocol) /\ prot[i].interface = Top.interface
    BY DEF FindAgain, Find
  <1>4. QED
    BY <1>2, <1>3, FoundInterface DEF Interface

Named ==
  \A i \in Allocated :
    prot'[i] = NULL \/ prot'[i].interface # prot[i].interface
      => Interface(i) = << Top.handle, Top.protocol, Top.interface >>

LEMMA NextNamed == ServicesInv /\ [Next]_vars => Named
  <1> SUFFICES ASSUME ServicesInv, [Next]_vars PROVE Named
    OBVIOUS
  <1>1. IInv /\ StackInv /\ prot \in [Prots -> ProtocolInterface \cup {NULL}]
    BY DEF ServicesInv, IInv, TypeOK
  <1>2. ASSUME NEW i \in FindAgain, NEW f \in Uninstalls, LetGo(f),
               \A j \in Prots : j # i => prot'[j] = prot[j]
        PROVE  Named
    <2>1. \A j \in Allocated : j # i => prot'[j] # NULL /\ prot'[j] = prot[j]
      BY <1>2 DEF Allocated
    <2>2. QED
      BY <1>1, <1>2, <2>1, NamedAgain DEF Named
  <1>3. CASE Uninstall
    <2>1. PICK i \in FindAgain : UnlinkInterface(i)
      BY <1>3 DEF Uninstall
    <2>2. \A j \in Prots : j # i => prot'[j] = prot[j]
      BY <1>1, <2>1 DEF UnlinkInterface
    <2>3. QED
      BY <1>2, <1>3, <2>1, <2>2 DEF Uninstall, Uninstalls
  <1>4. CASE Reinstall
    <2>1. PICK i \in FindAgain : RelinkInterface(i, Top.new)
      BY <1>4 DEF Reinstall
    <2>2. \A j \in Prots : j # i => prot'[j] = prot[j]
      BY <1>1, <2>1 DEF RelinkInterface
    <2>3. QED
      BY <1>2, <1>4, <2>1, <2>2 DEF Reinstall, Uninstalls
  <1>5. CASE ~Uninstall /\ ~Reinstall
    BY <1>1, <1>5, StepsStay DEF InterfacesStay, Named, Allocated
  <1>6. QED
    BY <1>3, <1>4, <1>5

(* Whatever callbacks do between looking an interface up and unlinking it, *)
(* only what the caller named is removed or replaced.                      *)
THEOREM RemovalsNamed == Spec => RemovesWhatWasNamed
  <1>1. ServicesInv /\ [Next]_vars => [Named]_vars
    BY NextNamed
  <1>2. QED
    BY <1>1, SpecServicesInv, PTL DEF Spec, RemovesWhatWasNamed, Named


(* So what the theorems of HandleDatabaseProofs say of the database holds  *)
(* between any two stretches of code of the services that hold the lock,   *)
(* whatever the drivers do while CoreUninstallProtocolInterface,           *)
(* CoreReinstallProtocolInterface or CoreOpenProtocol has dropped it.      *)
THEOREM ServicesKeepDatabase ==
  Spec => [](TypeOK /\ LinksConsistent /\ WalksConsistent /\ OpensConsistent)
  BY ServicesRefineDatabase, TypeCorrect, LinksCorrect, WalksCorrect, OpensCorrect, PTL
     DEF ServicesImplementDatabase

-----------------------------------------------------------------------------
(* The Multiple services, and exclusive access.                            *)

Triple(f) == << f.handle, f.protocol, f.interface >>

(* The interfaces in new are those that have come since before, and nobody  *)
(* has them open.                                                           *)
Added(before, new) ==
  /\ Installed = before \cup new
  /\ before \cap new = {}
  /\ \A i \in Allocated : Interface(i) \in new => openList[i] = {}

(* InstallMultipleProtocolInterfaces can take back everything it has added. *)
Undoable(f, taken) ==
  /\ f.pc \in {"enter", "rollback"}
  /\ f.pc = "rollback" => f.status # "SUCCESS"
  /\ \A m, n \in DOMAIN f.done : f.done[m][1] = f.done[n][1] => m = n
  /\ Added(f.before, Given(f) \cup taken)

(* It runs undisturbed: the only call it makes finds nothing to disconnect, *)
(* and so calls nobody.                                                     *)
MultipleInv ==
  \A k \in DOMAIN stack : stack[k].op = "InstallMultiple" =>
    \/ k = 1 /\ Undoable(stack[k], {})
    \/ /\ k = 2 /\ Top.op = "Uninstall" /\ Top.pc \in {"enter", "scan", "purged"}
       /\ stack[k].pc = "rollback"
       /\ Triple(Top) \notin Given(stack[k])
       /\ Undoable(stack[k], {Triple(Top)})

-----------------------------------------------------------------------------
(* What a step leaves of the calls that were there before: numbered from   *)
(* the client upwards, all but the running one stay as they are, and the   *)
(* running one keeps its arguments.                                        *)

SameWork(f, g) ==
  /\ g.op = f.op /\ g.handle = f.handle /\ g.protocol = f.protocol
  /\ g.interface = f.interface /\ g.args = f.args /\ g.done = f.done
  /\ g.status = f.status /\ g.before = f.before
  /\ f.op = "Open" => g.prot = f.prot

Below(k) == k + Len(stack) - Len(stack')

Kept ==
  /\ stack' \in Seq(Frames)
  /\ Len(stack') \in {Len(stack) - 1, Len(stack), Len(stack) + 1}
  /\ \A k \in DOMAIN stack' : Below(k) \in DOMAIN stack =>
       /\ SameWork(stack[Below(k)], stack'[k])
       /\ Below(k) > 1 => stack'[k] = stack[Below(k)]

LEMMA SameItself == \A f : SameWork(f, f)
  BY DEF SameWork

LEMMA SameAfterExcept ==
  ASSUME NEW f \in Frames, NEW pc, NEW todo
  PROVE  /\ SameWork(f, [f EXCEPT !.pc = pc])
         /\ f.op # "Open" => SameWork(f, [f EXCEPT !.pc = pc, !.prot = NULL])
         /\ SameWork(f, [f EXCEPT !.todo = todo])
         /\ SameWork(f, [f EXCEPT !.pc = pc, !.todo = todo])
  <1>1. f \in FrameFields
    BY DEF Frames
  <1>2. SameWork(f, [f EXCEPT !.pc = pc])
    BY <1>1, Zenon DEF FrameFields, SameWork
  <1>3. f.op # "Open" => SameWork(f, [f EXCEPT !.pc = pc, !.prot = NULL])
    BY <1>1, Zenon DEF FrameFields, SameWork
  <1>4. SameWork(f, [f EXCEPT !.todo = todo])
    BY <1>1, Zenon DEF FrameFields, SameWork
  <1>5. SameWork(f, [f EXCEPT !.pc = pc, !.todo = todo])
    BY <1>1, Zenon DEF FrameFields, SameWork
  <1>6. QED
    BY <1>2, <1>3, <1>4, <1>5

LEMMA KeptAnswer ==
  ASSUME StackInv, stack' = stack
  PROVE  Kept
  <1>1. stack \in Seq(Frames) /\ Len(stack') = Len(stack)
    BY DEF StackInv
  <1>2. \A k \in DOMAIN stack' : Below(k) = k
    BY <1>1 DEF Below
  <1>3. QED
    BY <1>1, <1>2, SameItself DEF Kept

LEMMA EnterShape ==
  ASSUME stack \in Seq(Frames), NEW f, Enter(f), stack' \in Seq(Frames)
  PROVE  /\ Len(stack') = Len(stack) + 1 /\ stack'[1] = f
         /\ \A k \in 2 .. Len(stack) + 1 : stack'[k] = stack[k - 1]
  <1>1. stack' = << f >> \o stack
    BY DEF Enter
  <1>2. /\ Len(<< f >> \o stack) = Len(stack) + 1
        /\ (<< f >> \o stack)[1] = f
        /\ \A k \in 2 .. Len(stack) + 1 : (<< f >> \o stack)[k] = stack[k - 1]
    OBVIOUS
  <1>3. QED
    BY <1>1, <1>2

LEMMA ReturnShape ==
  ASSUME stack \in Seq(Frames), stack # << >>, NEW s, Return(s)
  PROVE  /\ Len(stack') = Len(stack) - 1
         /\ \A k \in 1 .. Len(stack) - 1 : stack'[k] = stack[k + 1]
  <1>1. stack' = Tail(stack)
    BY DEF Return
  <1>2. QED
    BY <1>1, Popped

LEMMA CallShape ==
  ASSUME stack \in Seq(Frames), stack # << >>, NEW f, NEW me, Call(f, me)
  PROVE  /\ Len(stack') = Len(stack) + 1 /\ stack'[1] = f /\ stack'[2] = me
         /\ \A k \in 3 .. Len(stack) + 1 : stack'[k] = stack[k - 1]
  <1> DEFINE t == << f, me >> \o Tail(stack)
  <1>1. stack' = t
    BY DEF Call
  <1>2. /\ Len(t) = Len(stack) + 1 /\ t[1] = f /\ t[2] = me
        /\ \A k \in 3 .. Len(stack) + 1 : t[k] = stack[k - 1]
    OBVIOUS
  <1> HIDE DEF t
  <1>3. QED
    BY <1>1, <1>2

LEMMA BecomeShape ==
  ASSUME stack \in Seq(Frames), stack # << >>, NEW f, Become(f)
  PROVE  /\ Len(stack') = Len(stack) /\ stack'[1] = f
         /\ \A k \in 2 .. Len(stack) : stack'[k] = stack[k]
  <1> DEFINE t == << f >> \o Tail(stack)
  <1>1. stack' = t
    BY DEF Become
  <1>2. /\ Len(t) = Len(stack) /\ t[1] = f
        /\ \A k \in 2 .. Len(stack) : t[k] = stack[k]
    OBVIOUS
  <1> HIDE DEF t
  <1>3. QED
    BY <1>1, <1>2

LEMMA KeptBecome ==
  ASSUME StackInv, StackInv', ~Idle, NEW f, Become(f), SameWork(Top, f)
  PROVE  Kept
  <1>1. stack \in Seq(Frames) /\ stack # << >> /\ stack' \in Seq(Frames)
    BY DEF StackInv, Idle
  <1>2. /\ Len(stack') = Len(stack) /\ stack'[1] = f /\ stack[1] = Top
        /\ \A k \in 2 .. Len(stack) : stack'[k] = stack[k]
    BY <1>1, BecomeShape DEF Top
  <1> DOMAIN stack = 1 .. Len(stack) /\ DOMAIN stack' = 1 .. Len(stack') /\ Len(stack) \in Nat
    BY <1>1
  <1>3. \A k \in DOMAIN stack' : Below(k) = k
    BY <1>1, <1>2 DEF Below
  <1>4. ASSUME NEW k \in DOMAIN stack'
        PROVE  SameWork(stack[k], stack'[k]) /\ (k > 1 => stack'[k] = stack[k])
    BY <1>1, <1>2, SameItself
  <1>5. QED
    BY <1>1, <1>2, <1>3, <1>4 DEF Kept

LEMMA KeptEnter ==
  ASSUME StackInv, StackInv', NEW f, Enter(f)
  PROVE  Kept
  <1>1. stack \in Seq(Frames) /\ stack' \in Seq(Frames)
    BY DEF StackInv
  <1>2. /\ Len(stack') = Len(stack) + 1
        /\ \A k \in 2 .. Len(stack) + 1 : stack'[k] = stack[k - 1]
    BY <1>1, EnterShape
  <1> DOMAIN stack = 1 .. Len(stack) /\ DOMAIN stack' = 1 .. Len(stack') /\ Len(stack) \in Nat
    BY <1>1
  <1>3. \A k \in DOMAIN stack' : Below(k) = k - 1
    BY <1>1, <1>2 DEF Below
  <1>4. ASSUME NEW k \in DOMAIN stack', k - 1 \in DOMAIN stack
        PROVE  SameWork(stack[k - 1], stack'[k]) /\ stack'[k] = stack[k - 1]
    BY <1>1, <1>2, <1>4, SameItself
  <1>5. QED
    BY <1>1, <1>2, <1>3, <1>4 DEF Kept

LEMMA KeptCall ==
  ASSUME StackInv, StackInv', ~Idle, NEW f, NEW me, Call(f, me), SameWork(Top, me)
  PROVE  Kept
  <1>1. stack \in Seq(Frames) /\ stack # << >> /\ stack' \in Seq(Frames)
    BY DEF StackInv, Idle
  <1>2. /\ Len(stack') = Len(stack) + 1 /\ stack'[2] = me /\ stack[1] = Top
        /\ \A k \in 3 .. Len(stack) + 1 : stack'[k] = stack[k - 1]
    BY <1>1, CallShape DEF Top
  <1> DOMAIN stack = 1 .. Len(stack) /\ DOMAIN stack' = 1 .. Len(stack') /\ Len(stack) \in Nat
    BY <1>1
  <1>3. \A k \in DOMAIN stack' : Below(k) = k - 1
    BY <1>1, <1>2 DEF Below
  <1>4. ASSUME NEW k \in DOMAIN stack', k - 1 \in DOMAIN stack
        PROVE  SameWork(stack[k - 1], stack'[k]) /\ (k - 1 > 1 => stack'[k] = stack[k - 1])
    BY <1>1, <1>2, <1>4, SameItself
  <1>5. QED
    BY <1>1, <1>2, <1>3, <1>4 DEF Kept

LEMMA KeptReturn ==
  ASSUME StackInv, StackInv', ~Idle, NEW s, Return(s)
  PROVE  Kept
  <1>1. stack \in Seq(Frames) /\ stack # << >> /\ stack' \in Seq(Frames)
    BY DEF StackInv, Idle
  <1>2. /\ Len(stack') = Len(stack) - 1
        /\ \A k \in 1 .. Len(stack) - 1 : stack'[k] = stack[k + 1]
    BY <1>1, ReturnShape
  <1> DOMAIN stack = 1 .. Len(stack) /\ DOMAIN stack' = 1 .. Len(stack') /\ Len(stack) \in Nat
    BY <1>1
  <1>3. \A k \in DOMAIN stack' : Below(k) = k + 1
    BY <1>1, <1>2 DEF Below
  <1>4. ASSUME NEW k \in DOMAIN stack'
        PROVE  SameWork(stack[k + 1], stack'[k]) /\ stack'[k] = stack[k + 1]
    BY <1>1, <1>2, SameItself
  <1>5. QED
    BY <1>1, <1>2, <1>3, <1>4 DEF Kept

MultipleWork ==
  InstallNext \/ UninstallNext \/ UninstalledNext \/ UninstallDone \/ ReinstallDone

LEMMA KeptStep ==
  ASSUME StackInv, StackInv', [Next]_vars, ~MultipleWork
  PROVE  Kept
  <1>1. ASSUME NEW s, Answer(s) PROVE Kept
    BY <1>1, KeptAnswer DEF Answer
  <1>2. CASE Services
    <2>1. (\E s : Answer(s)) \/ (\E f : Enter(f))
      <3>1. ASSUME NEW h, NEW g, NEW x, NEW y,
                   \/ InstallProtocolInterface(h, g, x)
                   \/ UninstallProtocolInterface(h, g, x)
                   \/ ReinstallProtocolInterface(h, g, x, y)
            PROVE  (\E s : Answer(s)) \/ (\E f : Enter(f))
        BY <3>1 DEF InstallProtocolInterface, UninstallProtocolInterface,
             ReinstallProtocolInterface
      <3>2. ASSUME NEW h, NEW g, NEW a, NEW c, NEW mode,
                   OpenProtocol(h, g, a, c, mode) \/ CloseProtocol(h, g, a, c)
            PROVE  (\E s : Answer(s)) \/ (\E f : Enter(f))
        BY <3>2 DEF OpenProtocol, OpenInterface, CloseProtocol
      <3>3. ASSUME NEW h, NEW args, InstallMultiple(h, args) \/ UninstallMultiple(h, args)
            PROVE  \E f : Enter(f)
        BY <3>3 DEF InstallMultiple, UninstallMultiple
      <3>4. ASSUME NEW g, NEW e, NEW service, NEW r,
                   \/ RegisterProtocolNotify(g, e) \/ UnregisterProtocolNotify(e)
                   \/ LocateByRegistration(service, r)
            PROVE  \E s : Answer(s)
        BY <3>4 DEF RegisterProtocolNotify, UnregisterProtocolNotify, LocateByRegistration
      <3>5. QED
        BY <1>2, <3>1, <3>2, <3>3, <3>4 DEF Services
    <2>2. QED
      BY <1>1, <2>1, KeptEnter
  <1>3. CASE Library /\ ~Idle
    <2>1. Top \in Frames
      BY <1>3, TopFrame
    <2>2. \/ \E s : Return(s)
          \/ \E pc : Goto(pc)
          \/ \E pc, todo : Become([Top EXCEPT !.pc = pc, !.todo = todo])
          \/ \E f, pc : Call(f, [Top EXCEPT !.pc = pc])
          \/ \E f, todo : Call(f, [Top EXCEPT !.todo = todo])
          \/ Top.op # "Open" /\ \E f, pc : Call(f, [Top EXCEPT !.pc = pc, !.prot = NULL])
          \/ \E i : Become([Top EXCEPT !.pc = "scan", !.prot = i]) /\ Top.op # "Open"
      <3>1. CASE FindInterface \/ DisconnectDriver \/ DriverDisconnected \/ Purge
        BY <3>1 DEF FindInterface, DisconnectDriver, DriverDisconnected, Purge, CallFrom,
             At, Uninstalls
      <3>2. CASE Reconnect \/ Denied \/ Vanished \/ Uninstall \/ Reinstall \/ Reinstalled
        BY <3>2 DEF Reconnect, Denied, Vanished, Uninstall, Reinstall, Reinstalled, At,
             Uninstalls, LetGo
      <3>3. CASE ExclusiveOpen \/ ExclusiveDenied \/ Disconnect \/ ChildrenStopped \/ Disconnected
        BY <3>3 DEF ExclusiveOpen, ExclusiveDenied, Disconnect, ChildrenStopped,
             Disconnected, CallFrom
      <3>4. CASE CollectDrivers \/ StartDriver \/ CollectChildren \/ ConnectChild \/ Connected
                 \/ MultipleSucceeds \/ MultipleFails
        BY <3>4 DEF CollectDrivers, StartDriver, CollectChildren, ConnectChild, Connected,
             MultipleSucceeds, MultipleFails
      <3>5. QED
        BY <1>3, <3>1, <3>2, <3>3, <3>4 DEF Library, MultipleWork
    <2>3. ASSUME NEW i, Top.op # "Open"
          PROVE  SameWork(Top, [Top EXCEPT !.pc = "scan", !.prot = i])
      BY <2>1, <2>3, Zenon DEF Frames, FrameFields, SameWork
    <2>4. CASE \E s : Return(s)
      BY <1>3, <2>4, KeptReturn
    <2>5. CASE \E i : Become([Top EXCEPT !.pc = "scan", !.prot = i]) /\ Top.op # "Open"
      BY <1>3, <2>3, <2>5, KeptBecome
    <2>6. CASE \/ \E pc : Goto(pc)
               \/ \E pc, todo : Become([Top EXCEPT !.pc = pc, !.todo = todo])
      BY <1>3, <2>1, <2>6, KeptBecome, SameAfterExcept DEF Goto
    <2>7. CASE \/ \E f, pc : Call(f, [Top EXCEPT !.pc = pc])
               \/ \E f, todo : Call(f, [Top EXCEPT !.todo = todo])
               \/ Top.op # "Open" /\ \E f, pc : Call(f, [Top EXCEPT !.pc = pc, !.prot = NULL])
      BY <1>3, <2>1, <2>7, KeptCall, SameAfterExcept
    <2>8. QED
      BY <2>2, <2>4, <2>5, <2>6, <2>7
  <1>4. CASE Driver
    BY <1>4, KeptReturn DEF Driver, DriverReturns, InDriver
  <1>5. CASE UNCHANGED vars
    BY <1>5, KeptAnswer DEF vars
  <1>6. Library => ~Idle
    BY DEF Library, FindInterface, DisconnectDriver, DriverDisconnected, Purge,
         Reconnect, Denied, Vanished, Uninstall, Reinstall, Reinstalled, ExclusiveOpen,
         ExclusiveDenied, Disconnect, ChildrenStopped, Disconnected, CollectDrivers,
         StartDriver, CollectChildren, ConnectChild, Connected, InstallNext,
         UninstallNext, UninstalledNext, UninstallDone, ReinstallDone, MultipleSucceeds,
         MultipleFails, LetGo, At
  <1>7. QED
    BY <1>2, <1>3, <1>4, <1>5, <1>6 DEF Next

-----------------------------------------------------------------------------
(* What the changes of the database do to the set of interfaces.           *)

LEMMA InstalledSame ==
  ASSUME prot' = prot
  PROVE  /\ Installed' = Installed /\ Allocated' = Allocated
         /\ \A i \in Allocated : Interface(i)' = Interface(i)
  BY DEF Installed, Allocated, Interface

(* No interface of a GUID is installed on a handle where none is found.    *)
LEMMA NotInstalled ==
  ASSUME IInv, NEW h \in Handles, NEW g, Lookup(h, g) = {}, NEW t \in Installed
  PROVE  t[1] # h \/ t[2] # g
  <1>1. PICK i \in Allocated : t = Interface(i)
    BY DEF Installed
  <1>2. prot[i].handle = h /\ prot[i].protocol = g => i \in Lookup(h, g)
    BY DEF Lookup, IInv, Links, ListsAgree, HandleLifetime
  <1>3. QED
    BY <1>1, <1>2 DEF Interface

(* An interface that is installed is found by its name, on a live handle.  *)
LEMMA InstalledFound ==
  ASSUME IInv, NEW h \in Handles, NEW g, NEW x, << h, g, x >> \in Installed
  PROVE  h \in handles /\ \E i \in Find(h, g, x) : i \in Allocated /\ Interface(i) = << h, g, x >>
  <1>1. PICK i \in Allocated : << h, g, x >> = Interface(i)
    BY DEF Installed
  <1>2. prot[i].handle = h /\ prot[i].protocol = g /\ prot[i].interface = x
    BY <1>1 DEF Interface
  <1>3. QED
    BY <1>1, <1>2 DEF Find, Lookup, IInv, Links, ListsAgree, HandleLifetime

LEMMA InstalledAdd ==
  ASSUME IInv, NEW h \in Handles, NEW g \in Protocols, NEW x \in Interfaces, NEW i \in Prots,
         LinkInterface(h, g, x, i)
  PROVE  /\ Installed' = Installed \cup {<< h, g, x >>}
         /\ openList'[i] = {} /\ Interface(i)' = << h, g, x >>
         /\ \A j \in Prots : j # i => openList'[j] = openList[j] /\ prot'[j] = prot[j]
  <1>1. /\ prot \in [Prots -> ProtocolInterface \cup {NULL}] /\ prot[i] = NULL
        /\ openList \in [Prots -> SUBSET OpenProtocolData]
    BY DEF IInv, TypeOK, LinkInterface
  <1> DEFINE new == [handle |-> h, protocol |-> g, interface |-> x]
  <1>2. new \in ProtocolInterface /\ new # NULL
    BY FreeMemoryAssumption DEF ProtocolInterface
  <1>3. /\ prot' = [prot EXCEPT ![i] = new]
        /\ openList' = [openList EXCEPT ![i] = {}]
    BY DEF LinkInterface
  <1> HIDE DEF new
  <1>4. /\ prot'[i] = new /\ openList'[i] = {}
        /\ \A j \in Prots : j # i => openList'[j] = openList[j] /\ prot'[j] = prot[j]
    BY <1>1, <1>3
  <1>5. Interface(i)' = << h, g, x >>
    BY <1>4 DEF Interface, new
  <1>6. Allocated' = Allocated \cup {i} /\ i \notin Allocated
    BY <1>1, <1>2, <1>4 DEF Allocated
  <1>7. \A j \in Allocated : Interface(j)' = Interface(j)
    BY <1>4, <1>6 DEF Interface, Allocated
  <1>8. QED
    BY <1>4, <1>5, <1>6, <1>7 DEF Installed

LEMMA InstalledRemove ==
  ASSUME IInv, NEW i \in Prots, UnlinkInterface(i)
  PROVE  /\ Installed' = Installed \ {Interface(i)}
         /\ Allocated' = Allocated \ {i} /\ openList' = openList
         /\ \A j \in Allocated' : Interface(j)' = Interface(j)
  <1>1. prot \in [Prots -> ProtocolInterface \cup {NULL}] /\ i \in Allocated
    BY DEF IInv, TypeOK, UnlinkInterface
  <1>2. prot' = [prot EXCEPT ![i] = NULL] /\ openList' = openList
    BY DEF UnlinkInterface
  <1>3. prot'[i] = NULL /\ \A j \in Prots : j # i => prot'[j] = prot[j]
    BY <1>1, <1>2
  <1>4. Allocated' = Allocated \ {i}
    BY <1>3 DEF Allocated
  <1>5. \A j \in Allocated' : Interface(j)' = Interface(j)
    BY <1>3, <1>4 DEF Interface, Allocated
  <1>6. \A j \in Allocated : Interface(j) = Interface(i) => j = i
    BY <1>1 DEF Interface, IInv, Links, UniqueProtocol
  <1>7. QED
    BY <1>1, <1>2, <1>4, <1>5, <1>6 DEF Installed

-----------------------------------------------------------------------------
(* What the Multiple services have done so far.                            *)

LEMMA GivenNone == ASSUME NEW f, f.done = << >> PROVE Given(f) = {}
  <1>1. DOMAIN << >> = {}
    OBVIOUS
  <1>2. DOMAIN f.done = {}
    BY <1>1, Zenon
  <1>3. QED
    BY <1>2, Zenon DEF Given

LEMMA PairTriple ==
  ASSUME NEW h, NEW p \in Pairs
  PROVE  << h >> \o p = << h, p[1], p[2] >>
  <1>1. PICK g \in Protocols, x \in Interfaces : p = << g, x >>
    BY DEF Pairs
  <1>2. << h >> \o << g, x >> = << h, g, x >>
    <2> DEFINE S == {h, g, x}
               u == << h >> \o << g, x >>
               v == << h, g, x >>
    <2>1. << h >> \in Seq(S) /\ << g, x >> \in Seq(S) /\ v \in Seq(S)
      OBVIOUS
    <2>2. u \in Seq(S) /\ Len(u) = 3 /\ u[1] = h /\ u[2] = g /\ u[3] = x
      BY <2>1
    <2>3. Len(v) = 3 /\ v[1] = h /\ v[2] = g /\ v[3] = x
      OBVIOUS
    <2> HIDE DEF S, u, v
    <2>4. \A i \in 1 .. 3 : u[i] = v[i]
      BY <2>2, <2>3
    <2>5. u = v
      BY <2>1, <2>2, <2>3, <2>4, SeqEqual
    <2>6. QED
      BY <2>5 DEF u, v
  <1>3. QED
    BY <1>1, <1>2

LEMMA GivenTriples ==
  ASSUME NEW f, f.done \in Seq(Pairs)
  PROVE  Given(f) = { << f.handle, f.done[k][1], f.done[k][2] >> : k \in DOMAIN f.done }
  <1>1. \A k \in DOMAIN f.done : << f.handle >> \o f.done[k] = << f.handle, f.done[k][1], f.done[k][2] >>
    BY PairTriple
  <1>2. QED
    BY <1>1, Zenon DEF Given

LEMMA GivenSame ==
  ASSUME NEW f, NEW g, g.handle = f.handle, g.done = f.done
  PROVE  Given(g) = Given(f)
  BY DEF Given

LEMMA GivenAppend ==
  ASSUME NEW f, NEW g, f.done \in Seq(Pairs), NEW p \in Pairs,
         g.done = Append(f.done, p), f.done # << >> => g.handle = f.handle
  PROVE  Given(g) = Given(f) \cup {<< g.handle, p[1], p[2] >>}
  <1>1. g.done \in Seq(Pairs) /\ DOMAIN g.done = DOMAIN f.done \cup {Len(f.done) + 1}
        /\ g.done[Len(f.done) + 1] = p /\ \A k \in DOMAIN f.done : g.done[k] = f.done[k]
    OBVIOUS
  <1>2. f.done # << >> \/ DOMAIN f.done = {}
    OBVIOUS
  <1>3. \A k \in DOMAIN f.done : g.handle = f.handle
    BY <1>2
  <1>4. Given(f) = { << f.handle, f.done[k][1], f.done[k][2] >> : k \in DOMAIN f.done }
    BY GivenTriples
  <1>5. Given(g) = { << g.handle, g.done[k][1], g.done[k][2] >> : k \in DOMAIN g.done }
    BY <1>1, GivenTriples
  <1>6. QED
    BY <1>1, <1>3, <1>4, <1>5

LEMMA GivenTail ==
  ASSUME NEW f, NEW g, f.done \in Seq(Pairs), f.done # << >>,
         g.handle = f.handle, g.done = Tail(f.done)
  PROVE  Given(f) = Given(g) \cup {<< f.handle, Head(f.done)[1], Head(f.done)[2] >>}
  <1>1. /\ g.done \in Seq(Pairs) /\ f.done[1] = Head(f.done)
        /\ \A k \in DOMAIN g.done : k + 1 \in DOMAIN f.done /\ g.done[k] = f.done[k + 1]
        /\ \A k \in DOMAIN f.done : k = 1 \/ (k - 1 \in DOMAIN g.done /\ f.done[k] = g.done[k - 1])
        /\ 1 \in DOMAIN f.done
    OBVIOUS
  <1>2. Given(f) = { << f.handle, f.done[k][1], f.done[k][2] >> : k \in DOMAIN f.done }
    BY GivenTriples
  <1>3. Given(g) = { << g.handle, g.done[k][1], g.done[k][2] >> : k \in DOMAIN g.done }
    BY <1>1, GivenTriples
  <1>4. ASSUME NEW t \in Given(f)
        PROVE  t \in Given(g) \/ t = << f.handle, Head(f.done)[1], Head(f.done)[2] >>
    <2>1. PICK k \in DOMAIN f.done : t = << f.handle, f.done[k][1], f.done[k][2] >>
      BY <1>2
    <2>2. CASE k = 1
      BY <1>1, <2>1, <2>2
    <2>3. CASE k # 1
      BY <1>1, <1>3, <2>1, <2>3
    <2>4. QED
      BY <2>2, <2>3
  <1>5. ASSUME NEW t \in Given(g) PROVE t \in Given(f)
    <2>1. PICK k \in DOMAIN g.done : t = << g.handle, g.done[k][1], g.done[k][2] >>
      BY <1>3
    <2>2. QED
      BY <1>1, <1>2, <2>1
  <1>6. << f.handle, Head(f.done)[1], Head(f.done)[2] >> \in Given(f)
    BY <1>1, <1>2
  <1>7. QED
    BY <1>4, <1>5, <1>6

-----------------------------------------------------------------------------
(* InstallMultipleProtocolInterfaces is undisturbed.                       *)

LEMMA AddedKept ==
  ASSUME NEW before, NEW new, Added(before, new), prot' = prot,
         \A i \in Prots : openList'[i] \subseteq openList[i]
  PROVE  Added(before, new)'
  BY InstalledSame DEF Added, Allocated

(* Its interfaces are found, and have nobody to disconnect.                *)
LEMMA AddedFound ==
  ASSUME IInv, NEW before, NEW new, Added(before, new),
         NEW h \in Handles, NEW g, NEW x, << h, g, x >> \in new
  PROVE  /\ h \in handles /\ Find(h, g, x) # {}
         /\ \A i \in Prots : prot[i] \in ProtocolInterface /\ prot[i].handle = h /\ prot[i].protocol = g =>
              Interface(i) = << h, g, x >> /\ openList[i] = {} /\ openListCount[i] = 0
  <1>1. << h, g, x >> \in Installed
    BY DEF Added
  <1>2. h \in handles /\ \E i \in Find(h, g, x) : i \in Allocated /\ Interface(i) = << h, g, x >>
    BY <1>1, InstalledFound
  <1>3. PICK i \in Find(h, g, x) : i \in Allocated /\ Interface(i) = << h, g, x >>
    BY <1>2
  <1>4. \A j \in Prots : prot[j] \in ProtocolInterface /\ prot[j].handle = h /\ prot[j].protocol = g => j = i
    BY OneInterface
  <1>5. openList[i] = {} /\ openListCount[i] = 0
    <2>1. openList[i] = {}
      BY <1>3 DEF Added
    <2>2. openListCount[i] = Cardinality(openList[i])
      BY <1>3 DEF IInv, Opens, OpenCountsAgree, Allocated
    <2>3. QED
      BY <2>1, <2>2, FS_EmptySet
  <1>6. QED
    BY <1>2, <1>3, <1>4, <1>5

NoInstallMultiple == \A k \in DOMAIN stack : stack[k].op # "InstallMultiple"

(* It begins with nothing done; no other one is under way.                 *)
LEMMA MultipleBegins ==
  ASSUME IInv, StackInv, NoInstallMultiple, NEW h \in Handles \cup {NULL}, NEW args \in Arguments,
         InstallMultiple(h, args)
  PROVE  MultipleInv'
  <1>1. PICK f : f = MultipleFrame("InstallMultiple", h, args)
    OBVIOUS
  <1>2. /\ f \in Frames /\ f.pc = "enter" /\ f.done = << >> /\ f.before = Installed
    BY <1>1, NewMultiple, ArgumentsType, InstalledType DEF Multiples, IInv
  <1>3. Enter(f) /\ Installed' = Installed
    BY <1>1, InstalledSame DEF InstallMultiple, dbvars
  <1>4. Given(f) = {}
    BY <1>2, GivenNone
  <1>5. \A m, n \in DOMAIN f.done : FALSE
    <2>1. DOMAIN << >> = {}
      OBVIOUS
    <2>2. QED
      BY <1>2, <2>1, Zenon
  <1>6. Undoable(f, {})'
    BY <1>2, <1>3, <1>4, <1>5 DEF Undoable, Added, Given
  <1>7. stack \in Seq(Frames)
    BY DEF StackInv
  <1>8. stack' \in Seq(Frames)
    BY <1>2, <1>3, <1>7, Pushed DEF Enter
  <1>9. /\ Len(stack') = Len(stack) + 1 /\ stack'[1] = f
        /\ \A k \in 2 .. Len(stack) + 1 : stack'[k] = stack[k - 1]
    BY <1>3, <1>7, <1>8, EnterShape
  <1>10. ASSUME NEW k \in DOMAIN stack', stack'[k].op = "InstallMultiple" PROVE k = 1
    <2>1. k \in 1 .. Len(stack) + 1 /\ Len(stack) \in Nat
      BY <1>7, <1>8, <1>9
    <2>2. ASSUME k # 1 PROVE FALSE
      <3>1. k - 1 \in DOMAIN stack /\ stack'[k] = stack[k - 1]
        BY <1>7, <1>9, <2>1, <2>2
      <3>2. QED
        BY <1>10, <3>1 DEF NoInstallMultiple
    <2>3. QED
      BY <2>2
  <1>11. QED
    BY <1>6, <1>9, <1>10 DEF MultipleInv

-----------------------------------------------------------------------------
(* Which call can be on top of which.                                      *)

LEMMA CalledOps ==
  ASSUME NEW h, NEW g, NEW x, NEW d, NEW S
  PROVE  /\ UninstallFrame(h, g, x).op = "Uninstall"
         /\ ConnectFrame(h).op = "Connect" /\ DisconnectFrame(h, d).op = "Disconnect"
         /\ StartFrame(h, d).op = "Start" /\ StopFrame(h, d, S).op = "Stop"
  <1>1. \A f \in Functions : Frame(f) \in FrameFields /\ Frame(f).op = f
    BY NewFrame
  <1>2. [Frame("Uninstall") EXCEPT !.handle = h, !.protocol = g, !.interface = x].op = "Uninstall"
    BY <1>1, Zenon DEF FrameFields, Functions
  <1>3. ConnectFrame(h).op = "Connect" /\ DisconnectFrame(h, d).op = "Disconnect"
    BY <1>1, Zenon DEF FrameFields, Functions, ConnectFrame, DisconnectFrame
  <1>4. StartFrame(h, d).op = "Start" /\ StopFrame(h, d, S).op = "Stop"
    BY <1>1, Zenon DEF FrameFields, Functions, StartFrame, StopFrame
  <1>5. QED
    BY <1>2, <1>3, <1>4 DEF UninstallFrame

LEMMA ReinstallOp ==
  ASSUME NEW h, NEW g, NEW x, NEW y
  PROVE  ReinstallFrame(h, g, x, y).op = "Reinstall"
  <1>1. \A f \in Functions : Frame(f) \in FrameFields /\ Frame(f).op = f
    BY NewFrame
  <1>2. QED
    BY <1>1, Zenon DEF FrameFields, Functions, ReinstallFrame, UninstallFrame

LEMMA OpenOp ==
  ASSUME NEW h, NEW g, NEW i, NEW a, NEW c, NEW mode
  PROVE  LET f == OpenFrame(h, g, i, a, c, mode) IN
         f.op = "Open" /\ f.prot = i /\ f.pc = "scan"
  <1> DEFINE f == [Frame("Open") EXCEPT !.pc = "scan", !.handle = h, !.protocol = g,
                      !.prot = i, !.agent = a, !.controller = c, !.attributes = mode]
  <1>1. Frame("Open") \in FrameFields /\ Frame("Open").op = "Open"
    BY NewFrame DEF Functions
  <1>2. f.op = "Open" /\ f.prot = i /\ f.pc = "scan"
    BY <1>1, Zenon DEF FrameFields
  <1>3. QED
    BY <1>2 DEF OpenFrame

LEMMA MultipleOp ==
  ASSUME NEW function \in Multiples, NEW h, NEW args
  PROVE  MultipleFrame(function, h, args).op = function
  <1>1. Frame(function) \in FrameFields /\ Frame(function).op = function
    BY NewFrame DEF Functions, Multiples
  <1>2. QED
    BY <1>1, Zenon DEF FrameFields, MultipleFrame

OpenService ==
  \E h \in Handles, g \in Protocols, mode \in OpenModes, a \in Agents :
    \E c \in ControllersFor(h, mode) : OpenProtocol(h, g, a, c, mode)

(* A service that enters a call.                                           *)
Begun(op) ==
  \/ op = "Uninstall" /\ MayCall("Uninstall")
  \/ op = "Reinstall" /\ MayCall("Reinstall")
  \/ op = "Open" /\ OpenService
  \/ op = "InstallMultiple" /\ MayCall("InstallMultiple")
       /\ \E h \in Handles \cup {NULL}, args \in Arguments :
            InstallMultiple(h, args)
  \/ op = "UninstallMultiple" /\ MayCall("UninstallMultiple")
       /\ \E h \in Handles, args \in Arguments : UninstallMultiple(h, args)

LEMMA ServicesBegin ==
  ASSUME StackInv, StackInv', Services, Len(stack') = Len(stack) + 1
  PROVE  Begun(stack'[1].op) /\ UNCHANGED dbvars
  <1>1. stack \in Seq(Frames) /\ stack' \in Seq(Frames)
    BY DEF StackInv
  <1>2. ASSUME NEW f, Enter(f) PROVE stack'[1] = f
    BY <1>1, <1>2, EnterShape
  <1>3. ASSUME NEW s, Answer(s) PROVE FALSE
    BY <1>1, <1>3 DEF Answer
  <1>4. ASSUME NEW h, NEW g, NEW x, NEW y,
               \/ InstallProtocolInterface(h, g, x)
               \/ UninstallProtocolInterface(h, g, x)
               \/ ReinstallProtocolInterface(h, g, x, y)
        PROVE  Begun(stack'[1].op) /\ UNCHANGED dbvars
    <2>1. \/ /\ MayCall("Uninstall") /\ Enter(UninstallFrame(h, g, x)) /\ UNCHANGED dbvars
          \/ /\ MayCall("Reinstall") /\ Enter(ReinstallFrame(h, g, x, y)) /\ UNCHANGED dbvars
      BY <1>3, <1>4 DEF InstallProtocolInterface, UninstallProtocolInterface,
         ReinstallProtocolInterface
    <2>2. UninstallFrame(h, g, x).op = "Uninstall" /\ ReinstallFrame(h, g, x, y).op = "Reinstall"
      BY CalledOps, ReinstallOp
    <2>3. QED
      BY <1>2, <2>1, <2>2 DEF Begun
  <1>5. ASSUME NEW h \in Handles, NEW g \in Protocols, NEW mode \in OpenModes,
               NEW a \in Agents, NEW c \in ControllersFor(h, mode),
               OpenProtocol(h, g, a, c, mode)
        PROVE  Begun(stack'[1].op) /\ UNCHANGED dbvars
    <2>1. UNCHANGED dbvars /\ \E i : Enter(OpenFrame(h, g, i, a, c, mode))
      BY <1>3, <1>5 DEF OpenProtocol, OpenInterface
    <2>2. OpenService
      BY <1>5 DEF OpenService
    <2>3. QED
      BY <1>2, <2>1, <2>2, OpenOp DEF Begun
  <1>10. ASSUME NEW h, NEW g, NEW a, NEW c, CloseProtocol(h, g, a, c) PROVE FALSE
    BY <1>3, <1>10 DEF CloseProtocol
  <1>6. ASSUME NEW h \in Handles \cup {NULL}, NEW args \in Arguments, InstallMultiple(h, args)
        PROVE  Begun(stack'[1].op) /\ UNCHANGED dbvars
    BY <1>2, <1>6, MultipleOp DEF InstallMultiple, Begun, Multiples
  <1>7. ASSUME NEW h \in Handles, NEW args \in Arguments, UninstallMultiple(h, args)
        PROVE  Begun(stack'[1].op) /\ UNCHANGED dbvars
    BY <1>2, <1>7, MultipleOp DEF UninstallMultiple, Begun, Multiples
  <1>8. ASSUME NEW g, NEW e, NEW service, NEW r,
               \/ RegisterProtocolNotify(g, e) \/ UnregisterProtocolNotify(e)
               \/ LocateByRegistration(service, r)
        PROVE  FALSE
    BY <1>3, <1>8 DEF RegisterProtocolNotify, UnregisterProtocolNotify, LocateByRegistration
  <1>9. QED
    BY <1>4, <1>5, <1>6, <1>7, <1>8, <1>10 DEF Services

(* The library makes a call from within another.                           *)
Calls(caller, callee) ==
  \/ caller \in Uninstalls /\ callee \in {"Disconnect", "Connect"}
  \/ caller = "Open" /\ callee = "Disconnect"
  \/ caller = "Disconnect" /\ callee = "Stop"
  \/ caller = "Connect" /\ callee \in {"Start", "Connect"}
  \/ caller \in Multiples /\ callee = "Uninstall"

LEMMA LibraryCalls ==
  ASSUME StackInv, StackInv', Library, Len(stack') = Len(stack) + 1
  PROVE  ~Idle /\ Calls(Top.op, stack'[1].op)
  <1>1. stack \in Seq(Frames) /\ stack' \in Seq(Frames)
    BY DEF StackInv
  <1>2. ASSUME ~Idle, NEW f, NEW me, Call(f, me) PROVE stack'[1] = f
    BY <1>1, <1>2, CallShape DEF Idle
  <1>3. ASSUME NEW f, ~Idle, Become(f) PROVE FALSE
    BY <1>1, <1>3, BecomeShape DEF Idle
  <1>4. ASSUME NEW s, ~Idle, Return(s) PROVE FALSE
    BY <1>1, <1>4, ReturnShape DEF Idle
  <1>5. \A h, g, x, d, S :
          /\ UninstallFrame(h, g, x).op = "Uninstall" /\ ConnectFrame(h).op = "Connect"
          /\ DisconnectFrame(h, d).op = "Disconnect"
          /\ StartFrame(h, d).op = "Start" /\ StopFrame(h, d, S).op = "Stop"
    BY CalledOps
  <1>6. CASE FindInterface \/ DisconnectDriver \/ DriverDisconnected \/ Purge
    <2>1. /\ ~Idle /\ Top.op \in Uninstalls \cup {"Open"}
          /\ \E d, me : Call(DisconnectFrame(Top.handle, d), me)
      BY <1>3, <1>4, <1>6 DEF FindInterface, DisconnectDriver, DriverDisconnected, Purge,
         CallFrom, Goto, At
    <2>2. QED
      BY <1>2, <1>5, <2>1 DEF Calls
  <1>7. CASE Reconnect \/ Denied \/ Vanished \/ Uninstall \/ Reinstall \/ Reinstalled
    <2>1. /\ ~Idle /\ Top.op \in Uninstalls
          /\ \E me : Call(ConnectFrame(Top.handle), me)
      BY <1>4, <1>7 DEF Reconnect, Denied, Vanished, Uninstall, Reinstall, Reinstalled, At,
         LetGo, Uninstalls
    <2>2. QED
      BY <1>2, <1>5, <2>1 DEF Calls
  <1>8. CASE ExclusiveOpen \/ ExclusiveDenied \/ Disconnect \/ ChildrenStopped \/ Disconnected
    <2>1. /\ ~Idle /\ Top.op = "Disconnect"
          /\ \E S, me : Call(StopFrame(Top.handle, Top.agent, S), me)
      BY <1>4, <1>8 DEF ExclusiveOpen, ExclusiveDenied, Disconnect, ChildrenStopped,
         Disconnected, CallFrom, At
    <2>2. QED
      BY <1>2, <1>5, <2>1 DEF Calls
  <1>9. CASE CollectDrivers \/ StartDriver \/ CollectChildren \/ ConnectChild \/ Connected
    <2>1. /\ ~Idle /\ Top.op = "Connect"
          /\ \/ \E d, me : Call(StartFrame(Top.handle, d), me)
             \/ \E h, me : Call(ConnectFrame(h), me)
      BY <1>3, <1>4, <1>9 DEF CollectDrivers, StartDriver, CollectChildren, ConnectChild,
         Connected, At
    <2>2. QED
      BY <1>2, <1>5, <2>1 DEF Calls
  <1>10. CASE MultipleSucceeds \/ MultipleFails \/ MultipleWork
    <2>1. /\ ~Idle /\ Top.op \in Multiples
          /\ \E g, x, me : Call(UninstallFrame(Top.handle, g, x), me)
      BY <1>3, <1>4, <1>10 DEF MultipleSucceeds, MultipleFails, MultipleWork, InstallNext,
         UninstallNext, UninstalledNext, UninstallDone, ReinstallDone, Fail, Advance,
         CallFrom, At, Multiples
    <2>2. QED
      BY <1>2, <1>5, <2>1 DEF Calls
  <1>11. QED
    BY <1>6, <1>7, <1>8, <1>9, <1>10 DEF Library, MultipleWork

LEMMA StepBegins ==
  ASSUME StackInv, StackInv', [Next]_vars, Len(stack') = Len(stack) + 1
  PROVE  \/ Begun(stack'[1].op) /\ UNCHANGED dbvars
         \/ ~Idle /\ Calls(Top.op, stack'[1].op)
  <1>1. stack \in Seq(Frames) /\ stack' \in Seq(Frames)
    BY DEF StackInv
  <1>2. ~Driver /\ ~UNCHANGED vars
    BY <1>1, ReturnShape DEF Driver, DriverReturns, vars, InDriver, Idle
  <1>3. QED
    BY <1>2, ServicesBegin, LibraryCalls DEF Next

(* Every step leaves the calls that were there what they are.              *)
Same(f, g) ==
  g.op = f.op /\ g.before = f.before /\ (f.op = "Open" => g.prot = f.prot)

OpsKept ==
  \A k \in DOMAIN stack' : Below(k) \in DOMAIN stack => Same(stack[Below(k)], stack'[k])

LEMMA KeptOps == Kept => OpsKept
  BY DEF Kept, OpsKept, SameWork, Same

LEMMA OpsStep ==
  ASSUME ServicesInv, StackInv', [Next]_vars
  PROVE  OpsKept
  <1> StackInv
    BY DEF ServicesInv
  <1>1. CASE ~MultipleWork
    BY <1>1, KeptStep, KeptOps
  <1>2. CASE MultipleWork
    <2>1. ~Idle /\ Top.op \in Multiples
      BY <1>2 DEF MultipleWork, InstallNext, UninstallNext, UninstalledNext, UninstallDone,
           ReinstallDone, At, Multiples
    <2>2. Top \in Frames /\ Top \in FrameFields /\ stack[1] = Top
      BY <2>1, TopFrame DEF Frames, Top
    <2>3. stack \in Seq(Frames) /\ stack # << >> /\ stack' \in Seq(Frames)
      BY <2>1 DEF StackInv, Idle
    <2>4. \/ \E g : Become(g) /\ Same(Top, g)
          \/ \E f, me : Call(f, me) /\ Same(Top, me)
      <3>1. ASSUME NEW k, NEW s, NEW pc
            PROVE  /\ Same(Top, Advanced(Top, k)) /\ Same(Top, Failed(Top, s))
                   /\ Same(Top, Counted(Top)) /\ Same(Top, Dropped(Top))
                   /\ Same(Top, [Top EXCEPT !.pc = pc])
        BY <2>2, Zenon DEF FrameFields, Advanced, Failed, Counted, Dropped, Same
      <3>2. CASE InstallNext
        <4>1. (\E k : Become(Advanced(Top, k))) \/ (\E s : Become(Failed(Top, s)))
          BY <3>2 DEF InstallNext, Advance, Fail, Advanced, Failed
        <4>2. QED
          BY <3>1, <4>1
      <3>3. CASE UninstallNext
        <4>1. \E f : Call(f, [Top EXCEPT !.pc = "uninstalled"])
          BY <3>3 DEF UninstallNext, CallFrom
        <4>2. QED
          BY <3>1, <4>1
      <3>4. CASE UninstalledNext
        <4>1. Become(Counted(Top)) \/ (\E s : Become(Failed(Top, s)))
          BY <3>4 DEF UninstalledNext, Fail, Counted, Failed
        <4>2. QED
          BY <3>1, <4>1
      <3>5. CASE UninstallDone \/ ReinstallDone
        <4>1. Become(Dropped(Top)) \/ \E f : Call(f, Dropped(Top))
          BY <3>5 DEF UninstallDone, ReinstallDone, Dropped
        <4>2. QED
          BY <3>1, <4>1
      <3>6. QED
        BY <1>2, <3>2, <3>3, <3>4, <3>5 DEF MultipleWork
    <2> DOMAIN stack = 1 .. Len(stack) /\ DOMAIN stack' = 1 .. Len(stack') /\ Len(stack) \in Nat
      BY <2>3
    <2>5. ASSUME NEW g, Become(g), Same(Top, g) PROVE OpsKept
      <3>1. /\ Len(stack') = Len(stack) /\ stack'[1] = g
            /\ \A k \in 2 .. Len(stack) : stack'[k] = stack[k]
        BY <2>3, <2>5, BecomeShape
      <3>2. \A k \in DOMAIN stack' : Below(k) = k
        BY <3>1 DEF Below
      <3>3. \A k \in DOMAIN stack' : Same(stack[k], stack'[k])
        BY <2>2, <2>5, <3>1 DEF Same
      <3>4. QED
        BY <3>2, <3>3 DEF OpsKept
    <2>6. ASSUME NEW f, NEW me, Call(f, me), Same(Top, me) PROVE OpsKept
      <3>1. /\ Len(stack') = Len(stack) + 1 /\ stack'[2] = me
            /\ \A k \in 3 .. Len(stack) + 1 : stack'[k] = stack[k - 1]
        BY <2>3, <2>6, CallShape
      <3>2. \A k \in DOMAIN stack' : Below(k) = k - 1
        BY <3>1 DEF Below
      <3>3. ASSUME NEW k \in DOMAIN stack', k - 1 \in DOMAIN stack
            PROVE  Same(stack[k - 1], stack'[k])
        BY <2>2, <2>6, <3>1, <3>3 DEF Same
      <3>4. QED
        BY <3>2, <3>3 DEF OpsKept
    <2>7. QED
      BY <2>4, <2>5, <2>6
  <1>3. QED
    BY <1>1, <1>2

LEMMA StepLength ==
  ASSUME StackInv, StackInv', [Next]_vars
  PROVE  Len(stack') \in {Len(stack) - 1, Len(stack), Len(stack) + 1}
  <1>1. CASE ~MultipleWork
    BY <1>1, KeptStep DEF Kept
  <1>2. CASE MultipleWork
    <2>1. stack \in Seq(Frames) /\ stack # << >>
      BY <1>2 DEF MultipleWork, InstallNext, UninstallNext, UninstalledNext, UninstallDone,
           ReinstallDone, At, Idle, StackInv
    <2>2. (\E g : Become(g)) \/ (\E f, me : Call(f, me))
      BY <1>2 DEF MultipleWork, InstallNext, UninstallNext, UninstalledNext, UninstallDone,
           ReinstallDone, Advance, Fail, CallFrom
    <2>3. QED
      BY <2>1, <2>2, BecomeShape, CallShape
  <1>3. QED
    BY <1>1, <1>2

LEMMA NoneBegins ==
  ASSUME ServicesInv, ServicesInv', [Next]_vars, NoInstallMultiple
  PROVE  MultipleInv'
  <1>1. StackInv /\ StackInv' /\ IInv /\ stack \in Seq(Frames) /\ stack' \in Seq(Frames)
    BY DEF ServicesInv, StackInv
  <1>2. OpsKept /\ Len(stack') \in {Len(stack) - 1, Len(stack), Len(stack) + 1}
    BY <1>1, OpsStep, StepLength
  <1>3. CASE \E h \in Handles \cup {NULL}, args \in Arguments : InstallMultiple(h, args)
    BY <1>1, <1>3, MultipleBegins
  <1>4. CASE ~ \E h \in Handles \cup {NULL}, args \in Arguments : InstallMultiple(h, args)
    <2>1. ASSUME NEW k \in DOMAIN stack' PROVE stack'[k].op # "InstallMultiple"
      <3>1. CASE Below(k) \in DOMAIN stack
        BY <1>2, <3>1 DEF OpsKept, Same, NoInstallMultiple
      <3>2. CASE Below(k) \notin DOMAIN stack
        <4>1. k = 1 /\ Len(stack') = Len(stack) + 1
          BY <1>1, <1>2, <3>2 DEF Below
        <4>2. \/ Begun(stack'[1].op)
              \/ ~Idle /\ Calls(Top.op, stack'[1].op)
          BY <1>1, <4>1, StepBegins
        <4>3. QED
          BY <1>4, <4>1, <4>2 DEF Begun, Calls
      <3>3. QED
        BY <3>1, <3>2
    <2>2. QED
      BY <2>1 DEF MultipleInv
  <1>5. QED
    BY <1>3, <1>4

-----------------------------------------------------------------------------
(* What may run on top of the stack.                                       *)

LEMMA MultipleRuns ==
  ASSUME ~Idle, Top.op = "InstallMultiple", Next
  PROVE  InstallNext \/ UninstallDone \/ MultipleSucceeds \/ MultipleFails
  <1>1. ~Services
    BY DEF Services, InstallProtocolInterface, UninstallProtocolInterface,
       ReinstallProtocolInterface, OpenProtocol, CloseProtocol, InstallMultiple,
       UninstallMultiple, RegisterProtocolNotify, UnregisterProtocolNotify,
       LocateByRegistration, MayCall, InDriver
  <1>2. ~Driver
    BY DEF Driver, DriverReturns, InDriver
  <1>3. ~(FindInterface \/ DisconnectDriver \/ DriverDisconnected \/ Purge
          \/ Reconnect \/ Denied \/ Vanished \/ Uninstall \/ Reinstall \/ Reinstalled)
    BY DEF FindInterface, DisconnectDriver, DriverDisconnected, Purge, Reconnect, Denied,
       Vanished, Uninstall, Reinstall, Reinstalled, LetGo, At, Uninstalls
  <1>4. ~(ExclusiveOpen \/ ExclusiveDenied \/ Disconnect \/ ChildrenStopped \/ Disconnected
          \/ CollectDrivers \/ StartDriver \/ CollectChildren \/ ConnectChild \/ Connected
          \/ UninstallNext \/ UninstalledNext \/ ReinstallDone)
    BY DEF ExclusiveOpen, ExclusiveDenied, Disconnect, ChildrenStopped, Disconnected,
       CollectDrivers, StartDriver, CollectChildren, ConnectChild, Connected, UninstallNext,
       UninstalledNext, ReinstallDone, At
  <1>5. QED
    BY <1>1, <1>2, <1>3, <1>4 DEF Next, Library

LEMMA UninstallRuns ==
  ASSUME ~Idle, Top.op = "Uninstall", Next
  PROVE  \/ FindInterface \/ DisconnectDriver \/ DriverDisconnected \/ Purge
         \/ Reconnect \/ Denied \/ Vanished \/ Uninstall
  <1>1. ~Services
    BY DEF Services, InstallProtocolInterface, UninstallProtocolInterface,
       ReinstallProtocolInterface, OpenProtocol, CloseProtocol, InstallMultiple,
       UninstallMultiple, RegisterProtocolNotify, UnregisterProtocolNotify,
       LocateByRegistration, MayCall, InDriver
  <1>2. ~Driver
    BY DEF Driver, DriverReturns, InDriver
  <1>3. ~(Reinstall \/ Reinstalled \/ ExclusiveOpen \/ ExclusiveDenied \/ Disconnect
          \/ ChildrenStopped \/ Disconnected \/ CollectDrivers \/ StartDriver
          \/ CollectChildren \/ ConnectChild \/ Connected)
    BY DEF Reinstall, Reinstalled, ExclusiveOpen, ExclusiveDenied, Disconnect,
       ChildrenStopped, Disconnected, CollectDrivers, StartDriver, CollectChildren,
       ConnectChild, Connected, LetGo, At
  <1>4. ~(InstallNext \/ UninstallNext \/ UninstalledNext \/ UninstallDone
          \/ ReinstallDone \/ MultipleSucceeds \/ MultipleFails)
    BY DEF InstallNext, UninstallNext, UninstalledNext, UninstallDone, ReinstallDone,
       MultipleSucceeds, MultipleFails, Multiples, At
  <1>5. QED
    BY <1>1, <1>2, <1>3, <1>4 DEF Next, Library

-----------------------------------------------------------------------------
(* The steps of InstallMultipleProtocolInterfaces.                         *)

LEMMA OnlyTop ==
  ASSUME StackInv, MultipleInv, ~Idle, Top.op = "InstallMultiple"
  PROVE  /\ Undoable(Top, {})
         /\ \A k \in 2 .. Len(stack) : stack[k].op # "InstallMultiple"
  <1>1. stack \in Seq(Frames) /\ stack # << >> /\ Top = stack[1]
        /\ 1 \in DOMAIN stack /\ DOMAIN stack = 1 .. Len(stack)
    BY TopFrame DEF StackInv, Idle, Top
  <1>2. \A k \in DOMAIN stack : stack[k].op = "InstallMultiple" => k = 1 /\ Undoable(stack[k], {})
    BY DEF MultipleInv
  <1>3. QED
    BY <1>1, <1>2

LEMMA MultipleBecomes ==
  ASSUME StackInv, MultipleInv, ~Idle, Top.op = "InstallMultiple",
         NEW g, Become(g), Undoable(g, {})'
  PROVE  MultipleInv'
  <1>1. stack \in Seq(Frames) /\ stack # << >>
    BY DEF StackInv, Idle
  <1>2. /\ Len(stack') = Len(stack) /\ stack'[1] = g
        /\ \A k \in 2 .. Len(stack) : stack'[k] = stack[k]
    BY <1>1, BecomeShape
  <1>3. DOMAIN stack' = 1 .. Len(stack)
    BY <1>1, <1>2, TopFrame DEF Become
  <1>4. \A k \in 2 .. Len(stack) : stack'[k].op # "InstallMultiple"
    BY <1>2, OnlyTop
  <1>5. QED
    BY <1>2, <1>3, <1>4 DEF MultipleInv

LEMMA MultipleInstalls ==
  ASSUME IInv, StackInv, ~Idle, Top.op = "InstallMultiple", Top.args # << >>,
         Undoable(Top, {}), Top.pc = "enter",
         NEW k \in Handles, Top.done # << >> => k = Top.handle,
         Lookup(k, Head(Top.args)[1]) = {}, NEW i \in Prots,
         LinkInterface(k, Head(Top.args)[1], Head(Top.args)[2], i),
         NEW f, f = Advanced(Top, k)
  PROVE  Undoable(f, {})'
  <1>1. Top \in Frames
    BY TopFrame
  <1>2. /\ f.op = Top.op /\ f.pc = "enter" /\ f.handle = k
        /\ f.done = Append(Top.done, Head(Top.args)) /\ f.before = Top.before
    BY <1>1, AdvancedFrame DEF MultipleState
  <1>3. /\ Top.done \in Seq(Pairs) /\ Head(Top.args) \in Pairs
        /\ Head(Top.args)[1] \in Protocols /\ Head(Top.args)[2] \in Interfaces
    BY <1>1, MultipleTyped DEF Multiples
  <1> DEFINE p == Head(Top.args)
             t == << k, p[1], p[2] >>
  <1>4. PICK q : q = p
    OBVIOUS
  <1>5. PICK u : u = t
    OBVIOUS
  <1>6. Given(f) = Given(Top) \cup {u}
    BY <1>2, <1>3, <1>5, GivenAppend
  <1>7. /\ Installed' = Installed \cup {u}
        /\ openList'[i] = {} /\ Interface(i)' = u
        /\ \A j \in Prots : j # i => openList'[j] = openList[j] /\ prot'[j] = prot[j]
    BY <1>3, <1>5, InstalledAdd
  <1>8. u \notin Installed /\ u[1] = k /\ u[2] = p[1]
    BY <1>5, NotInstalled
  <1> HIDE DEF p, t
  <1>9. Installed = Top.before \cup Given(Top) /\ Top.before \cap Given(Top) = {}
    BY DEF Undoable, Added
  <1>10. PICK G : G = Given(Top)
    OBVIOUS
  <1>11. Given(f)' = G \cup {u}
    BY <1>6, <1>10
  <1>12. PICK B : B = Top.before
    OBVIOUS
  <1>13. ASSUME NEW j \in Allocated', Interface(j)' \in G \cup {u} PROVE openList'[j] = {}
    <2>1. CASE j = i
      BY <1>7, <2>1
    <2>2. CASE j # i
      <3>1. j \in Prots /\ j \in Allocated /\ Interface(j)' = Interface(j)
        BY <1>7, <2>2 DEF Allocated, Interface
      <3>2. Interface(j) \in Installed
        BY <3>1 DEF Installed
      <3>3. Interface(j) \in G
        BY <1>8, <1>13, <3>1, <3>2
      <3>4. openList[j] = {}
        BY <1>10, <3>1, <3>3 DEF Undoable, Added
      <3>5. QED
        BY <1>7, <2>2, <3>1, <3>4
    <2>3. QED
      BY <2>1, <2>2
  <1>14. Added(f.before, G \cup {u})'
    BY <1>2, <1>7, <1>8, <1>9, <1>10, <1>13 DEF Added
  <1>15. ASSUME NEW m \in DOMAIN f.done, NEW n \in DOMAIN f.done, f.done[m][1] = f.done[n][1]
         PROVE  m = n
    <2>1. /\ DOMAIN f.done = DOMAIN Top.done \cup {Len(Top.done) + 1}
          /\ f.done[Len(Top.done) + 1] = p /\ \A j \in DOMAIN Top.done : f.done[j] = Top.done[j]
      BY <1>2, <1>3 DEF p
    <2>2. ASSUME NEW j \in DOMAIN Top.done PROVE Top.done[j][1] # p[1]
      <3>1. << Top.handle, Top.done[j][1], Top.done[j][2] >> \in Given(Top)
        BY <1>3, GivenTriples
      <3>2. << Top.handle, Top.done[j][1], Top.done[j][2] >> \in Installed
        BY <1>9, <3>1
      <3>3. Top.handle = k
        BY <1>3
      <3>4. QED
        BY <3>2, <3>3, NotInstalled DEF p
    <2>3. QED
      BY <1>15, <2>1, <2>2 DEF Undoable
  <1>16. QED
    BY <1>2, <1>11, <1>14, <1>15 DEF Undoable

LEMMA MultipleFailed ==
  ASSUME StackInv, ~Idle, Top.op = "InstallMultiple", Undoable(Top, {}),
         prot' = prot, openList' = openList, NEW s \in Statuses \ {"SUCCESS"},
         NEW f, f = Failed(Top, s)
  PROVE  Undoable(f, {})'
  <1>1. /\ f.op = Top.op /\ f.pc = "rollback" /\ f.handle = Top.handle /\ f.status = s
        /\ f.done = Top.done /\ f.before = Top.before
    BY TopFrame, FailedFrame DEF MultipleState, Multiples
  <1>2. PICK G : G = Given(Top)
    OBVIOUS
  <1>3. Given(f)' = G
    BY <1>1, <1>2, GivenSame
  <1>4. Added(f.before, G \cup {})
    BY <1>1, <1>2 DEF Undoable
  <1>5. Added(f.before, G \cup {})'
    BY <1>4, AddedKept
  <1>6. QED
    BY <1>1, <1>3, <1>5 DEF Undoable

LEMMA InstallNextMultiple ==
  ASSUME ServicesInv, MultipleInv, InstallNext
  PROVE  MultipleInv'
  <1> DEFINE g == Head(Top.args)[1]
             x == Head(Top.args)[2]
  <1>1. /\ ~Idle /\ Top \in Frames /\ Top.op = "InstallMultiple" /\ Top.args # << >>
        /\ Top.pc = "enter" /\ IInv /\ StackInv
    BY TopFrame DEF InstallNext, At, ServicesInv
  <1>2. /\ g \in Protocols /\ x \in Interfaces /\ Top.handle \in Handles \cup {NULL}
        /\ Top.done # << >> => Top.handle \in Handles
    BY <1>1, MultipleTyped DEF Multiples
  <1>3. Undoable(Top, {})
    BY <1>1, OnlyTop
  <1> HIDE DEF g, x
  <1>4. ASSUME NEW s \in Statuses \ {"SUCCESS"}, Fail(s), prot' = prot, openList' = openList
        PROVE  MultipleInv'
    <2>1. PICK f : f = Failed(Top, s)
      OBVIOUS
    <2>2. Become(f)
      BY <1>4, <2>1 DEF Fail, Failed
    <2>3. Undoable(f, {})'
      BY <1>1, <1>3, <1>4, <2>1, MultipleFailed
    <2>4. QED
      BY <1>1, <2>2, <2>3, MultipleBecomes
  <1>5. ASSUME NEW k \in Handles \cup {NULL}, NEW s \in Statuses,
               InstallInterface(Top.handle, g, x, k, s),
               IF s = "SUCCESS" THEN Advance(k) ELSE Fail(s)
        PROVE  MultipleInv'
    <2>1. /\ s = "SUCCESS" => /\ k \in Handles /\ (Top.handle # NULL => k = Top.handle)
                              /\ Lookup(k, g) = {} /\ \E i \in Prots : LinkInterface(k, g, x, i)
          /\ s # "SUCCESS" => prot' = prot
      <3>1. PICK h : h = Top.handle
        OBVIOUS
      <3>2. IInv /\ g \in Protocols /\ x \in Interfaces /\ h \in Handles \cup {NULL}
            /\ InstallInterface(h, g, x, k, s)
        BY <1>1, <1>2, <1>5, <3>1
      <3>3. /\ s = "SUCCESS" => /\ k \in Handles /\ (h # NULL => k = h) /\ Lookup(k, g) = {}
                                /\ \E i \in Prots : LinkInterface(k, g, x, i)
            /\ s # "SUCCESS" => k = h /\ prot' = prot
        BY <3>2, InstallInterfaceStep
      <3>4. QED
        BY <3>1, <3>3
    <2>2. CASE s = "SUCCESS"
      <3>1. PICK i \in Prots : LinkInterface(k, g, x, i)
        BY <2>1, <2>2
      <3>2. Top.done # << >> => k = Top.handle
        BY <1>2, <2>1, <2>2, NullAssumption
      <3>3. PICK f : f = Advanced(Top, k)
        OBVIOUS
      <3>4. Become(f)
        BY <1>5, <2>2, <3>3 DEF Advance, Advanced
      <3>5. Undoable(f, {})'
        BY <1>1, <1>3, <2>1, <2>2, <3>1, <3>2, <3>3, MultipleInstalls DEF g, x
      <3>6. QED
        BY <1>1, <3>4, <3>5, MultipleBecomes
    <2>3. CASE s # "SUCCESS"
      <3>1. openList' = openList
        BY <1>5, <2>3 DEF InstallInterface, OnlyCreateEntry, dbvars
      <3>2. QED
        BY <1>4, <1>5, <2>1, <2>3, <3>1
    <2>4. QED
      BY <2>2, <2>3
  <1>6. CASE Fail("ALREADY_STARTED") /\ UNCHANGED dbvars
    <2>1. prot' = prot /\ openList' = openList
      BY <1>6 DEF dbvars
    <2>2. QED
      BY <1>4, <1>6, <2>1 DEF Statuses
  <1>7. QED
    BY <1>5, <1>6 DEF InstallNext, g, x

LEMMA UninstallDoneMultiple ==
  ASSUME ServicesInv, MultipleInv, UninstallDone
  PROVE  MultipleInv'
  <1>1. /\ ~Idle /\ Top \in Frames /\ Top.op = "InstallMultiple" /\ Top.done # << >>
        /\ Top.pc = "rollback" /\ IInv /\ StackInv /\ UNCHANGED dbvars
    BY TopFrame DEF UninstallDone, At, ServicesInv
  <1>2. /\ Top.done \in Seq(Pairs) /\ Head(Top.done) \in Pairs /\ Top.handle \in Handles
        /\ Head(Top.done)[1] \in Protocols /\ Head(Top.done)[2] \in Interfaces
    BY <1>1, MultipleTyped DEF Multiples
  <1>3. Undoable(Top, {}) /\ \A k \in 2 .. Len(stack) : stack[k].op # "InstallMultiple"
    BY <1>1, OnlyTop
  <1>4. PICK me : me = Dropped(Top)
    OBVIOUS
  <1>5. PICK u : u = UninstallFrame(Top.handle, Head(Top.done)[1], Head(Top.done)[2])
    OBVIOUS
  <1>6. Call(u, me)
    BY <1>4, <1>5 DEF UninstallDone, Dropped
  <1>7. /\ me.op = Top.op /\ me.pc = "rollback" /\ me.status = Top.status
        /\ me.handle = Top.handle /\ me.done = Tail(Top.done) /\ me.before = Top.before
    BY <1>1, <1>4, DroppedFrame DEF MultipleState, Multiples
  <1>8. /\ u.op = "Uninstall" /\ u.pc = "enter"
        /\ Triple(u) = << Top.handle, Head(Top.done)[1], Head(Top.done)[2] >>
    BY <1>2, <1>5, NewUninstall DEF Triple
  <1>9. Given(Top) = Given(me) \cup {Triple(u)}
    BY <1>2, <1>1, <1>7, <1>8, GivenTail
  <1>10. /\ me.done \in Seq(Pairs) /\ Head(Top.done) = Top.done[1] /\ 1 \in DOMAIN Top.done
         /\ \A j \in DOMAIN me.done : j + 1 \in DOMAIN Top.done /\ me.done[j] = Top.done[j + 1]
                                      /\ j \in Nat /\ j # 0
    BY <1>1, <1>2, <1>7
  <1>11. Triple(u) \notin Given(me)
    <2>1. ASSUME NEW j \in DOMAIN me.done PROVE me.done[j][1] # Head(Top.done)[1]
      BY <1>3, <1>10 DEF Undoable
    <2>2. Given(me) = { << me.handle, me.done[j][1], me.done[j][2] >> : j \in DOMAIN me.done }
      BY <1>10, GivenTriples
    <2>3. QED
      BY <1>8, <2>1, <2>2
  <1>12. \A m, n \in DOMAIN me.done : me.done[m][1] = me.done[n][1] => m = n
    <2>1. ASSUME NEW m \in DOMAIN me.done, NEW n \in DOMAIN me.done,
                 me.done[m][1] = me.done[n][1]
          PROVE  m = n
      <3>1. m + 1 = n + 1
        BY <1>3, <1>10, <2>1 DEF Undoable
      <3>2. QED
        BY <1>10, <3>1
    <2>2. QED
      BY <2>1
  <1>13. PICK G : G = Given(me) \cup {Triple(u)}
    OBVIOUS
  <1>14. Added(me.before, G)
    BY <1>3, <1>7, <1>9, <1>13 DEF Undoable
  <1>15. Added(me.before, G)'
    BY <1>1, <1>14, AddedKept DEF dbvars
  <1>16. (Given(me) \cup {Triple(u)})' = G
    BY <1>13 DEF Given, Triple
  <1>17. Undoable(me, {Triple(u)})'
    <2>1. Top.status # "SUCCESS"
      BY <1>1, <1>3 DEF Undoable
    <2>2. QED
      BY <1>7, <1>12, <1>15, <1>16, <2>1 DEF Undoable, Added
  <1>18. stack \in Seq(Frames) /\ stack # << >>
    BY <1>1 DEF StackInv, Idle
  <1>19. /\ Len(stack') = Len(stack) + 1 /\ stack'[1] = u /\ stack'[2] = me
         /\ \A k \in 3 .. Len(stack) + 1 : stack'[k] = stack[k - 1]
    BY <1>6, <1>18, CallShape
  <1>20. stack' = << u, me >> \o Tail(stack)
    BY <1>6 DEF Call
  <1>21. DOMAIN stack' = 1 .. Len(stack) + 1 /\ Len(stack) \in Nat /\ Len(stack) >= 1
    <2>1. Tail(stack) \in Seq(Frames)
      BY <1>18
    <2>2. DOMAIN (<< u, me >> \o Tail(stack)) = 1 .. 2 + Len(Tail(stack))
      BY <2>1
    <2>3. QED
      BY <1>18, <1>20, <2>2
  <1>22. Top' = u
    <2>1. u \in Frames /\ me \in Frames
      BY <1>1, <1>2, <1>4, <1>5, NewUninstall, DroppedFrame DEF Multiples
    <2>2. stack' \in Seq(Frames) /\ Len(stack') > 0
      BY <1>18, <1>20, <2>1, Called
    <2>3. QED
      BY <1>19, <2>2 DEF Top
  <1>23. \A k \in 3 .. Len(stack) + 1 : stack'[k].op # "InstallMultiple"
    BY <1>3, <1>19, <1>21
  <1>24. Triple(u) \notin Given(me)' /\ Given(me)' = Given(me)
    BY <1>11 DEF Given
  <1>25. ASSUME NEW k \in DOMAIN stack', stack'[k].op = "InstallMultiple" PROVE k = 2
    BY <1>8, <1>19, <1>21, <1>23, <1>25
  <1>26. QED
    BY <1>7, <1>8, <1>17, <1>19, <1>22, <1>24, <1>25 DEF MultipleInv, Triple

(* The uninstall the rollback has called finds the interface, finds nobody *)
(* to disconnect, and removes it.                                          *)
RollingBack ==
  /\ ~Idle /\ Len(stack) > 1 /\ Top.op = "Uninstall" /\ Top.pc \in {"enter", "scan", "purged"}
  /\ stack[2].op = "InstallMultiple" /\ stack[2].pc = "rollback"
  /\ Triple(Top) \notin Given(stack[2])
  /\ Undoable(stack[2], {Triple(Top)})
  /\ \A k \in 3 .. Len(stack) : stack[k].op # "InstallMultiple"

LEMMA RollbackStays ==
  ASSUME StackInv, RollingBack, NEW f, f.op = "Uninstall", f.pc \in {"enter", "scan", "purged"},
         Triple(f) = Triple(Top), Become(f), prot' = prot,
         \A i \in Prots : openList'[i] \subseteq openList[i]
  PROVE  MultipleInv'
  <1>1. stack \in Seq(Frames) /\ stack # << >> /\ Len(stack) \in Nat /\ Len(stack) > 1
    BY DEF StackInv, RollingBack, Idle
  <1>2. /\ Len(stack') = Len(stack) /\ stack'[1] = f
        /\ \A k \in 2 .. Len(stack) : stack'[k] = stack[k]
    BY <1>1, BecomeShape
  <1>3. DOMAIN stack' = 1 .. Len(stack) /\ Top' = f
    <2>1. stack' = << f >> \o Tail(stack)
      BY DEF Become
    <2>2. DOMAIN (<< f >> \o Tail(stack)) = 1 .. Len(stack) /\ Head(<< f >> \o Tail(stack)) = f
      BY <1>1
    <2>3. QED
      BY <2>1, <2>2 DEF Top
  <1>4. PICK me : me = stack[2]
    OBVIOUS
  <1>5. PICK t : t = Triple(Top)
    OBVIOUS
  <1>6. Added(me.before, Given(me) \cup {t})
    BY <1>4, <1>5 DEF RollingBack, Undoable
  <1>7. Added(me.before, Given(me) \cup {t})'
    <2>1. PICK G : G = Given(me) \cup {t}
      OBVIOUS
    <2>2. Added(me.before, G)'
      BY <1>6, <2>1, AddedKept
    <2>3. (Given(me) \cup {t})' = G
      BY <2>1 DEF Given
    <2>4. QED
      BY <2>2, <2>3 DEF Added
  <1>8. stack'[2] = me /\ Triple(Top)' = t
    BY <1>1, <1>2, <1>3, <1>4, <1>5 DEF Triple
  <1>9. Undoable(me, {t})' /\ t \notin Given(me) /\ Given(me)' = Given(me)
    BY <1>4, <1>5, <1>7 DEF RollingBack, Undoable, Given
  <1>10. ASSUME NEW k \in DOMAIN stack', stack'[k].op = "InstallMultiple" PROVE k = 2
    BY <1>1, <1>2, <1>3, <1>10 DEF RollingBack
  <1>11. ASSUME NEW k \in DOMAIN stack', stack'[k].op = "InstallMultiple"
         PROVE  /\ k = 2 /\ Top'.op = "Uninstall" /\ Top'.pc \in {"enter", "scan", "purged"}
                /\ stack'[k].pc = "rollback"
                /\ Triple(Top)' \notin Given(stack[k])'
                /\ Undoable(stack[k], {Triple(Top)})'
    <2>1. k = 2
      BY <1>10, <1>11
    <2>2. me.pc = "rollback"
      BY <1>4 DEF RollingBack
    <2>3. Given(stack[2])' = Given(me)
      BY <1>8 DEF Given
    <2>4. Undoable(stack[2], {Triple(Top)})'
      BY <1>8, <1>9 DEF Undoable, Added, Given
    <2>5. QED
      BY <1>3, <1>8, <1>9, <2>1, <2>2, <2>3, <2>4
  <1>12. QED
    BY <1>11 DEF MultipleInv

LEMMA RollbackFinds ==
  ASSUME IInv, StackInv, RollingBack
  PROVE  /\ Top.handle \in handles /\ FindAgain # {}
         /\ Top.pc \in {"scan", "purged"} =>
              /\ Top.prot \in Prots /\ openList[Top.prot] = {} /\ openListCount[Top.prot] = 0
              /\ Interface(Top.prot) = Triple(Top)
  <1>1. /\ Top \in Frames /\ AnchoredIn(Top, prot) /\ Top.op = "Uninstall"
    BY TopFrame DEF RollingBack
  <1>2. Top.handle \in Handles
    BY <1>1 DEF Frames, WellFormed, Uninstalls
  <1>3. PICK new : new = Given(stack[2]) \cup {Triple(Top)}
    OBVIOUS
  <1>4. /\ Added(stack[2].before, new)
        /\ << Top.handle, Top.protocol, Top.interface >> \in new
    BY <1>3 DEF RollingBack, Undoable, Triple
  <1>5. /\ Top.handle \in handles /\ Find(Top.handle, Top.protocol, Top.interface) # {}
        /\ \A i \in Prots :
             prot[i] \in ProtocolInterface /\ prot[i].handle = Top.handle /\ prot[i].protocol = Top.protocol =>
               /\ Interface(i) = << Top.handle, Top.protocol, Top.interface >>
               /\ openList[i] = {} /\ openListCount[i] = 0
    BY <1>2, <1>4, AddedFound
  <1>6. QED
    BY <1>1, <1>5 DEF AnchoredIn, Holds, Uninstalls, FindAgain, Triple

LEMMA RollbackUninstalls ==
  ASSUME IInv, StackInv, RollingBack, Uninstall
  PROVE  MultipleInv'
  <1>1. PICK i \in FindAgain : UnlinkInterface(i)
    BY DEF Uninstall
  <1>2. LetGo("Uninstall") /\ Return("SUCCESS") /\ Top.pc = "purged"
    BY DEF Uninstall, LetGo, At
  <1>3. i = Top.prot /\ i \in Prots
    BY <1>1, <1>2, FoundAgain DEF Uninstalls
  <1>4. PICK t : t = Triple(Top)
    OBVIOUS
  <1>5. Interface(i) = t
    BY <1>2, <1>3, <1>4, RollbackFinds
  <1>6. /\ Installed' = Installed \ {t} /\ Allocated' = Allocated \ {i}
        /\ openList' = openList /\ \A j \in Allocated' : Interface(j)' = Interface(j)
    BY <1>1, <1>3, <1>5, InstalledRemove
  <1>7. PICK me : me = stack[2]
    OBVIOUS
  <1>8. PICK G : G = Given(me)
    OBVIOUS
  <1>9. Added(me.before, G \cup {t}) /\ t \notin G
    BY <1>4, <1>7, <1>8 DEF RollingBack, Undoable
  <1>10. Added(me.before, G)'
    BY <1>6, <1>9 DEF Added
  <1>11. (Given(me) \cup {})' = G
    BY <1>8 DEF Given
  <1>12. Undoable(me, {})'
    BY <1>7, <1>10, <1>11 DEF RollingBack, Undoable, Added
  <1>13. stack \in Seq(Frames) /\ stack # << >> /\ Len(stack) \in Nat /\ Len(stack) > 1
    BY DEF StackInv, RollingBack, Idle
  <1>14. /\ stack' = Tail(stack) /\ Len(stack') = Len(stack) - 1
         /\ \A k \in 1 .. Len(stack) - 1 : stack'[k] = stack[k + 1]
    BY <1>2, <1>13, ReturnShape DEF Return
  <1>15. DOMAIN stack' = 1 .. Len(stack) - 1
    BY <1>13, <1>14
  <1>16. stack'[1] = me
    BY <1>7, <1>13, <1>14
  <1>17. ASSUME NEW k \in DOMAIN stack', stack'[k].op = "InstallMultiple" PROVE k = 1
    <2>1. k + 1 \in 2 .. Len(stack) /\ stack[k + 1].op = "InstallMultiple"
      BY <1>13, <1>14, <1>15, <1>17
    <2>2. QED
      BY <1>13, <1>15, <2>1 DEF RollingBack
  <1>18. QED
    BY <1>12, <1>16, <1>17 DEF MultipleInv

LEMMA RollbackStep ==
  ASSUME IInv, StackInv, RollingBack, Next
  PROVE  MultipleInv'
  <1>1. ~Idle /\ Top.op = "Uninstall" /\ Top.pc \in {"enter", "scan", "purged"}
        /\ Top \in Frames /\ Top \in FrameFields
    BY TopFrame DEF RollingBack, Frames
  <1>2. /\ Top.handle \in handles /\ FindAgain # {}
        /\ Top.pc \in {"scan", "purged"} =>
             Top.prot \in Prots /\ openList[Top.prot] = {} /\ openListCount[Top.prot] = 0
    BY RollbackFinds
  <1>3. CASE FindInterface
    <2>1. PICK i \in FindAgain : Become([Top EXCEPT !.pc = "scan", !.prot = i])
      BY <1>2, <1>3 DEF FindInterface, FindAgain
    <2>2. PICK f : f = [Top EXCEPT !.pc = "scan", !.prot = i]
      OBVIOUS
    <2>3. /\ f.op = Top.op /\ f.pc = "scan" /\ f.handle = Top.handle
          /\ f.protocol = Top.protocol /\ f.interface = Top.interface
      BY <1>1, <2>2, Zenon DEF FrameFields
    <2>4. Triple(f) = Triple(Top)
      BY <2>3 DEF Triple
    <2>5. prot' = prot /\ openList' = openList
      BY <1>3 DEF FindInterface, dbvars
    <2>6. QED
      BY <1>1, <2>1, <2>2, <2>3, <2>4, <2>5, RollbackStays
  <1>4. CASE Purge
    <2>1. RemoveOpens(Top.prot, WeakOpens(Top.prot)) /\ Goto("purged") /\ Top.pc = "scan"
      BY <1>4 DEF Purge, At
    <2>2. PICK f : f = [Top EXCEPT !.pc = "purged"]
      OBVIOUS
    <2>3. /\ f.op = Top.op /\ f.pc = "purged" /\ f.handle = Top.handle
          /\ f.protocol = Top.protocol /\ f.interface = Top.interface
      BY <1>1, <2>2, Zenon DEF FrameFields
    <2>4. Triple(f) = Triple(Top) /\ Become(f)
      BY <2>1, <2>2, <2>3 DEF Triple, Goto
    <2>5. prot' = prot /\ openList' = [openList EXCEPT ![Top.prot] = openList[Top.prot] \ WeakOpens(Top.prot)]
      BY <2>1 DEF RemoveOpens, SetOpenList
    <2>6. \A i \in Prots : openList'[i] \subseteq openList[i]
      BY <2>5 DEF IInv, TypeOK
    <2>7. QED
      BY <1>1, <2>3, <2>4, <2>5, <2>6, RollbackStays
  <1>5. CASE Uninstall
    BY <1>5, RollbackUninstalls
  <1>6. ~DisconnectDriver
    BY <1>2 DEF DisconnectDriver, At, DriverOpens
  <1>7. ~DriverDisconnected /\ ~Denied /\ ~Reconnect
    BY <1>1, <1>2 DEF DriverDisconnected, Denied, Reconnect, At
  <1>8. ~Vanished
    BY <1>2 DEF Vanished
  <1>9. QED
    BY <1>1, <1>3, <1>4, <1>5, <1>6, <1>7, <1>8, UninstallRuns

-----------------------------------------------------------------------------
(* The invariant of InstallMultipleProtocolInterfaces.                     *)

LEMMA MultipleReturns ==
  ASSUME StackInv, MultipleInv, ~Idle, Top.op = "InstallMultiple", NEW s, Return(s)
  PROVE  MultipleInv'
  <1>1. stack \in Seq(Frames) /\ stack # << >> /\ Len(stack) \in Nat /\ Len(stack) > 0
    BY DEF StackInv, Idle
  <1>2. /\ stack' = Tail(stack) /\ Len(stack') = Len(stack) - 1
        /\ \A k \in 1 .. Len(stack) - 1 : stack'[k] = stack[k + 1]
    BY <1>1, ReturnShape DEF Return
  <1>3. DOMAIN stack' = 1 .. Len(stack) - 1
    BY <1>1, <1>2
  <1>4. \A k \in 2 .. Len(stack) : stack[k].op # "InstallMultiple"
    BY OnlyTop
  <1>5. ASSUME NEW k \in DOMAIN stack' PROVE stack'[k].op # "InstallMultiple"
    <2>1. k + 1 \in 2 .. Len(stack) /\ stack'[k] = stack[k + 1]
      BY <1>1, <1>2, <1>3
    <2>2. QED
      BY <1>4, <2>1
  <1>6. QED
    BY <1>5 DEF MultipleInv

LEMMA NextMultipleInv ==
  ASSUME ServicesInv, ServicesInv', MultipleInv, [Next]_vars
  PROVE  MultipleInv'
  <1>1. IInv /\ StackInv /\ stack \in Seq(Frames)
    BY DEF ServicesInv, StackInv
  <1>2. CASE UNCHANGED vars
    <2>1. stack' = stack /\ prot' = prot /\ openList' = openList
      BY <1>2 DEF vars
    <2>2. Installed' = Installed /\ Allocated' = Allocated
          /\ \A i \in Allocated : Interface(i)' = Interface(i)
      BY <2>1, InstalledSame
    <2>3. ASSUME NEW f, NEW taken, Undoable(f, taken) PROVE Undoable(f, taken)'
      BY <2>1, <2>2, <2>3 DEF Undoable, Added, Given
    <2>4. ASSUME NEW k \in DOMAIN stack, stack[k].op = "InstallMultiple", Undoable(stack[k], {})
          PROVE  Undoable(stack[k], {})'
      <3>1. PICK f : f = stack[k]
        OBVIOUS
      <3>2. f = stack'[k] /\ Undoable(f, {})'
        BY <2>1, <2>3, <2>4, <3>1
      <3>3. QED
        BY <3>2
    <2>5. ASSUME NEW k \in DOMAIN stack, Undoable(stack[k], {Triple(Top)})
          PROVE  Undoable(stack[k], {Triple(Top)})'
      <3>1. PICK f, t : f = stack[k] /\ t = Triple(Top)
        OBVIOUS
      <3>2. f = stack'[k] /\ t = Triple(Top)' /\ Undoable(f, {t})'
        BY <2>1, <2>3, <2>5, <3>1 DEF Triple, Top
      <3>3. QED
        BY <3>2
    <2>6. \A k \in DOMAIN stack : (Triple(Top) \notin Given(stack[k])) = (Triple(Top) \notin Given(stack[k]))'
      BY <2>1 DEF Triple, Top, Given
    <2>7. QED
      BY <2>1, <2>4, <2>5, <2>6 DEF MultipleInv, Top
  <1>3. CASE NoInstallMultiple
    BY <1>3, NoneBegins
  <1>4. CASE Next /\ ~Idle /\ Top.op = "InstallMultiple"
    <2>1. CASE InstallNext \/ UninstallDone
      BY <2>1, InstallNextMultiple, UninstallDoneMultiple
    <2>2. CASE MultipleSucceeds \/ MultipleFails
      BY <1>1, <1>4, <2>2, MultipleReturns DEF MultipleSucceeds, MultipleFails
    <2>3. QED
      BY <1>4, <2>1, <2>2, MultipleRuns
  <1>5. CASE Next /\ ~NoInstallMultiple /\ Top.op # "InstallMultiple"
    <2>1. PICK k \in DOMAIN stack : stack[k].op = "InstallMultiple"
      BY <1>5 DEF NoInstallMultiple
    <2>2. stack # << >> /\ Top = stack[1] /\ k \in 1 .. Len(stack) /\ Len(stack) \in Nat
      BY <1>1, <2>1 DEF Top
    <2>3. k = 2
      BY <1>5, <2>1, <2>2 DEF MultipleInv
    <2>4. \A j \in 3 .. Len(stack) : stack[j].op # "InstallMultiple"
      BY <1>1, <2>2 DEF MultipleInv
    <2>5. RollingBack
      <3>1. ~Idle /\ Len(stack) > 1 /\ stack[2].op = "InstallMultiple"
        BY <2>1, <2>2, <2>3 DEF Idle
      <3>2. /\ Top.op = "Uninstall" /\ Top.pc \in {"enter", "scan", "purged"}
            /\ stack[2].pc = "rollback" /\ Triple(Top) \notin Given(stack[2])
            /\ Undoable(stack[2], {Triple(Top)})
        BY <2>1, <2>3 DEF MultipleInv
      <3>3. QED
        BY <2>4, <3>1, <3>2 DEF RollingBack
    <2>6. QED
      BY <1>1, <1>5, <2>5, RollbackStep
  <1>6. ~NoInstallMultiple => ~Idle
    <2>1. DOMAIN << >> = {}
      OBVIOUS
    <2>2. Idle => DOMAIN stack = {}
      BY <2>1, Zenon DEF Idle
    <2>3. QED
      BY <2>2 DEF NoInstallMultiple
  <1>7. QED
    BY <1>2, <1>3, <1>4, <1>5, <1>6

LEMMA InitMultipleInv == Init => MultipleInv
  <1>1. DOMAIN << >> = {}
    OBVIOUS
  <1>2. Init => DOMAIN stack = {}
    BY <1>1, Zenon DEF Init
  <1>3. QED
    BY <1>2 DEF MultipleInv

LEMMA SpecMultipleInv == Spec => [](ServicesInv /\ MultipleInv)
  <1>1. Init => ServicesInv /\ MultipleInv
    BY InitServicesInv, InitMultipleInv
  <1>2. ServicesInv /\ MultipleInv /\ [Next]_vars => (ServicesInv /\ MultipleInv)'
    BY NextServicesInv, NextMultipleInv
  <1>3. QED
    BY <1>1, <1>2, PTL DEF Spec

(* InstallMultipleProtocolInterfaces installs everything or leaves the     *)
(* database as it found it, whoever calls it and whatever the drivers do:  *)
(* its rollback cannot be refused.                                         *)
THEOREM InstallsAllOrNone == Spec => InstallMultipleAtomic
  <1> DEFINE Atomic ==
        ~Idle /\ MultipleEnds("InstallMultiple") =>
          Installed' = IF ret' = "SUCCESS" THEN Top.before \cup Given(Top) ELSE Top.before
  <1>1. ASSUME ServicesInv, MultipleInv, Next PROVE Atomic
    <2>1. SUFFICES ASSUME ~Idle, MultipleEnds("InstallMultiple") PROVE Atomic
      OBVIOUS
    <2>2. StackInv /\ stack \in Seq(Frames) /\ stack # << >> /\ Top \in Frames
      BY <1>1, <2>1, TopFrame DEF ServicesInv, StackInv, Idle
    <2>3. Top.op = "InstallMultiple" /\ Len(stack') < Len(stack)
      BY <2>1 DEF MultipleEnds, At
    <2>4. /\ Top.pc = "rollback" => Top.status # "SUCCESS"
          /\ Installed = Top.before \cup Given(Top)
      BY <1>1, <2>1, <2>2, <2>3, OnlyTop DEF Undoable, Added
    <2>5. ~InstallNext /\ ~UninstallDone
      <3>1. ASSUME NEW f, Become(f) PROVE FALSE
        BY <2>2, <2>3, <3>1, BecomeShape
      <3>2. ASSUME NEW f, NEW me, Call(f, me) PROVE FALSE
        BY <2>2, <2>3, <3>2, CallShape
      <3>3. QED
        BY <3>1, <3>2 DEF InstallNext, UninstallDone, Advance, Fail
    <2>6. CASE MultipleSucceeds
      <3>1. ret' = "SUCCESS" /\ Installed' = Installed
        BY <2>6, InstalledSame DEF MultipleSucceeds, Return, dbvars
      <3>2. QED
        BY <2>4, <3>1
    <2>7. CASE MultipleFails
      <3>1. Top.pc = "rollback" /\ Top.done = << >> /\ ret' = Top.status /\ Installed' = Installed
        BY <2>7, InstalledSame DEF MultipleFails, At, Return, dbvars
      <3>2. Given(Top) = {}
        BY <3>1, GivenNone
      <3>3. QED
        BY <2>4, <3>1, <3>2
    <2>8. QED
      BY <1>1, <2>1, <2>3, <2>5, <2>6, <2>7, MultipleRuns
  <1>2. ServicesInv /\ MultipleInv /\ [Next]_vars => [Atomic]_vars
    BY <1>1
  <1> HIDE DEF Atomic
  <1>3. Spec => [][Atomic]_vars
    BY <1>2, SpecMultipleInv, PTL DEF Spec
  <1>4. QED
    BY <1>3 DEF Atomic, InstallMultipleAtomic

===============================================================================
