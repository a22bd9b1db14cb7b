---------------------------- MODULE MCBootServices ----------------------------
(* Small instances of BootServices for TLC. *)
EXTENDS BootServices, TLC

CONSTANTS h1, h2, h3, Binding, Bus, x1, x2, x3

PermutedProts == Permutations(Prots)

(* Which handle plays which role: h1 is a driver, h2 a controller, h3 its child. *)
Anywhere   == Handles \X Protocols
OneBus     == { << h1, Binding >>, << h2, Bus >>, << h3, Bus >> }
TwoDevices == { << h1, Binding >>, << h1, Bus >>, << h2, Bus >> }
NoTopology == {}
OneChild   == { << h2, h3 >> }

(* What the client asks for. *)
OpenClient     == {"Install", "Uninstall", "OpenProtocol"}
ReinstallClient == {"Install", "Reinstall", "Uninstall"}
NotifyClient == ReinstallClient \cup { "RegisterNotify", "UnregisterNotify",
                                       "LocateProtocol", "LocateHandle" }
MultipleClient == {"InstallMultiple", "UninstallMultiple", "Uninstall"}
UninstallMultipleClient == {"InstallMultiple", "UninstallMultiple"}

OpenOrMultipleClient == OpenClient \cup MultipleClient

(* What drivers ask for while they are being started or stopped. *)
NoCallbacks  == [Start |-> {}, Stop |-> {}]
OpenAndClose == [Start |-> {"OpenProtocol"}, Stop |-> {"CloseProtocol"}]
BusDriver    == [Start |-> {"OpenProtocol", "Install"},
                 Stop  |-> {"CloseProtocol", "Uninstall"}]
Reentrant    == [Start |-> {"OpenProtocol"},
                 Stop  |-> {"CloseProtocol", "Reinstall"}]
NoModes        == {}
ExclusiveModes == { {ByDriver}, {Exclusive}, {ByDriver, Exclusive} }
BusModes       == { {ByDriver}, {ByChildController} }
ByDriverOnly   == { {ByDriver} }

(* x1 and x2 point to the same device path, x3 to a longer one. *)
Paths == [x \in Interfaces |-> IF x = x3 THEN << "root", "disk" >> ELSE << "root" >>]

(* Two small instances in one run: whoever opens interfaces has two of them *)
(* with one pointer, and nobody opens what the Multiple services work on.   *)
SomeoneOpens ==
  \/ \E i \in Allocated : openList[i] # {}
  \/ \E k \in DOMAIN stack : stack[k].op = "Open"

OpensOrPairs ==
  SomeoneOpens =>
    /\ Cardinality(Allocated) <= 2
    /\ \A i \in Allocated : prot[i].interface = x1
    /\ \A k \in DOMAIN stack : stack[k].op \notin Multiples
===============================================================================
