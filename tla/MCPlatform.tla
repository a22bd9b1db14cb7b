------------------------------- MODULE MCPlatform -------------------------------
(* Small instances of the components that do not call one another, in one   *)
(* run: those of Platform, and variables and the paths of the AHCI driver.   *)
(* The initial state chooses the component; the variables of one that is not *)
(* in Platform are the first of s1 .. s6.                                    *)
EXTENDS Platform

CONSTANTS a, b, c, d

VARIABLES component, s1, s2, s3, s4, s5, s6

slots == << s1, s2, s3, s4, s5, s6 >>

UpTo(n, S) == UNION { [1 .. k -> S] : k \in 0 .. n }

-----------------------------------------------------------------------------
(* PEI services.                                                           *)
Ppi(guid, valid)   == [guid |-> guid, valid |-> valid]
Notify(guid, kind) == [guid |-> guid, kind |-> kind]

SmallPpiLists ==
  { << Ppi("a", TRUE) >>, << Ppi("b", TRUE), Ppi("a", TRUE) >>,
    << Ppi("a", TRUE), Ppi("b", FALSE) >> }
SmallNotifyLists ==
  { << Notify("a", "callback") >>, << Notify("a", "dispatch") >>,
    << Notify("b", "dispatch"), Notify("a", "callback") >>,
    << Notify("a", "callback"), Notify("b", "none") >> }
SmallNewPpis == { Ppi("b", TRUE) }

-----------------------------------------------------------------------------
(* Variables: the store of the host, the format of a flash store and the   *)
(* database of certificates.                                               *)
Signatures(type, certs) == [type |-> type, certs |-> certs]

Variables == INSTANCE VariableStore WITH
  Variables <- {"db", "v"}, SignatureVariables <- {"db"},
  Payloads <- { << >>, << Signatures("x", << 1, 2 >>) >>,
                << Signatures("x", << 2, 3 >>), Signatures("y", << 1 >>) >> },
  Times <- {1, 2, 3}, MaxPieces <- 3, MaxFailures <- 1,
  mVarListEntry <- s1, failures <- s2

Format == INSTANCE VariableFormat WITH
  NULL <- Absent, VariableTypes <- {"Normal", "CountBasedAuth", "TimeBasedAuth", "unknown"},
  Names <- { [id |-> "a", size |-> 4], [id |-> "b", size |-> 6] },
  Guids <- {a, b}, DataSizes <- {1}, StoreSizes <- {28, 146},
  size <- s1, type <- s2, memory <- s3, written <- s4, call <- s5

Certificate(name, length, guid) == [guid |-> guid, name |-> name, size |-> length]

Certificates == INSTANCE CertDb WITH
  NULL <- Absent, Names <- { << "a" >>, << "b", "c" >> }, Guids <- {a, b}, MaxCalls <- 4,
  Enrolled <- { << Certificate(<< "a" >>, 3, a), Certificate(<< "b", "c" >>, 4, b) >> },
  certdb <- s1, call <- s2, calls <- s3

-----------------------------------------------------------------------------
(* The AHCI driver.  Numbers are to the base 4, 2 and 64 where the device  *)
(* has bytes, half bytes and words.                                        *)
Identity(lba48, capacity48, capacity28, words, trust) ==
  [ notDisk |-> FALSE, lba48 |-> lba48, capacity48 |-> capacity48,
    capacity28 |-> capacity28, longSectors |-> words > 0, words |-> words, trust |-> trust ]

Identities ==
  { Identity(FALSE, 0, 128, 0, TRUE), Identity(TRUE, 200, 100, 2, FALSE),
    Identity(TRUE, 10, 20, 0, TRUE), Identity(TRUE, 200, 100, 1, TRUE),
    Identity(FALSE, 0, 0, 0, TRUE), Identity(FALSE, 0, 10, 16, TRUE),
    Identity(FALSE, 0, 200, 0, TRUE),
    [Identity(FALSE, 0, 128, 0, TRUE) EXCEPT !.notDisk = TRUE] }

SmallReads ==
  [index : 1 .. 2, lba : {0, 125, 199}, size : {1, 9, 20}, buffer : {TRUE}, aligned : {TRUE}]
    \cup { [index |-> index, lba |-> 0, size |-> size, buffer |-> has, aligned |-> ~has] :
             index \in {0, 1}, size \in {0, 1}, has \in BOOLEAN }

SmallPackets ==
  { [ protocol |-> protocol, timeout |-> 1, bytes |-> bytes, aligned |-> TRUE,
      in |-> IF protocol = "PIO_DATA_IN" THEN n ELSE 0,
      out |-> IF protocol = "PIO_DATA_OUT" THEN n ELSE 0 ] :
      protocol \in {"NON_DATA", "PIO_DATA_IN", "PIO_DATA_OUT", "DMA"},
      n \in {1, 17}, bytes \in BOOLEAN }

(* Words of a path: data, nodes as long as 1, 2 or 4 words, and ends.      *)
PathWord(type, sub, length) == [type |-> type, sub |-> sub, length |-> length]
PathWords ==
  { PathWord("data", "none", 0), PathWord("acpi", "root", 1), PathWord("acpi", "root", 2),
    PathWord("acpi", "root", 4), PathWord("end", "instance", 1), PathWord("end", "entire", 1),
    PathWord("end", "other", 2) }

HcPaths == INSTANCE HcDevicePath WITH
  Memories <- UpTo(4, PathWords), Ports <- {1, 2},
  devicePath <- s1, at <- s2, odd <- s3, status <- s4, instance <- s5, built <- s6

-----------------------------------------------------------------------------
(* The Virtio block driver.                                                *)
Capability(type, length, bar, offset, size, multiplier) ==
  [ type |-> type, capLen |-> length, bar |-> bar, offset |-> offset,
    length |-> size, multiplier |-> multiplier ]

SmallCapabilities ==
  UpTo(3, { Capability("common", "base", 0, 0, 56, 0), Capability("specific", "base", 0, 56, 32, 0),
            Capability("notify", "whole", 0, 88, 256, 2), Capability("notify", "base", 1, 64, 128, 3),
            Capability("common", "base", 6, 1, 1, 0), Capability("pci", "base", 0, 0, 0, 0),
            Capability("common", "short", 1, 4, 4, 0) })
SmallFeatureWords ==
  { {}, {"b0"}, {"b0", "b1", "BLK_SIZE"}, {"BLK_SIZE", "TOPOLOGY", "b7"}, {"RO", "TOPOLOGY"} }

-----------------------------------------------------------------------------
(* The variables a component does not have, from the n-th on.               *)
From6 == << s6 >>
From5 == << s5, From6 >>
From4 == << s4, From5 >>
From3 == << s3, From4 >>

None6 == s6 = Absent
None5 == s5 = Absent /\ None6
None4 == s4 = Absent /\ None5
None3 == s3 = Absent /\ None4
None1 == s1 = Absent /\ s2 = Absent /\ None3

(* Components of Platform that have a choice to make make it when it is their *)
(* turn, and are anywhere else the same.                                     *)
MCInit ==
  /\ component \in { "ppis", "pcds", "heap", "hook", "usb", "hobs", "virtio", "disk", "variables",
                     "format", "certificates", "ahci", "paths" }
  /\ Peim!Init /\ Heap!Init /\ HcHook!Init /\ Stubs!Init /\ Hobs!Init
  /\ Pcds!Init /\ (component # "pcds" => patch.max = 2)
  /\ Virtio10!Init /\ (component # "virtio" => init.at = "parse" /\ init.caps = << >>)
  /\ Disk!Init /\ AhciDriver!Init
  /\ component # "disk" => media.size = 6 /\ media.blockSize = 2 /\ media.align = 1
  /\ \/ /\ component \in {"ppis", "pcds", "heap", "hook", "usb", "hobs", "virtio", "disk",
                         "ahci"}
        /\ None1
     \/ component = "variables" /\ Variables!Init /\ None3
     \/ component = "format" /\ Format!Init /\ None6
     \/ component = "certificates" /\ Certificates!Init /\ None4
     \/ component = "paths" /\ HcPaths!Init

(* The steps of the components of Platform, one at a time.                  *)
ProvedNext ==
  \/ /\ component = "ppis" /\ Peim!Next
     /\ UNCHANGED << pcdVars, heapVars, hookVars, usbVars, hobVars, virtioVars, diskVars, ahciVars >>
  \/ /\ component = "pcds" /\ Pcds!Next
     /\ UNCHANGED << ppiVars, heapVars, hookVars, usbVars, hobVars, virtioVars, diskVars, ahciVars >>
  \/ /\ component = "heap" /\ Heap!Next
     /\ UNCHANGED << ppiVars, pcdVars, hookVars, usbVars, hobVars, virtioVars, diskVars, ahciVars >>
  \/ /\ component = "hook" /\ HcHook!Next
     /\ UNCHANGED << ppiVars, pcdVars, heapVars, usbVars, hobVars, virtioVars, diskVars, ahciVars >>
  \/ /\ component = "usb" /\ Stubs!Next
     /\ UNCHANGED << ppiVars, pcdVars, heapVars, hookVars, hobVars, virtioVars, diskVars, ahciVars >>
  \/ /\ component = "hobs" /\ Hobs!Next
     /\ UNCHANGED << ppiVars, pcdVars, heapVars, hookVars, usbVars, virtioVars, diskVars, ahciVars >>
  \/ /\ component = "virtio" /\ Virtio10!Next
     /\ UNCHANGED << ppiVars, pcdVars, heapVars, hookVars, usbVars, hobVars, diskVars, ahciVars >>
  \/ /\ component = "disk" /\ Disk!Next
     /\ UNCHANGED << ppiVars, pcdVars, heapVars, hookVars, usbVars, hobVars, virtioVars, ahciVars >>
  \/ /\ component = "ahci" /\ AhciDriver!Next
     /\ UNCHANGED << ppiVars, pcdVars, heapVars, hookVars, usbVars, hobVars, virtioVars, diskVars >>

OtherNext ==
  \/ component = "variables" /\ Variables!Next /\ UNCHANGED From3
  \/ component = "format" /\ Format!Next /\ UNCHANGED From6
  \/ component = "certificates" /\ Certificates!Next /\ UNCHANGED From4
  \/ component = "paths" /\ HcPaths!Next

MCNext ==
  /\ UNCHANGED component
  /\ \/ ProvedNext /\ UNCHANGED slots
     \/ OtherNext /\ UNCHANGED platformVars

MCvars == << component, slots, platformVars >>

MCSpec == MCInit /\ [][MCNext]_MCvars

-----------------------------------------------------------------------------
(* What was written to a flash store is found again, and there is room for  *)
(* what is said to fit; the certificate database stays readable whatever    *)
(* is inserted and deleted.                                                 *)
FormatsReadable ==
  /\ component = "variables" => Variables!NamesUnique
  /\ component = "format" => Format!StoreExact
  /\ component = "certificates" => Certificates!DatabaseReadable

(* A path that is found valid can be walked, and device paths are built of  *)
(* the path of the controller and the port.                                 *)
HcPathsExact == component = "paths" => HcPaths!HcPathsExact

(* Appends to a signature database lose nothing and add nothing twice.      *)
AppendsSound ==
  [][ component = "variables" => Variables!AppendSound ]_MCvars
================================================================================
