----------------------------- MODULE HcDevicePath -----------------------------
(***************************************************************************)
(* The AHCI driver's DevicePath.c: the device path of a host controller,   *)
(* given as a number of bytes, is walked node by node to see whether it is *)
(* one, and the path of a device is made of it.  The unit is a node header *)
(* as in DevicePaths; a length below it is 0.                              *)
(***************************************************************************)
EXTENDS Integers, Sequences

CONSTANTS
  Memories,                \* what the bytes may hold: sequences of words
  Ports

VARIABLES
  devicePath,              \* DevicePath; DevicePathLength is its length
  at,                      \* how far behind Start the walk is
  odd,                     \* whether the loop has turned an odd number of times
  status,                  \* of AhciIsHcDevicePathValid
  instance,                \* of GetDevicePathInstanceSize
  built                    \* of AhciBuildDevicePath

vars == << devicePath, at, odd, status, instance, built >>

NULL == << >>
DevicePathLength == Len(devicePath)
Word(type, sub, length) == [type |-> type, sub |-> sub, length |-> length]
mAhciEndDevicePathNodeTemplate == << Word("end", "entire", 1) >>

(* The port and the port multiplier's are in the data; three units hold the ten bytes. *)
mAhciSataDevicePathNodeTemplate(port) ==
  << Word("messaging", "sata", 3), Word("data", port, 0), Word("data", "none", 0) >>

Header(offset) == devicePath[offset + 1]
NextDevicePathNode(offset) == offset + Header(offset).length
IsEnd(offset) == Header(offset).type = "end" /\ Header(offset).sub = "entire"

Init ==
  /\ devicePath \in Memories
  /\ at = 0 /\ odd = FALSE /\ status = "walking"
  /\ instance = [at |-> 0, status |-> "walking"]
  /\ built = NULL

Refuse == status' = "INVALID_PARAMETER" /\ UNCHANGED << at, odd >>

(***************************************************************************)
(* AhciIsHcDevicePathValid: one turn of its loop is a step.                *)
(***************************************************************************)
TooShort ==
  /\ status = "walking" /\ DevicePathLength < 1
  /\ Refuse
  /\ UNCHANGED << devicePath, instance, built >>

CheckNode ==
  LET next == NextDevicePathNode(at)
  IN  /\ status = "walking" /\ DevicePathLength >= 1 /\ ~IsEnd(at)
      /\ \/ /\ next <= 0 \/ next > DevicePathLength - 1
            /\ Refuse
         \/ /\ next > 0 /\ next <= DevicePathLength - 1
            /\ at' = next /\ odd' = ~odd /\ UNCHANGED status
      /\ UNCHANGED << devicePath, instance, built >>

CheckSize_AtAnyEnd ==
  /\ status = "walking" /\ DevicePathLength >= 1 /\ IsEnd(at)
  /\ status' = "SUCCESS"
  /\ UNCHANGED << devicePath, at, odd, instance, built >>

CheckSize ==
  /\ status = "walking" /\ DevicePathLength >= 1 /\ IsEnd(at)
  /\ status' = IF at + 1 = DevicePathLength THEN "SUCCESS" ELSE "INVALID_PARAMETER"
  /\ UNCHANGED << devicePath, at, odd, instance, built >>

AhciIsHcDevicePathValid == TooShort \/ CheckNode \/ CheckSize

(***************************************************************************)
(* GetDevicePathInstanceSize walks without looking at lengths: callers do  *)
(* not give it what is not valid.                                          *)
(***************************************************************************)
GetDevicePathInstanceSize ==
  LET here == Header(instance.at)
  IN  /\ status = "SUCCESS" /\ instance.status = "walking"
      /\ instance' =
           CASE here.type # "end" -> [instance EXCEPT !.at = NextDevicePathNode(@)]
             [] here.type = "end" /\ here.sub \in {"entire", "instance"} ->
                  [at |-> instance.at, status |-> "SUCCESS", size |-> instance.at + 1, entire |-> here.sub = "entire"]
             [] OTHER -> [instance EXCEPT !.status = "INVALID_PARAMETER"]
      /\ UNCHANGED << devicePath, at, odd, status, built >>

(* The device's node comes in place of the last node, and an end behind it. *)
AhciBuildDevicePath ==
  \E port \in Ports :
    /\ status = "SUCCESS"
    /\ built' \in { NULL,
                    SubSeq(devicePath, 1, DevicePathLength - 1)
                      \o mAhciSataDevicePathNodeTemplate(port) \o mAhciEndDevicePathNodeTemplate }
    /\ UNCHANGED << devicePath, at, odd, status, instance >>

Next == AhciIsHcDevicePathValid \/ GetDevicePathInstanceSize \/ AhciBuildDevicePath
Spec == Init /\ [][Next]_vars

(* The caller waits for the answer. *)
FairSpec == Spec /\ WF_vars(AhciIsHcDevicePathValid)
--------------------------------------------------------------------------------
(* Where a walk over nodes with a length can get to inside a path. *)
Reached(p) ==
  LET within[n \in 0 .. Len(p)] ==
        IF n = 0 THEN {0}
        ELSE within[n - 1] \cup
             { o + p[o + 1].length : o \in { i \in within[n - 1] :
                 /\ i < Len(p) /\ p[i + 1].length > 0
                 /\ ~(p[i + 1].type = "end" /\ p[i + 1].sub = "entire") } }
  IN  within[Len(p)] \cap 0 .. Len(p) - 1

IsPath(p) ==
  p # NULL /\ Len(p) - 1 \in Reached(p) /\ p[Len(p)].type = "end" /\ p[Len(p)].sub = "entire"

(***************************************************************************)
(* The walk stays inside the bytes it was given, takes them exactly when   *)
(* their nodes lead to an end at their last header, and then the size of   *)
(* the first instance is right and the path made for a device would be     *)
(* taken again (DevicePath.c:150, 219).                                    *)
(***************************************************************************)
HcPathsExact ==
  /\ DevicePathLength > 0 => at <= DevicePathLength - 1
  /\ status = "SUCCESS" => IsPath(devicePath)
  /\ status = "INVALID_PARAMETER" => ~IsPath(devicePath)
  /\ instance.status = "SUCCESS" =>
       /\ instance.at \in Reached(devicePath)
       /\ instance.entire <=> instance.size = DevicePathLength
       /\ \A o \in Reached(devicePath) : o < instance.at => devicePath[o + 1].type # "end"
  /\ built # NULL => IsPath(built) /\ Len(built) = DevicePathLength + 3

(***************************************************************************)
(* "Prevent overflow and invalid zero in the 'Length' field of a device    *)
(* path node" (DevicePath.c:175): the answer always comes.                 *)
(***************************************************************************)
WalkEnds == <>(status # "walking")
===============================================================================
