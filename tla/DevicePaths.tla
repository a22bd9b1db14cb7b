------------------------------ MODULE DevicePaths ------------------------------
(***************************************************************************)
(* UefiDevicePathLibHost: device paths as they lie in memory.  The unit is *)
(* a node header, sizeof (EFI_DEVICE_PATH_PROTOCOL), so that a header is   *)
(* one word and the data of a node are the words behind it; a path is a    *)
(* sequence of words, and NULL is no path.  A client builds a path out of  *)
(* nodes and instances, takes it apart again, and asks about paths it was  *)
(* given that may be malformed.                                            *)
(***************************************************************************)
EXTENDS Integers, Sequences, SequencesExt

CONSTANTS
  Nodes,                 \* nodes a client appends: [sub, length]
  Malformed,             \* memory that holds no path
  MaxNodeCount,          \* PcdMaximumDevicePathNodeCount, 0 is no limit
  MaxSteps               \* bound: nodes and instances appended

VARIABLES
  path,                  \* the client's path
  rest,                  \* how much of it GetNextDevicePathInstance has left
  given,                 \* what was appended: the instances, each its nodes
  call                   \* what the last function did

vars == << path, rest, given, call >>

NULL == << >>
Idle  == [is |-> "idle"]
Unset == -1              \* what the caller's variable held before
END_DEVICE_PATH_LENGTH == 1

Word(type, sub, length) == [type |-> type, sub |-> sub, length |-> length]
Data == Word("data", 0, 0)
SetDevicePathEndNode == << Word("end", "entire", END_DEVICE_PATH_LENGTH) >>

DevicePathType(p, at)       == p[at].type
DevicePathSubType(p, at)    == p[at].sub
DevicePathNodeLength(p, at) == p[at].length
NextDevicePathNode(p, at)   == at + DevicePathNodeLength(p, at)
IsDevicePathEndType(p, at)  == DevicePathType(p, at) = "end"
IsDevicePathEnd(p, at) == IsDevicePathEndType(p, at) /\ DevicePathSubType(p, at) = "entire"
IsDevicePathEndInstance(p, at) ==
  IsDevicePathEndType(p, at) /\ DevicePathSubType(p, at) = "instance"

(* A node that is too short is refused: the node stays as it is then. *)
CreateDeviceNode(type, sub, length) ==
  IF length < 1 THEN NULL ELSE << Word(type, sub, length) >> \o [i \in 1 .. length - 1 |-> Data]

(***************************************************************************)
(* The nodes from the first to the one that stop tells, each where it      *)
(* begins.  A walk also stops at a node without length, and where memory   *)
(* that is known ends.                                                     *)
(***************************************************************************)
Walk(p, stop(_)) ==
  LET from[at \in DOMAIN p] ==
        IF stop(at) \/ DevicePathNodeLength(p, at) < 1 \/ NextDevicePathNode(p, at) \notin DOMAIN p
          THEN << at >>
          ELSE << at >> \o from[NextDevicePathNode(p, at)]
  IN  from[1]

EndOf(p) == LET nodes == Walk(p, LAMBDA at : IsDevicePathEnd(p, at)) IN nodes[Len(nodes)]

(* maxSize 0 is no limit; the size is compared before a node is looked at. *)
IsDevicePathValid(p, maxSize) ==
  LET nodes == Walk(p, LAMBDA at : IsDevicePathEnd(p, at))
      end   == nodes[Len(nodes)]
  IN  /\ IsDevicePathEnd(p, end)
      /\ maxSize > 0 => end <= maxSize
      /\ MaxNodeCount > 0 => Len(nodes) - 1 < MaxNodeCount
      /\ DevicePathNodeLength(p, end) = END_DEVICE_PATH_LENGTH

GetDevicePathSize(p) ==
  IF p = NULL \/ ~IsDevicePathValid(p, 0) THEN 0 ELSE EndOf(p) + DevicePathNodeLength(p, EndOf(p)) - 1

IsDevicePathMultiInstance(p) ==
  /\ p # NULL /\ IsDevicePathValid(p, 0)
  /\ \E at \in ToSet(Walk(p, LAMBDA at : IsDevicePathEnd(p, at))) : IsDevicePathEndInstance(p, at)

(* What is copied into new memory, when there is some. *)
DuplicateDevicePath(p) == SubSeq(p, 1, GetDevicePathSize(p))

AppendDevicePath(first, second) ==
  CASE first = NULL ->
         DuplicateDevicePath(IF second # NULL THEN second ELSE SetDevicePathEndNode)
    [] first # NULL /\ second = NULL -> DuplicateDevicePath(first)
    [] OTHER ->
         IF ~IsDevicePathValid(first, 0) \/ ~IsDevicePathValid(second, 0) THEN NULL
         ELSE SubSeq(first, 1, GetDevicePathSize(first) - END_DEVICE_PATH_LENGTH)
                \o SubSeq(second, 1, GetDevicePathSize(second))

AppendDevicePathNode(p, node) ==
  IF node = NULL THEN DuplicateDevicePath(IF p # NULL THEN p ELSE SetDevicePathEndNode)
  ELSE AppendDevicePath(p, node \o SetDevicePathEndNode)

AppendDevicePathInstance_KeepsEnd(p, instance) ==
  CASE p = NULL -> DuplicateDevicePath(instance)
    [] p # NULL /\ instance = NULL -> NULL
    [] OTHER ->
         IF ~IsDevicePathValid(p, 0) \/ ~IsDevicePathValid(instance, 0) THEN NULL
         ELSE DuplicateDevicePath(p) \o DuplicateDevicePath(instance)

AppendDevicePathInstance(p, instance) ==
  CASE p = NULL -> DuplicateDevicePath(instance)
    [] p # NULL /\ instance = NULL -> NULL
    [] OTHER ->
         IF ~IsDevicePathValid(p, 0) \/ ~IsDevicePathValid(instance, 0) THEN NULL
         ELSE [DuplicateDevicePath(p) EXCEPT ![EndOf(p)].sub = "instance"]
                \o DuplicateDevicePath(instance)

(* The first instance, its size, and what is behind it; size is unset if p is no path. *)
GetNextDevicePathInstance(p) ==
  LET nodes == Walk(p, LAMBDA at : IsDevicePathEndType(p, at))
      end   == nodes[Len(nodes)]
  IN  CASE p = NULL -> [instance |-> NULL, size |-> 0, next |-> NULL]
        [] p # NULL /\ ~IsDevicePathValid(p, 0) -> [instance |-> NULL, size |-> Unset, next |-> p]
        [] OTHER ->
             [ instance |-> DuplicateDevicePath([p EXCEPT ![end].sub = "entire"]),
               size     |-> end,
               next     |-> IF IsDevicePathEnd(p, end) THEN NULL
                            ELSE SubSeq(p, NextDevicePathNode(p, end), Len(p)) ]

(***************************************************************************)
(* The client.                                                             *)
(***************************************************************************)
Init == path = NULL /\ rest = NULL /\ given = << >> /\ call = Idle

Steps == FoldLeft(LAMBDA n, i : n + 1 + Len(i), 0, given)

Node(n) == CreateDeviceNode("hardware", n.sub, n.length)

(* With no memory, or one node too many, the result is NULL and the old path stays. *)
Take(new, instances) ==
  \/ /\ new # NULL
     /\ path' = new /\ rest' = new /\ given' = instances /\ call' = [is |-> "appended"]
  \/ call' = [is |-> "NULL"] /\ UNCHANGED << path, rest, given >>

AppendNode ==
  \E n \in Nodes :
    /\ Steps < MaxSteps
    /\ Take(AppendDevicePathNode(path, Node(n)),
            IF given = << >> THEN << << n >> >>
            ELSE [given EXCEPT ![Len(given)] = Append(@, n)])

(* One after the other, or a whole path at once. *)
AppendInstance ==
  \E n \in Nodes :
    /\ Steps < MaxSteps
    /\ Take(AppendDevicePathInstance(path, AppendDevicePathNode(NULL, Node(n))),
            Append(given, << n >>))

AppendPath ==
  /\ given # << >> /\ 2 * Steps <= MaxSteps
  /\ Take(AppendDevicePath(path, path),
          SubSeq(given, 1, Len(given) - 1)
            \o << given[Len(given)] \o given[1] >> \o SubSeq(given, 2, Len(given)))

DevicePathFromHandle == {path, NULL}

FileDevicePath ==
  \E device \in DevicePathFromHandle, n \in Nodes :
    /\ Steps < MaxSteps
    /\ device = NULL => given = << >>
    /\ Take(AppendDevicePath(device, Node(n) \o SetDevicePathEndNode),
            IF given = << >> THEN << << n >> >>
            ELSE [given EXCEPT ![Len(given)] = Append(@, n)])

Iterate ==
  LET next == GetNextDevicePathInstance(rest)
  IN  /\ rest # NULL
      /\ \/ call' = [is |-> "instance", got |-> next, left |-> rest]
         \/ call' = [is |-> "instance", got |-> [next EXCEPT !.instance = NULL], left |-> rest]
      /\ rest' = next.next
      /\ UNCHANGED << path, given >>

AskAbout ==
  \E p \in Malformed :
    /\ call' = [ is |-> "malformed", of |-> p,
                 results |-> { DuplicateDevicePath(p), AppendDevicePath(p, SetDevicePathEndNode),
                               AppendDevicePath(SetDevicePathEndNode, p),
                               AppendDevicePathInstance(p, SetDevicePathEndNode),
                               GetNextDevicePathInstance(p).instance },
                 size |-> GetDevicePathSize(p), multi |-> IsDevicePathMultiInstance(p) ]
    /\ UNCHANGED << path, rest, given >>

Next ==
  AppendNode \/ AppendInstance \/ AppendPath \/ FileDevicePath \/ Iterate \/ AskAbout
Spec == Init /\ [][Next]_vars
--------------------------------------------------------------------------------
(* The words of an instance, and of all of them. *)
Flat(instance, sub) ==
  FoldLeft(LAMBDA words, n : words \o Node(n), << >>, instance)
    \o << Word("end", sub, END_DEVICE_PATH_LENGTH) >>

Layout(instances) ==
  FoldLeftDomain(LAMBDA words, i :
                   words \o Flat(instances[i], IF i = Len(instances) THEN "entire" ELSE "instance"),
                 << >>, instances)

(* Nodes a path of instances has, the ends of its instances but the last with them. *)
CountOf(instances) == FoldLeft(LAMBDA n, i : n + Len(i) + 1, 0, instances) - 1
Admitted(instances) == MaxNodeCount = 0 \/ CountOf(instances) < MaxNodeCount

(***************************************************************************)
(* Whatever order nodes, paths and instances are appended in, the path is  *)
(* laid out as their concatenation, its size and number of instances are   *)
(* theirs, the iteration gives back one instance after the other with its  *)
(* size, also when memory is short in between, and leaves the path as it   *)
(* was; nothing is made of malformed memory (DevicePathUtilities.c:441 to  *)
(* 709).                                                                   *)
(***************************************************************************)
DevicePathsExact ==
  /\ given # << >> =>
       /\ path = Layout(given)
       /\ GetDevicePathSize(path) = IF Admitted(given) THEN Len(path) ELSE 0
       /\ IsDevicePathMultiInstance(path) <=> Admitted(given) /\ Len(given) > 1
       /\ Admitted(given) => \A size \in 1 .. Len(path) : IsDevicePathValid(path, size) <=> size = Len(path)
  /\ call.is = "instance" /\ call.got.size # Unset =>
       \E i \in 1 .. Len(given) :
         /\ call.left = Layout(SubSeq(given, i, Len(given)))
         /\ call.got.size = Len(Flat(given[i], "entire"))
         /\ call.got.instance \in {NULL, Flat(given[i], "entire")}
         /\ call.got.next = IF i = Len(given) THEN NULL ELSE Layout(SubSeq(given, i + 1, Len(given)))
  /\ call.is = "malformed" => call.results = {NULL} /\ call.size = 0 /\ ~call.multi
================================================================================
