--------------------------------- MODULE Pcd ---------------------------------
(***************************************************************************)
(* BasePcdLibHost.c: the values of PCDs in two lists, one by token number  *)
(* and one by GUID and token number, and the patching of PCDs that are     *)
(* variables of a module.  An ASSERT ends the program.                     *)
(***************************************************************************)
EXTENDS Integers, Sequences, FiniteSets

CONSTANTS
  Tokens, Guids,
  Values,              \* values of PCDs, and contents of buffers
  BufferSizes,         \* sizes of what a pointer PCD is set to
  DatumSizes,          \* maximum sizes of a patchable variable
  MAX_ADDRESS,         \* the largest number, small
  MaxCalls,            \* bound: sets and patches
  NULL

VARIABLES
  mPcdListEntry, mPcdExListEntry,   \* the two lists
  heap,                             \* buffers: number -> contents; freed ones are "freed"
  patch,                            \* a patchable variable and its size
  call,                             \* what the last call did
  latest,                           \* what each PCD was last set to
  handed,                           \* pointers to buffers callers were given
  calls

vars == << mPcdListEntry, mPcdExListEntry, heap, patch, call, latest, handed, calls >>

Idle    == [is |-> "idle"]
Failed  == [is |-> "assert"]
Running == call.is # "assert"
Types   == {"Bool", "Uint8", "Uint16", "Uint32", "Uint64", "Ptr"}
SizeOf  == [Bool |-> 1, Uint8 |-> 1, Uint16 |-> 2, Uint32 |-> 4, Uint64 |-> 8]

Init ==
  /\ mPcdListEntry = << >> /\ mPcdExListEntry = << >>
  /\ heap = << >>
  /\ patch \in [max : DatumSizes, size : {0}, data : {<< >>}]
  /\ call = Idle
  /\ latest = {}
  /\ handed = {}
  /\ calls = 0

FindPcdList_IgnoresGuid(list, guid, token) ==
  LET hits == { i \in 1 .. Len(list) : list[i].token = token }
  IN  IF hits = {} THEN 0 ELSE CHOOSE i \in hits : \A j \in hits : i <= j

(***************************************************************************)
(* Finding an entry.  The first with the token, and the GUID if there is   *)
(* one, decides: one of another type is an ASSERT, which 0 stands for like *)
(* nothing found (every caller asserts that something is).                 *)
(***************************************************************************)
FindPcdList(list, guid, token) ==
  LET hits == { i \in 1 .. Len(list) : /\ list[i].token = token
                                       /\ guid = NULL \/ list[i].guid = guid }
  IN  IF hits = {} THEN 0 ELSE CHOOSE i \in hits : \A j \in hits : i <= j

FindPcdInfoPtr(token)         == FindPcdList(mPcdListEntry, NULL, token)
FindPcdExInfoPtr(guid, token) == FindPcdList(mPcdExListEntry, guid, token)

ListOf(guid)      == IF guid = NULL THEN mPcdListEntry ELSE mPcdExListEntry
Found(guid, token) == IF guid = NULL THEN FindPcdInfoPtr(token) ELSE FindPcdExInfoPtr(guid, token)

(***************************************************************************)
(* CreatePcdInfo, for all its callers: a new entry, or new contents for    *)
(* the one there is; a pointer gets a new buffer each time.  It gives the  *)
(* list and the buffers that result.                                       *)
(***************************************************************************)
CreatePcdInfo(guid, token, type, contents, size) ==
  LET list == ListOf(guid)
      at   == Found(guid, token)
      new  == Len(heap) + 1
      entry == [guid |-> guid, token |-> token, type |-> type, size |-> size, buffer |-> new]
  IN  CASE at = 0 ->
             [status |-> "SUCCESS", list |-> Append(list, entry), heap |-> Append(heap, contents)]
        [] at # 0 /\ (list[at].type # type \/ (type # "Ptr" /\ list[at].size # size)) ->
             [status |-> "INVALID_PARAMETER", list |-> list, heap |-> heap]
        [] at # 0 /\ list[at].type = type /\ type = "Ptr" ->
             [ status |-> "SUCCESS",
               list |-> [list EXCEPT ![at].buffer = new, ![at].size = size],
               heap |-> Append([heap EXCEPT ![list[at].buffer] = "freed"], contents) ]
        [] OTHER ->
             [status |-> "SUCCESS", list |-> list, heap |-> [heap EXCEPT ![list[at].buffer] = contents]]

Key(guid, token) == << guid, token >>

(* Memory may be short: then too the callers assert. *)
Insert(guid, token, type, contents, size) ==
  LET made == CreatePcdInfo(guid, token, type, contents, size)
      held == { h \in handed : h.key = Key(guid, token) /\ type = "Ptr" }
  IN  /\ Running /\ calls < MaxCalls
      /\ calls' = calls + 1
      /\ \/ /\ made.status = "SUCCESS"
            /\ heap' = made.heap
            /\ mPcdListEntry'   = IF guid = NULL THEN made.list ELSE mPcdListEntry
            /\ mPcdExListEntry' = IF guid = NULL THEN mPcdExListEntry ELSE made.list
            /\ latest' = { p \in latest : p.key # Key(guid, token) }
                           \cup {[key |-> Key(guid, token), type |-> type, size |-> size, contents |-> contents]}
            /\ handed' = (handed \ held) \cup { [h EXCEPT !.current = FALSE] : h \in held }
            /\ call' = [is |-> "set"]
         \/ /\ made.status # "SUCCESS" \/ Found(guid, token) = 0 \/ type = "Ptr"
            /\ call' = Failed
            /\ UNCHANGED << mPcdListEntry, mPcdExListEntry, heap, latest, handed >>
      /\ UNCHANGED patch

InsertPcd(token, type, contents, size)         == Insert(NULL, token, type, contents, size)
InsertPcdEx(guid, token, type, contents, size) == Insert(guid, token, type, contents, size)

LibPcdSet8S(token, v)      == InsertPcd(token, "Uint8", v, SizeOf.Uint8)
LibPcdSet16S(token, v)     == InsertPcd(token, "Uint16", v, SizeOf.Uint16)
LibPcdSet32S(token, v)     == InsertPcd(token, "Uint32", v, SizeOf.Uint32)
LibPcdSet64S(token, v)     == InsertPcd(token, "Uint64", v, SizeOf.Uint64)
LibPcdSetBoolS(token, v)   == InsertPcd(token, "Bool", v, SizeOf.Bool)
LibPcdSetPtrS(token, v, n) == InsertPcd(token, "Ptr", v, n)
LibPcdSetEx8S(g, token, v)      == InsertPcdEx(g, token, "Uint8", v, SizeOf.Uint8)
LibPcdSetEx16S(g, token, v)     == InsertPcdEx(g, token, "Uint16", v, SizeOf.Uint16)
LibPcdSetEx32S(g, token, v)     == InsertPcdEx(g, token, "Uint32", v, SizeOf.Uint32)
LibPcdSetEx64S(g, token, v)     == InsertPcdEx(g, token, "Uint64", v, SizeOf.Uint64)
LibPcdSetExBoolS(g, token, v)   == InsertPcdEx(g, token, "Bool", v, SizeOf.Bool)
LibPcdSetExPtrS(g, token, v, n) == InsertPcdEx(g, token, "Ptr", v, n)

Set ==
  \E token \in Tokens, v \in Values :
    \/ LibPcdSet8S(token, v) \/ LibPcdSet16S(token, v) \/ LibPcdSet32S(token, v)
    \/ LibPcdSet64S(token, v) \/ LibPcdSetBoolS(token, v)
    \/ \E n \in BufferSizes : LibPcdSetPtrS(token, v, n)
    \/ \E g \in Guids :
         \/ LibPcdSetEx8S(g, token, v) \/ LibPcdSetEx16S(g, token, v)
         \/ LibPcdSetEx32S(g, token, v) \/ LibPcdSetEx64S(g, token, v)
         \/ LibPcdSetExBoolS(g, token, v)
         \/ \E n \in BufferSizes : LibPcdSetExPtrS(g, token, v, n)

(***************************************************************************)
(* Reading.  Type "Unknown" asks for the size of a PCD of any type.        *)
(***************************************************************************)
Read(guid, token, type) ==
  LET at    == Found(guid, token)
      entry == ListOf(guid)[at]
  IN  /\ Running
      /\ IF at = 0 THEN call' = Failed /\ handed' = handed
         ELSE IF type \notin {"Unknown", entry.type} THEN call' = Failed /\ handed' = handed
         ELSE /\ call' = [ is |-> "get", key |-> Key(guid, token), type |-> type, size |-> entry.size,
                           contents |-> heap[entry.buffer] ]
              /\ handed' = IF type # "Ptr" THEN handed
                           ELSE handed \cup {[ key |-> Key(guid, token), buffer |-> entry.buffer,
                                               current |-> TRUE ]}
      /\ UNCHANGED << mPcdListEntry, mPcdExListEntry, heap, patch, latest, calls >>

LibPcdGet8(token)    == Read(NULL, token, "Uint8")
LibPcdGet16(token)   == Read(NULL, token, "Uint16")
LibPcdGet32(token)   == Read(NULL, token, "Uint32")
LibPcdGet64(token)   == Read(NULL, token, "Uint64")
LibPcdGetPtr(token)  == Read(NULL, token, "Ptr")
LibPcdGetBool(token) == Read(NULL, token, "Bool")
LibPcdGetSize(token) == Read(NULL, token, "Unknown")
LibPcdGetEx8(g, token)    == Read(g, token, "Uint8")
LibPcdGetEx16(g, token)   == Read(g, token, "Uint16")
LibPcdGetEx32(g, token)   == Read(g, token, "Uint32")
LibPcdGetEx64(g, token)   == Read(g, token, "Uint64")
LibPcdGetExPtr(g, token)  == Read(g, token, "Ptr")
LibPcdGetExBool(g, token) == Read(g, token, "Bool")
LibPcdGetExSize(g, token) == Read(g, token, "Unknown")

Get ==
  \E token \in Tokens :
    \/ LibPcdGet8(token) \/ LibPcdGet16(token) \/ LibPcdGet32(token) \/ LibPcdGet64(token)
    \/ LibPcdGetPtr(token) \/ LibPcdGetBool(token) \/ LibPcdGetSize(token)
    \/ \E g \in Guids :
         \/ LibPcdGetEx8(g, token) \/ LibPcdGetEx16(g, token) \/ LibPcdGetEx32(g, token)
         \/ LibPcdGetEx64(g, token) \/ LibPcdGetExPtr(g, token) \/ LibPcdGetExBool(g, token)
         \/ LibPcdGetExSize(g, token)

(***************************************************************************)
(* Patching.  A size that is too large, and MAX_ADDRESS always, is         *)
(* answered with the largest that would do.                                *)
(***************************************************************************)
Bytes(v, n) == [i \in 1 .. n |-> v]

Overwritten(old, new) ==
  [ i \in 1 .. (IF Len(new) > Len(old) THEN Len(new) ELSE Len(old)) |->
      IF i <= Len(new) THEN new[i] ELSE old[i] ]

Refused(n) == n > patch.max \/ n = MAX_ADDRESS

LibPatchPcdSetPtr(v, n) ==
  /\ patch' = IF Refused(n) THEN patch ELSE [patch EXCEPT !.data = Overwritten(@, Bytes(v, n))]
  /\ call' = [is |-> "patch", asked |-> n, size |-> IF Refused(n) THEN patch.max ELSE n, done |-> ~Refused(n)]

LibPatchPcdSetPtrS(v, n) == LibPatchPcdSetPtr(v, n)

LibPatchPcdSetPtrAndSize(v, n) ==
  /\ patch' = IF Refused(n) THEN patch
              ELSE [patch EXCEPT !.data = Overwritten(@, Bytes(v, n)), !.size = n]
  /\ call' = [is |-> "patch", asked |-> n, size |-> IF Refused(n) THEN patch.max ELSE n, done |-> ~Refused(n)]

LibPatchPcdSetPtrAndSizeS(v, n) == LibPatchPcdSetPtrAndSize(v, n)

Patch ==
  /\ Running /\ calls < MaxCalls
  /\ calls' = calls + 1
  /\ \E v \in Values, n \in 0 .. MAX_ADDRESS :
       \/ LibPatchPcdSetPtr(v, n) \/ LibPatchPcdSetPtrS(v, n)
       \/ LibPatchPcdSetPtrAndSize(v, n) \/ LibPatchPcdSetPtrAndSizeS(v, n)
  /\ UNCHANGED << mPcdListEntry, mPcdExListEntry, heap, latest, handed >>

Next == Set \/ Get \/ Patch
Spec == Init /\ [][Next]_vars
--------------------------------------------------------------------------------
Entries == { mPcdListEntry[i] : i \in 1 .. Len(mPcdListEntry) }
             \cup { mPcdExListEntry[i] : i \in 1 .. Len(mPcdExListEntry) }

(***************************************************************************)
(* The two lists hold each PCD that was set once, with the type, the size  *)
(* and the value it was last set to, whatever was set between under other  *)
(* GUIDs and tokens; and reading gives that (BasePcdLibHost.c:61, 199).    *)
(***************************************************************************)
LatestRead ==
  /\ Cardinality(latest) = Len(mPcdListEntry) + Len(mPcdExListEntry)
  /\ latest = { [ key |-> Key(e.guid, e.token), type |-> e.type, size |-> e.size,
                  contents |-> heap[e.buffer] ] : e \in Entries }
  /\ call.is = "get" => \E p \in latest : /\ p.key = call.key
                                           /\ call.type \in {"Unknown", p.type}
                                           /\ p.size = call.size /\ p.contents = call.contents

(***************************************************************************)
(* A pointer a caller was given points to the PCD's buffer until that PCD, *)
(* and no other one, is set again; the lists name no buffer that was freed *)
(* (BasePcdLibHost.c:205).                                                 *)
(***************************************************************************)
PointersCurrent ==
  /\ \A h \in handed :
       h.current <=> \E e \in Entries : Key(e.guid, e.token) = h.key /\ e.buffer = h.buffer
  /\ \A e \in Entries : heap[e.buffer] # "freed"

(* A patch never exceeds its variable (BasePcdLibHost.c:1222, 1381). *)
PatchesFit ==
  /\ Len(patch.data) <= patch.max /\ patch.size <= Len(patch.data)
  /\ call.is = "patch" => /\ call.size <= patch.max
                          /\ call.done => call.asked = call.size

PcdsExact == LatestRead /\ PointersCurrent /\ PatchesFit
================================================================================
