----------------------------- MODULE VariableStore -----------------------------
(***************************************************************************)
(* The variables of Host/UefiRuntimeServicesTableLibHost/OsVariable.c: a   *)
(* list in memory that SetVariable changes and GetVariable reads.  What a  *)
(* variable holds is a sequence of signature lists, which for other        *)
(* variables stand for any pieces of data.  malloc may fail.               *)
(***************************************************************************)
EXTENDS Integers, Sequences, SequencesExt

CONSTANTS
  Variables,          \* names with their vendor GUIDs
  SignatureVariables, \* those whose appends are filtered: db, dbx, dbt, KEK
  Payloads,           \* what callers write: sequences of signature lists
  Times,              \* the time stamps of authenticated payloads, in order
  MaxPieces,          \* bound: signature lists a variable holds
  MaxFailures         \* bound: how often malloc returns NULL

VARIABLES
  mVarListEntry,      \* the list of VARIABLE_INFO_PRIVATE
  failures            \* how often malloc failed

vars == << mVarListEntry, failures >>

Append_ == "APPEND_WRITE"
TimeBased == "TIME_BASED_AUTHENTICATED_WRITE_ACCESS"
Attributes == SUBSET {Append_, TimeBased}

NoBuffer == << [type |-> "NULL", certs |-> << >>] >> \* Storage->Buffer after a failed malloc

Init == mVarListEntry = << >> /\ failures = 0

(* The index of a variable on the list, in a set; empty if there is none. *)
FindVariableList(name) ==
  { k \in DOMAIN mVarListEntry : mVarListEntry[k].name = name }

CompareTimeStamp(first, second) == first <= second

HasCert_AnyType(data, type, cert) ==
  \E k \in DOMAIN data : cert \in ToSet(data[k].certs)

(***************************************************************************)
(* FilterSignatureList: the original lists, then the new ones without the  *)
(* certificates that an original list of the same type holds; a list that  *)
(* is left with none goes.                                                 *)
(***************************************************************************)
HasCert(data, type, cert) ==
  \E k \in DOMAIN data : data[k].type = type /\ cert \in ToSet(data[k].certs)

NewCerts(data, list) ==
  [list EXCEPT !.certs = SelectSeq(@, LAMBDA c : ~HasCert(data, list.type, c))]

FilterSignatureList(data, new) ==
  data \o SelectSeq([k \in DOMAIN new |-> NewCerts(data, new[k])],
                    LAMBDA list : list.certs # << >>)

Combined(name, old, new) ==
  IF name \in SignatureVariables THEN FilterSignatureList(old, new) ELSE old \o new
--------------------------------------------------------------------------------
MayFail == failures < MaxFailures /\ failures' = failures + 1

UpdateVariable(k, storage) == mVarListEntry' = [mVarListEntry EXCEPT ![k] = storage]

(* UpdateVariableList: the attributes change even when memory runs out. *)
AppendVariable(k, attributes, time, data) ==
  LET old   == mVarListEntry[k]
      stamp == IF TimeBased \in attributes /\ CompareTimeStamp(old.time, time)
                 THEN time ELSE old.time
      kept  == [old EXCEPT !.attributes = attributes, !.time = stamp]
  IN  /\ old.data # NoBuffer
      /\ \/ MayFail /\ UpdateVariable(k, kept)
         \/ /\ UpdateVariable(k, [kept EXCEPT !.data = Combined(old.name, old.data, data)])
            /\ UNCHANGED failures

(* The old buffer is freed before the new one is allocated. *)
OverwriteVariable(k, attributes, time, data) ==
  LET old  == mVarListEntry[k]
      kept == [old EXCEPT !.attributes = attributes,
                          !.time = IF TimeBased \in attributes THEN time ELSE @]
  IN  /\ old.data # NoBuffer
      /\ \/ MayFail /\ UpdateVariable(k, [kept EXCEPT !.data = NoBuffer])
         \/ UpdateVariable(k, [kept EXCEPT !.data = data]) /\ UNCHANGED failures

(***************************************************************************)
(* CreateVariableList for a name that is not on the list: the time stamp   *)
(* is what malloc left there unless the variable is authenticated.         *)
(***************************************************************************)
InsertVariable(name, attributes, time, data) ==
  \/ MayFail /\ UNCHANGED mVarListEntry
  \/ /\ data # << >>
     /\ \E garbage \in Times :
          mVarListEntry' = Append(mVarListEntry,
            [ name |-> name, attributes |-> attributes, data |-> data,
              time |-> IF TimeBased \in attributes THEN time ELSE garbage ])
     /\ UNCHANGED failures

CreateVariableList(name, attributes, time, data, append) ==
  \/ /\ FindVariableList(name) = {}
     /\ InsertVariable(name, attributes, time, data)
  \/ \E k \in FindVariableList(name) :
       IF append THEN AppendVariable(k, attributes, time, data)
                 ELSE OverwriteVariable(k, attributes, time, data)

DeleteVariableList(name) ==
  \E k \in FindVariableList(name) :
    mVarListEntry' = RemoveAt(mVarListEntry, k) /\ UNCHANGED failures

(* EnrollVar: the payload follows the time stamp of an authenticated one. *)
EnrollVar(name, attributes, time, data) ==
  CreateVariableList(name, attributes, time, data, Append_ \in attributes)

(* CoreSetVariable: no attributes, or no data at all, delete. *)
CoreSetVariable(name) ==
  \/ DeleteVariableList(name)
  \/ \E attributes \in Attributes, time \in Times, data \in Payloads :
       EnrollVar(name, attributes, time, data)

(* CoreGetVariable: what there is, nothing for a variable without data. *)
CoreGetVariable(name) ==
  { mVarListEntry[k].data : k \in { j \in FindVariableList(name) :
      mVarListEntry[j].data # << >> } }

Bounded == \A k \in DOMAIN mVarListEntry' :
             mVarListEntry'[k].data = NoBuffer \/ Len(mVarListEntry'[k].data) <= MaxPieces

Next == \E name \in Variables : CoreSetVariable(name) /\ Bounded
Spec == Init /\ [][Next]_vars
--------------------------------------------------------------------------------
Holds(data) == UNION { {data[k].type} \X ToSet(data[k].certs) : k \in DOMAIN data }

Count(data, x) ==
  LET places(k) == { i \in DOMAIN data[k].certs : data[k].type = x[1] /\ data[k].certs[i] = x[2] }
  IN  Cardinality(UNION { {k} \X places(k) : k \in DOMAIN data })

(***************************************************************************)
(* An append to a signature variable keeps every certificate where it was, *)
(* adds each new one and none that is there already, and leaves no empty   *)
(* list; an append that runs out of memory keeps the data; the time stamp  *)
(* of a variable that is appended to never goes back, and no other         *)
(* variable changes (OsVariable.c:177, 305).                               *)
(***************************************************************************)
AppendStep(old, new) ==
  /\ new.time >= old.time
  /\ new.data # old.data =>
       /\ IsPrefix(old.data, new.data)
       /\ \E payload \in Payloads : Holds(new.data) = Holds(old.data) \cup Holds(payload)
       /\ old.name \in SignatureVariables =>
            /\ \A x \in Holds(old.data) : Count(new.data, x) = Count(old.data, x)
            /\ \A k \in DOMAIN new.data \ DOMAIN old.data : new.data[k].certs # << >>

AppendSound ==
  \A k \in DOMAIN mVarListEntry :
    /\ Len(mVarListEntry') = Len(mVarListEntry)
    /\ mVarListEntry'[k] # mVarListEntry[k]
    /\ Append_ \in mVarListEntry'[k].attributes
    => /\ AppendStep(mVarListEntry[k], mVarListEntry'[k])
       /\ \A j \in DOMAIN mVarListEntry \ {k} : mVarListEntry'[j] = mVarListEntry[j]

AppendsSound == [][AppendSound]_vars

(* A name is on the list once, so that the first that is found is all. *)
NamesUnique ==
  \A j, k \in DOMAIN mVarListEntry :
    mVarListEntry[j].name = mVarListEntry[k].name => j = k
================================================================================
