-------------------------------- MODULE CertDb --------------------------------
(***************************************************************************)
(* AuthVarCertDB.c: the variable "certdb", one list of nodes that say who  *)
(* signed an authenticated variable: its size, counting itself, and for    *)
(* each node GUID, name and digest.  AuthVariable.c: the checks around it. *)
(* Sizes count units in which the list size has length SizeField.  The     *)
(* verification of signatures is compiled out, so that the digests are     *)
(* whatever was on the stack.  malloc may return NULL at any call.         *)
(***************************************************************************)
EXTENDS Integers, Sequences, FiniteSets, SequencesExt

CONSTANTS
  Names, Guids,            \* of authenticated variables
  Enrolled,                \* the lists a client may have written with SetVariable
  MaxCalls,                \* bound
  NULL

VARIABLES
  certdb,                  \* NULL, or the variable: see NewList
  call, calls

vars == << certdb, call, calls >>

SizeField == 1             \* sizeof (UINT32) at the beginning
NodeSize(name) == 2 + Len(name)
Idle == [is |-> "idle", status |-> ""]

(* A variable: its Size, the size its first field tells, and the nodes. *)
ListSize(nodes) ==
  SizeField + FoldLeft(LAMBDA sum, node : sum + node.size, 0, nodes)

NewList(recorded, nodes) == [size |-> ListSize(nodes), recorded |-> recorded, nodes |-> nodes]

Node(name, guid) == [guid |-> guid, name |-> name, size |-> NodeSize(name)]

Init ==
  /\ certdb \in {NULL} \cup { NewList(ListSize(nodes), nodes) : nodes \in Enrolled }
  /\ call = Idle /\ calls = 0

(* The size is that of a buffer that was freed and could not be replaced. *)
BufferLost == certdb # NULL /\ certdb.recorded = NULL

(* The first field is read before anybody asks whether there is a buffer. *)
GetCertDB(nonVolatile) ==
  CASE ~nonVolatile -> "INVALID_PARAMETER"
    [] nonVolatile /\ certdb = NULL -> "NOT_FOUND"
    [] nonVolatile /\ BufferLost -> "FAULT"
    [] OTHER -> IF certdb.recorded # certdb.size THEN "SECURITY_VIOLATION" ELSE "SUCCESS"

(* memcmp is 0 in CompareGuid when it gives TRUE. *)
CompareGuid(g, h) == IF g = h THEN 1 ELSE 0

Matches(node, name, guid) == CompareGuid(node.guid, guid) = 0 /\ node.name = name

(* The index of the first node that matches, 0 if there is none. *)
FindCertsFromDb(name, guid, nonVolatile) ==
  LET status == GetCertDB(nonVolatile)
      hits   == { i \in 1 .. Len(certdb.nodes) : Matches(certdb.nodes[i], name, guid) }
  IN  IF status # "SUCCESS" THEN [status |-> status, node |-> 0]
      ELSE IF hits = {} THEN [status |-> "NOT_FOUND", node |-> 0]
      ELSE [status |-> "SUCCESS", node |-> CHOOSE i \in hits : \A j \in hits : i <= j]

(* A fault ends the program. *)
Running == call.status # "FAULT"
MayCall == Running /\ calls < MaxCalls /\ calls' = calls + 1
Answer(what, name, guid, status) ==
  call' = [is |-> what, name |-> name, guid |-> guid, status |-> status]

(* CreateVariableList does not append: the new list replaces the old one,  *)
(* whose size and buffer are gone when the allocation for the new fails.   *)
CreateVariableList(new, status) ==
  \/ status = "SUCCESS" /\ certdb' = new
  \/ /\ status = "OUT_OF_RESOURCES"
     /\ certdb' = IF certdb = NULL THEN NULL
                  ELSE [new EXCEPT !.recorded = NULL, !.nodes = << >>]

Statuses == {"SUCCESS", "OUT_OF_RESOURCES"}

InsertCertsToDb(name, guid, nonVolatile) ==
  LET found  == FindCertsFromDb(name, guid, nonVolatile).status
      node   == Node(name, guid)
      newBufferSize == SizeField + node.size
      answer == IF nonVolatile /\ found = "SUCCESS" THEN "SECURITY_VIOLATION" ELSE found
  IN  \/ /\ answer # "NOT_FOUND"
         /\ Answer("insert", name, guid, answer)
         /\ UNCHANGED certdb
      \/ /\ answer = "NOT_FOUND"                       \* no memory for the new buffer
         /\ Answer("insert", name, guid, "OUT_OF_RESOURCES")
         /\ UNCHANGED certdb
      \/ /\ answer = "NOT_FOUND"
         /\ \E status \in Statuses :
              /\ CreateVariableList(NewList(newBufferSize, <<node>>), status)
              /\ Answer("insert", name, guid, status)

(* A variable that does not exist yet gets its node, another one is looked *)
(* up; the comparison with its digest, which all nodes have, is compiled out. *)
VerifyCertsAndUpdate ==
  \E name \in Names, guid \in Guids, nonVolatile, exists, empty \in BOOLEAN,
    operation \in {"Add", "Append", "Del"} :
    LET found   == FindCertsFromDb(name, guid, nonVolatile).status
        refused == (operation = "Del") # empty
        other   == exists \/ operation = "Del"
    IN  /\ MayCall
        /\ \/ /\ ~refused /\ ~other
              /\ InsertCertsToDb(name, guid, nonVolatile)
           \/ /\ refused \/ other
              /\ Answer("verify", name, guid,
                        IF refused THEN "VIOLATION" ELSE found)
              /\ UNCHANGED certdb

(* The node goes; the size in the first field is copied as it was. *)
DeleteCertsFromDb ==
  \E name \in Names, guid \in Guids, nonVolatile \in BOOLEAN, status \in Statuses :
    LET found == FindCertsFromDb(name, guid, nonVolatile)
        rest  == RemoveAt(certdb.nodes, found.node)
        last  == found.status = "SUCCESS" /\ ListSize(rest) = SizeField
    IN  /\ MayCall
        /\ \/ /\ found.status # "SUCCESS"
              /\ Answer("delete", name, guid, found.status)
              /\ UNCHANGED certdb
           \/ /\ last
              /\ Answer("delete", name, guid, "SUCCESS")
              /\ certdb' = NULL
           \/ /\ found.status = "SUCCESS" /\ ~last    \* no memory for the new buffer
              /\ Answer("delete", name, guid, "OUT_OF_RESOURCES")
              /\ UNCHANGED certdb
           \/ /\ found.status = "SUCCESS" /\ ~last
              /\ CreateVariableList(NewList(certdb.recorded, rest), status)
              /\ Answer("delete", name, guid, status)

Find ==
  \E name \in Names, guid \in Guids, nonVolatile \in BOOLEAN :
    /\ Running
    /\ Answer("find", name, guid, FindCertsFromDb(name, guid, nonVolatile).status)
    /\ UNCHANGED << certdb, calls >>

(***************************************************************************)
(* AuthVariable.c: an authenticated variable that is written or deleted.   *)
(***************************************************************************)
(* All of it is compiled out: no authenticated variable is taken. *)
Auth2VerifyAndUpdate == "UNSUPPORTED"

ProcessAuthVar ==
  \E name \in Names, guid \in Guids :
    /\ MayCall
    /\ Answer("process", name, guid, Auth2VerifyAndUpdate)
    /\ UNCHANGED certdb

Next == VerifyCertsAndUpdate \/ DeleteCertsFromDb \/ Find \/ ProcessAuthVar
Spec == Init /\ [][Next]_vars
--------------------------------------------------------------------------------
(***************************************************************************)
(* The database can be read: the size in its first field, which GetCertDB  *)
(* compares, is the variable's, through insertions and deletions and the   *)
(* failures of either (AuthVarCertDB.c:53, 113), and no name is in it      *)
(* under the same GUID twice.  The two exceptions are a replacement that   *)
(* failed, which lost the buffer and only after which a call faults (:53), *)
(* and a deletion that left nodes, whose list tells its old size (:231).   *)
(***************************************************************************)
Shrunk == certdb # NULL /\ ~BufferLost /\ certdb.recorded > certdb.size

DatabaseReadable ==
  /\ call.status = "SECURITY_VIOLATION" => call.is = "insert" \/ Shrunk
  /\ certdb # NULL /\ ~BufferLost /\ ~Shrunk =>
       /\ certdb.recorded = certdb.size
       /\ \A i, j \in 1 .. Len(certdb.nodes) :
            certdb.nodes[i] = certdb.nodes[j] => i = j
  /\ ~Running => BufferLost
================================================================================
