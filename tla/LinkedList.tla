------------------------------ MODULE LinkedList ------------------------------
(***************************************************************************)
(* BaseLibHost/LinkedList.c: doubly-linked lists on which every database   *)
(* of the host libraries is kept.  A list is a ring of its head and its    *)
(* entries; a node that is removed keeps its links, and nothing tells it   *)
(* from one that is on a list: ASSERT_VERIFY_NODE_IN_VALID_LIST is empty.  *)
(* Callers insert only what is on no list and remove only what is on one.  *)
(***************************************************************************)
EXTENDS Integers, FiniteSets, SequencesExt

CONSTANTS
  Heads, Entries,       \* nodes: heads of lists, and entries
  Unlinked                  \* a link that was never set

ASSUME NodesAssumption == Heads \cap Entries = {} /\ IsFiniteSet(Heads \cup Entries)

VARIABLES
  links,                \* ForwardLink and BackLink of every node
  linked,               \* the nodes that are on a list, and its head
  contents,             \* what each list should hold, in its order
  call                  \* what the last function returned

vars == << links, linked, contents, call >>

Nodes == Heads \cup Entries
NodeCount == Cardinality(Nodes)
Idle  == [is |-> "idle"]

(***************************************************************************)
(* What the functions do to the links l; e is the entry.                   *)
(***************************************************************************)
LinkHead(l, head) == [ forward |-> [l.forward EXCEPT ![head] = head],
                       back    |-> [l.back EXCEPT ![head] = head] ]

LinkBetween(l, before, after, e) ==
  [ forward |-> [l.forward EXCEPT ![e] = after, ![before] = e],
    back    |-> [l.back EXCEPT ![e] = before, ![after] = e] ]

InsertHeadList(l, head, e) == LinkBetween(l, head, l.forward[head], e)
InsertTailList(l, head, e) == LinkBetween(l, l.back[head], head, e)

RemoveEntryList_OneWay(l, e) ==
  [l EXCEPT !.forward[l.back[e]] = l.forward[e]]

RemoveEntryList(l, e) ==
  [ forward |-> [l.forward EXCEPT ![l.back[e]] = l.forward[e]],
    back    |-> [l.back EXCEPT ![l.forward[e]] = l.back[e]] ]

SwapListEntries_BehindOnly(l, first, second) ==
  IF first = second THEN l ELSE InsertHeadList(RemoveEntryList(l, first), second, first)

(* The three ways first and second can lie, seen once first is removed. *)
SwapListEntries(l, first, second) ==
  LET ptr     == l.forward[first]
      without == RemoveEntryList(l, first)
      behind  == InsertHeadList(without, second, first)
  IN  CASE first = second -> l
        [] first # second /\ without.back[ptr] = second -> InsertTailList(without, second, first)
        [] first # second /\ without.back[ptr] # second /\ ptr = second -> behind
        [] OTHER -> InsertTailList(RemoveEntryList(behind, second), ptr, second)

GetFirstNode(head)    == links.forward[head]
GetNextNode(node)     == links.forward[node]
GetPreviousNode(node) == links.back[node]
IsListEmpty(head)     == links.forward[head] = head
IsNull(head, node)    == node = head
IsNodeAtEnd(head, node) == ~IsNull(head, node) /\ links.back[head] = node

(* Along the forward links, at most once round the ring. *)
IsNodeInList(first, second) ==
  LET steps[n \in 0 .. NodeCount] == IF n = 0 THEN first ELSE links.forward[steps[n - 1]]
  IN  \E n \in 1 .. NodeCount : steps[n] = second /\ \A m \in 1 .. n - 1 : steps[m] # first

(***************************************************************************)
(* The calls.                                                              *)
(***************************************************************************)
Init ==
  /\ links = [forward |-> [n \in Nodes |-> Unlinked], back |-> [n \in Nodes |-> Unlinked]]
  /\ linked = {}
  /\ contents = [h \in Heads |-> << >>]
  /\ call = Idle

Listed(h) == { contents[h][i] : i \in 1 .. Len(contents[h]) }

InitializeListHead(h) ==
  /\ h \notin linked
  /\ links' = LinkHead(links, h)
  /\ linked' = linked \cup {h}
  /\ contents' = [contents EXCEPT ![h] = << >>]
  /\ call' = Idle

InsertHead(h, e) ==
  /\ h \in linked /\ e \notin linked
  /\ links' = InsertHeadList(links, h, e)
  /\ linked' = linked \cup {e}
  /\ contents' = [contents EXCEPT ![h] = <<e>> \o @]
  /\ call' = Idle

InsertTail(h, e) ==
  /\ h \in linked /\ e \notin linked
  /\ links' = InsertTailList(links, h, e)
  /\ linked' = linked \cup {e}
  /\ contents' = [contents EXCEPT ![h] = Append(@, e)]
  /\ call' = Idle

RemoveEntry(h, e) ==
  /\ e \in linked /\ e \in Listed(h)
  /\ links' = RemoveEntryList(links, e)
  /\ linked' = linked \ {e}
  /\ \E i \in 1 .. Len(contents[h]) :
       contents[h][i] = e /\ contents' = [contents EXCEPT ![h] = RemoveAt(@, i)]
  /\ call' = [is |-> "removed", node |-> e, next |-> links.forward[e]]

Swap(h, first, second) ==
  /\ first \in linked /\ second \in linked
  /\ first \in Listed(h) /\ second \in Listed(h)
  /\ links' = SwapListEntries(links, first, second)
  /\ linked' = linked
  /\ contents' = [ contents EXCEPT ![h] =
                     [ i \in 1 .. Len(@) |-> CASE @[i] = first -> second
                                               [] @[i] = second -> first
                                               [] OTHER -> @[i] ] ]
  /\ call' = Idle

Next ==
  \E h \in Heads :
    \/ InitializeListHead(h)
    \/ \E e \in Entries : InsertHead(h, e) \/ InsertTail(h, e) \/ RemoveEntry(h, e)
    \/ \E first, second \in Entries : Swap(h, first, second)

Spec == Init /\ [][Next]_vars
--------------------------------------------------------------------------------
(***************************************************************************)
(* The links of the nodes that are on lists are each other's inverse and   *)
(* lead to nodes that are on lists, whatever stale links the others have.  *)
(***************************************************************************)
RingsIntact ==
  \A n \in linked :
    /\ links.forward[n] \in linked /\ links.back[n] \in linked
    /\ links.back[links.forward[n]] = n
    /\ links.forward[links.back[n]] = n

(***************************************************************************)
(* Each list reads as the sequence it stands for, forwards and backwards,  *)
(* through insertions, removals and exchanges of neighbours and others     *)
(* (LinkedList.c:457 to 502); the queries agree with it.                   *)
(***************************************************************************)
ReadsAsSequence ==
  \A h \in Heads \cap linked :
    LET list == contents[h]
        ring == <<h>> \o list \o <<h>>
    IN  /\ GetFirstNode(h) = ring[2]
        /\ IsListEmpty(h) <=> list = << >>
        /\ \A i \in 1 .. Len(list) + 1 : /\ GetNextNode(ring[i]) = ring[i + 1]
                                          /\ GetPreviousNode(ring[i + 1]) = ring[i]
        /\ \A e \in Listed(h) : IsNodeAtEnd(h, e) <=> e = list[Len(list)]
        /\ \A e \in Entries : IsNodeInList(h, e) <=> e \in Listed(h)

ListsExact == RingsIntact /\ ReadsAsSequence
================================================================================
