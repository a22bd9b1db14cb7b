------------------------------- MODULE GcdSpace -------------------------------
(***************************************************************************)
(* What the global coherency domain services promise, without the list of  *)
(* descriptors: a function from addresses to what is known of each byte,   *)
(* and operations that change a whole range or nothing.                    *)
(***************************************************************************)
EXTENDS Integers

CONSTANTS
  Space,          \* which of the two maps: "Memory" or "Io"
  LastAddress,    \* the space is 0 .. LastAddress
  PageSize,       \* EFI_PAGE_SIZE
  Types,          \* the types of space in use, "NonExistent" among them
  Images,         \* the image handles that may own space
  Devices,        \* the device handles space may be allocated for
  AttributeBits,  \* the bits of Capabilities and Attributes in use
  NULL            \* no handle

VARIABLE cells

Addresses == 0 .. LastAddress

Cells ==
  [ type : Types, image : Images \cup {NULL}, device : Devices \cup {NULL},
    capabilities : SUBSET AttributeBits, attributes : SUBSET AttributeBits ]

Untouched ==
  [ type |-> "NonExistent", image |-> NULL, device |-> NULL,
    capabilities |-> {}, attributes |-> {} ]

SpaceInit == cells = [a \in Addresses |-> Untouched]

(* Every byte of the range qualifies, and every byte gets its new cell.    *)
Change(range, Qualifies(_), New(_)) ==
  /\ \A a \in range : Qualifies(cells[a])
  /\ cells' = [a \in Addresses |-> IF a \in range THEN New(cells[a]) ELSE cells[a]]

Unowned(c) == c.image = NULL

(* Space is added where there is none and nobody has reserved the hole.    *)
Add(range, t, caps) ==
  Change(range, LAMBDA c : c.type = "NonExistent" /\ Unowned(c),
                LAMBDA c : IF Space = "Io" THEN [c EXCEPT !.type = t]
                           ELSE [c EXCEPT !.type = t, !.capabilities = caps])

Remove(range) ==
  Change(range, LAMBDA c : c.type # "NonExistent" /\ Unowned(c),
                LAMBDA c : [c EXCEPT !.type = "NonExistent", !.capabilities = {}])

(* Only space of one type that nobody owns gets an owner.                  *)
Allocate(range, t, image, device) ==
  Change(range, LAMBDA c : c.type = t /\ Unowned(c),
                LAMBDA c : [c EXCEPT !.image = image, !.device = device])

Free(range) ==
  Change(range, LAMBDA c : ~Unowned(c),
                LAMBDA c : [c EXCEPT !.image = NULL, !.device = NULL])

SetAttributes(range, attrs) ==
  Change(range, LAMBDA c : attrs \subseteq c.capabilities,
                LAMBDA c : [c EXCEPT !.attributes = attrs])

SetCapabilities(range, caps) ==
  Change(range, LAMBDA c : c.attributes \subseteq caps,
                LAMBDA c : [c EXCEPT !.capabilities = caps])

Intervals == { lo .. hi : lo, hi \in Addresses } \ {{}}

SpaceNext ==
  \E range \in Intervals :
    \/ \E t \in Types \ {"NonExistent"}, caps \in SUBSET AttributeBits :
         Add(range, t, caps)
    \/ Remove(range)
    \/ \E t \in Types, i \in Images, d \in Devices \cup {NULL} :
         Allocate(range, t, i, d)
    \/ Free(range)
    \/ /\ Space = "Memory"
       /\ \E attrs \in SUBSET AttributeBits :
            SetAttributes(range, attrs) \/ SetCapabilities(range, attrs)

SpaceStep == [SpaceNext]_cells

SpaceSpec == SpaceInit /\ [][SpaceNext]_cells
===============================================================================
