--------------------------------- MODULE MCGcd ---------------------------------
(* Small instances of Gcd for TLC. *)
EXTENDS Gcd, TLC

(* Pages and parts of pages, nothing, and what reaches behind the map. *)
PageRanges == { << 0, 0 >>, << 0, 1 >>, << 0, 2 >>, << 2, 2 >>, << 1, 2 >>,
                << 0, 4 >>, << 1, 4 >> }
(* Ranges that leave holes of one and of two bytes between them. *)
LooseRanges == { << 0, 4 >>, << 1, 3 >>, << 4, 2 >>, << 5, 3 >>, << 7, 2 >> }

NoRequests == {}
AnySearch  == {"AnySearchBottomUp", "AnySearchTopDown"}
MaxSearch  == {"MaxAddressSearchBottomUp", "MaxAddressSearchTopDown"}

RequestsFor(types, lengths, alignments, limits) ==
  [ how : AnySearch, type : types, alignment : alignments, length : lengths, base : {0} ]
    \cup
  [ how : MaxSearch, type : types, alignment : alignments, length : lengths, base : limits ]

At(types, bases) ==
  [ how : AtAddress, type : types, alignment : {0, 1}, length : {2}, base : bases ]

(* An alignment of AddressBits is refused; a limit may lie behind the map. *)
Searches == RequestsFor(Types \ {"NonExistent"}, 0 .. 4, {0, 1, 2}, {3, 5, LastAddress + 2})
              \cup RequestsFor({"NonExistent"}, {1}, {AddressBits}, {0})
SmallSearches == RequestsFor(Types \ {"NonExistent"}, {2}, {0, 1}, {2}) \cup At(Types, {0, 1, LastAddress})

NoAttributes    == {{}}
RuntimeAndCpu   == { {}, {"RUNTIME"}, {"RUNTIME", "XP"} }
================================================================================
