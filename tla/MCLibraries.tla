------------------------------- MODULE MCLibraries -------------------------------
(* Small instances of the library functions of the host, and of the two     *)
(* parts that wait for something: threads that spin for a lock, and the     *)
(* search for the drivers of a controller, which begins anew when drivers   *)
(* have come.  The initial state chooses the component.  The doubly linked  *)
(* lists and the lock have their own variables; those of the others are the *)
(* first of s1 .. s11.                                                      *)
EXTENDS LinkedList, SpinLock, TLC

CONSTANTS d1, d2, d3

VARIABLES component, s1, s2, s3, s4, s5, s6, s7, s8, s9, s10, s11

slots == << s1, s2, s3, s4, s5, s6, s7, s8, s9, s10, s11 >>

UpTo(n, S) == UNION { [1 .. k -> S] : k \in 0 .. n }

-----------------------------------------------------------------------------
(* Memory with an "a" at 2 and what follows it; character codes.            *)
MemoryTexts ==
  { [p \in 2 .. 11 |-> CASE p \in {2, 7} -> 97 [] p = 4 -> 98 [] OTHER -> 0],
    [p \in 2 .. 11 |-> CASE p \in {2, 4} -> 97 [] p = 3 -> 98 [] OTHER -> 0] }

Copies == INSTANCE SafeString WITH
  Addresses <- 2 .. 11, InitialTexts <- MemoryTexts, Sizes <- {0, 1, 3, 4}, RsizeMax <- 3,
  MaxCalls <- 1, memory <- s1, status <- s2, calls <- s3

-----------------------------------------------------------------------------
(* Texts that are numbers, addresses and GUIDs, and texts that just fail to *)
(* be: cut off, with a character missing, or with another in its place.     *)
Digits(n) ==
  CASE n > 99 -> << 48 + (n \div 100), 48 + ((n \div 10) % 10), 48 + (n % 10) >>
    [] n \in 10 .. 99 -> << 48 + (n \div 10), 48 + (n % 10) >>
    [] OTHER -> << 48 + n >>

Damaged(texts, characters) ==
  texts \cup UNION { { SubSeq(t, 1, k) : k \in 0 .. Len(t) } : t \in texts }
    \cup UNION { { SubSeq(t, 1, k - 1) \o SubSeq(t, k + 1, Len(t)) : k \in DOMAIN t } : t \in texts }
    \cup UNION { { [t EXCEPT ![k] = c] : k \in DOMAIN t, c \in characters } : t \in texts }

(* A blank, 0, 9, a and x; the largest numbers and the ones behind them.    *)
Numerals ==
  UpTo(3, {32, 48, 57, 97, 120})
    \cup { << 54, 53, 53, 51, 53 >>, << 54, 53, 53, 51, 54 >>, << 54, 53, 53, 51, 53, 48 >>,
           << 102, 102, 102, 102, 102 >>, << 102, 48, 48, 48 >>, << 50, 53, 53 >>,
           << 50, 53, 54 >>, << 48, 48, 88, 102, 103 >> }

Groups   == { << 49 >>, << 102, 48, 70, 49 >> }
PrefixLengths == { << >>, << 47 >> \o Digits(128), << 47 >> \o Digits(7) }
Colon    == << 58 >>
Ipv6 ==
  { u \o Colon \o v \o Colon \o w \o p : u, v, w \in Groups, p \in PrefixLengths }
    \cup { u \o Colon \o Colon \o v \o p : u, v \in Groups \cup {<< >>}, p \in PrefixLengths }
    \cup { u \o Colon \o v \o Colon \o Colon \o p : u, v \in Groups, p \in PrefixLengths }
    \cup { Colon \o Colon \o u \o Colon \o v \o p : u, v \in Groups, p \in PrefixLengths }
(* Words that begin with 0x, and with 00x. *)
HexWords ==
  { p \o << 120 >> \o w \o Colon \o Colon : p \in {<< 48 >>, << 48, 48 >>}, w \in {<< >>, << 50 >>, << 50, 51 >>} }
Dot  == << 46 >>
Ipv4 ==
  { Digits(u) \o Dot \o Digits(v) \o Dot \o Digits(w) \o p :
      u, v, w \in {0, 7, 255},
      p \in { << >>, << 47 >> \o Digits(32), << 47 >> \o Digits(0), << 47, 51, 47 >> \o Digits(5) } }

SomeGuid ==
  [ k \in 1 .. 36 |-> IF k \in {9, 14, 19, 24} THEN 45
                      ELSE IF k % 3 = 0 THEN 97 + (k % 6) ELSE 48 + (k % 10) ]

Texts == INSTANCE StringConversions WITH
  MaxUintn <- 65535, MaxUint64 <- 255, RsizeMax <- 24, Ipv6Bytes <- 6, Ipv4Bytes <- 3,
  NumberTexts <- Numerals, Ipv6Texts <- Damaged(Ipv6, {58, 47, 97, 103, 120}) \cup HexWords,
  Ipv4Texts <- Damaged(Ipv4, {46, 47, 57, 97}),
  GuidTexts <- Damaged({SomeGuid}, {45, 57, 103, 70}) \cup {Append(SomeGuid, 48)},
  Words <- UpTo(3, {97, 65}), call <- s1

-----------------------------------------------------------------------------
Bits(n) == { k \in 0 .. 7 : (n \div (2 ^ k)) % 2 = 1 }

(* Words of 16 bits with nibbles that are empty, full, or neither.          *)
Nibbles == { {}, {0, 3}, {0, 1, 2, 3} }
Sixteen == { UNION { { 4 * k + b : b \in n[k] } : k \in 0 .. 3 } : n \in [0 .. 3 -> Nibbles] }

Numbers == INSTANCE Arithmetic WITH
  Widths <- {3, 4}, UintnWidth <- 16, CountWidth <- 16, CountOperands <- Sixteen,
  CrcTexts <- { << Bits(49), Bits(50), Bits(51) >>, << {}, {} >> }, call <- s1

-----------------------------------------------------------------------------
(* Files of up to three lines: sections, entries with and without values,   *)
(* comments, and lines that are none of these.                              *)
Ends == { << 10 >>, << 13, 10 >>, << 13 >>, << 10, 10 >> }
Section == << 91, 97, 93 >>
Lines ==
  { Section, << 32, 91, 32, 66, 93, 120 >>, << 97, 61, 48, 49 >>,
    << 66, 32, 61, 32, 97, 35, 66 >>, << 97, 61, 48, 120, 70, 59 >>, << 35, 97 >>, << 97, 61 >>,
    << 97, 61, 49, 45, 97, 98 >>, << 91, 93 >>, << 97 >>, << 97, 45, 61, 97 >> }
IniFiles ==
  { << >> } \cup { k \o e \o l \o f : k, l \in Lines, e, f \in Ends }
    \cup { Section \o << 10 >> \o k \o e \o l \o << 13, 10 >> : k, l \in Lines, e \in Ends }

Ini == INSTANCE IniParsing WITH
  Files <- IniFiles, Names <- { << 97 >>, << 66 >> }, MAX_LINE_LENGTH <- 4,
  GuidGroups <- << 1, 2 >>, StatusNames <- { << 97 >> },
  file <- s1, pos <- s2, maxLine <- s3, list <- s4, comments <- s5, state <- s6, answer <- s7

-----------------------------------------------------------------------------
(* Device paths of nodes of 1 and 3 units, and memory that holds no path.    *)
PathWord(type, sub, length) == [type |-> type, sub |-> sub, length |-> length]
Entire(n)   == PathWord("end", "entire", n)
Instance(n) == PathWord("end", "instance", n)
Node(n)     == PathWord("hardware", "first", n)
Data        == PathWord("data", "none", 0)
NoPaths ==
  { << Node(0), Entire(1) >>, << Node(1), Node(0), Entire(1) >>, << Node(2), Data, Entire(0) >>,
    << Node(1), Entire(2), Data >>, << Instance(1), Entire(0) >>,
    << Node(1), Instance(0), Entire(1) >> }

Paths == INSTANCE DevicePaths WITH
  Nodes <- { [sub |-> "first", length |-> 1], [sub |-> "second", length |-> 3] },
  Malformed <- NoPaths, MaxNodeCount <- 4, MaxSteps <- 6,
  path <- s1, rest <- s2, given <- s3, call <- s4

-----------------------------------------------------------------------------
(* Two drivers of one image, one of another; two may have a family override,*)
(* and those of the one image may have the same binding.                    *)
Drivers == {d1, d2, d3}

Binding(protocol, image, version, family) ==
  [protocol |-> protocol, image |-> image, version |-> version, family |-> family]

SomeBindings ==
  { d1 :> Binding(d1, "m", p[1], -1) @@ d2 :> Binding(d2, "n", 2, p[2]) @@ d3 :> Binding(d3, "m", 3, p[3]) :
      p \in { << 1, -1, -1 >>, << 4, -1, -1 >>, << 1, 7, 8 >>, << 4, 7, -1 >>, << 4, -1, 8 >> } }
  \cup
  { d1 :> Binding(d1, "m", 1, -1) @@ d2 :> Binding(d2, "n", 2, 7) @@ d3 :> Binding(d1, "m", 1, g) :
      g \in {-1, 8} }

Search == INSTANCE DriverOrder WITH
  NULL <- Unlinked, Images <- {"m", "n"}, Bindings <- SomeBindings, Overrides <- UpTo(1, Drivers),
  ImageLists <- UpTo(1, {"m", "n"}), MaxLeaves <- 1, installed <- s1, bindings <- s2, asked <- s3,
  pc <- s4, handleBuffer <- s5, sorted <- s6, sortIndex <- s7, oneStarted <- s8, tried <- s9,
  next <- s10, left <- s11

-----------------------------------------------------------------------------
(* The variables a component does not have, from the n-th on.               *)
From9 == << s9, s10, s11 >>
From8 == << s8, From9 >>
From7 == << s7, From8 >>
From6 == << s6, From7 >>
From5 == << s5, From6 >>
From4 == << s4, From5 >>
From3 == << s3, From4 >>
From2 == << s2, From3 >>
From1 == << s1, From2 >>

None9 == s9 = Unlinked /\ s10 = Unlinked /\ s11 = Unlinked
None8 == s8 = Unlinked /\ None9
None7 == s7 = Unlinked /\ None8
None6 == s6 = Unlinked /\ None7
None5 == s5 = Unlinked /\ None6
None4 == s4 = Unlinked /\ None5
None3 == s3 = Unlinked /\ None4
None2 == s2 = Unlinked /\ None3
None1 == s1 = Unlinked /\ None2

MCInit ==
  /\ Init /\ SyncInit
  /\ \/ component = "spin lock" /\ None1
     \/ /\ build = "GCC"
        /\ \/ component = "drivers" /\ Search!Init
           \/ component = "lists" /\ None1
           \/ component = "copies" /\ Copies!Init /\ None4
           \/ component = "texts" /\ Texts!Init /\ None2
           \/ component = "numbers" /\ Numbers!Init /\ None2
           \/ component = "ini files" /\ Ini!Init /\ None8
           \/ component = "paths" /\ Paths!Init /\ None5

Spinning  == component = "spin lock" /\ SyncNext /\ UNCHANGED << vars, component, slots >>
Searching == component = "drivers" /\ Search!Next /\ UNCHANGED << vars, syncVars, component >>
Listing   == component = "lists" /\ Next /\ UNCHANGED << syncVars, component, slots >>

(* Calls of functions that keep nothing outside their own slots.            *)
Calling ==
  /\ UNCHANGED << vars, syncVars, component >>
  /\ \/ component = "copies" /\ Copies!Next /\ UNCHANGED From4
     \/ component = "texts" /\ Texts!Next /\ UNCHANGED From2
     \/ component = "numbers" /\ Numbers!Next /\ UNCHANGED From2
     \/ component = "ini files" /\ Ini!Next /\ UNCHANGED From8
     \/ component = "paths" /\ Paths!Next /\ UNCHANGED From5

(* Threads go on with what they have begun; one thread searches, and nobody *)
(* preempts it.                                                             *)
MCSpec ==
  /\ MCInit
  /\ [][Spinning \/ Searching \/ Listing \/ Calling]_<< vars, syncVars, component, slots >>
  /\ \A t \in Threads : WF_syncVars(Going(t))
  /\ WF_slots(Searching)

-----------------------------------------------------------------------------
(* The safe string functions write inside their destination and end it.     *)
DestinationsSafe == component = "copies" => Copies!DestinationsSafe


(* Bit fields, shifts, sums and counts are those of the integers.           *)
ArithmeticExact == component = "numbers" => Numbers!ArithmeticExact

(* Each name of a file has the value its line gives it.                     *)
IniLookupsExact == component = "ini files" => Ini!LookupsExact

(* Device paths hold what was appended, and are walked without going astray.*)
DevicePathsExact == component = "paths" => Paths!DevicePathsExact

(* The drivers a controller is offered stand in the order of precedence of  *)
(* the five sources, and none is started twice.                             *)
DriversInOrder == component = "drivers" => Search!PrecedenceKept /\ Search!StartedOnce

(* The search for drivers ends, whatever is installed meanwhile, or stays   *)
(* with a driver it can neither take nor clear from the buffer.             *)
SearchesEnd == <>[](component = "drivers" => Search!SearchIsOver \/ Search!CannotClear)
================================================================================
