------------------------------ MODULE IniParsing ------------------------------
(***************************************************************************)
(* UefiInstrumentTestPkg/Library/IniParsingLib/IniParsingLib.c: a file of  *)
(* sections and entries is read line by line into a list, the latest item  *)
(* first, which is then searched for the value of an entry.  Characters    *)
(* are their codes; a pointer that is NULL is the empty text.              *)
(***************************************************************************)
EXTENDS Integers, Sequences

CONSTANTS
  Files,             \* contents of files
  Names,             \* names that are asked for
  MAX_LINE_LENGTH,   \* size of the first line buffer
  GuidGroups,        \* lengths of the groups of digits of a GUID: 8-4-4-4-12
  StatusNames        \* names of mEfiStatusString

VARIABLES
  file,              \* the data buffer
  pos,               \* CurrentPtr: how much of it has been read
  maxLine,           \* MaxLineLength
  list,              \* SectionHead: a sequence of items, the head first
  comments,          \* how many items CommentHead has
  state,             \* of the context: parsing, open, NULL, closed
  answer             \* of the last Get call

vars == << file, pos, maxLine, list, comments, state, answer >>

CR == 13
LF == 10
Space == 32
Tab == 9
Hash == 35
Semicolon == 59
Open == 91
Shut == 93
Equals == 61
Hyphen == 45

Blanks   == {CR, LF, Space, Tab}
Decimals == 48 .. 57
Hexes    == Decimals \cup 97 .. 102 \cup 65 .. 70
NULL     == << >>

(***************************************************************************)
(* What is valid.                                                          *)
(***************************************************************************)
IsValidDigitalChar(c, includeHex) == c \in IF includeHex THEN Hexes ELSE Decimals
IsValidNameChar(c) == c \in 97 .. 122 \cup 65 .. 90 \cup Decimals \cup {95}
IsValidDigital(t, includeHex) == \A i \in DOMAIN t : IsValidDigitalChar(t[i], includeHex)
IsValidDecimalString(t) == IsValidDigital(t, FALSE)

IsValidHexString(t) ==
  /\ Len(t) > 2
  /\ t[1] = 48 /\ t[2] \in {120, 88}
  /\ IsValidDigital(SubSeq(t, 3, Len(t)), TRUE)

IsValidName(t) == \A i \in DOMAIN t : IsValidNameChar(t[i])

GroupEnd(n) == LET e[k \in 0 .. n] == IF k = 0 THEN 0
                                      ELSE e[k - 1] + GuidGroups[k] + IF k = 1 THEN 0 ELSE 1
               IN  e[n]

IsValidGuid(t) ==
  LET groups == DOMAIN GuidGroups
  IN  /\ Len(t) = GroupEnd(Len(GuidGroups))
      /\ \A g \in groups \ {Len(GuidGroups)} : t[GroupEnd(g) + 1] = Hyphen
      /\ \A g \in groups :
           IsValidDigital(SubSeq(t, GroupEnd(g) - GuidGroups[g] + 1, GroupEnd(g)), TRUE)

IsValidValue(t) == IsValidName(t) \/ IsValidGuid(t)

(***************************************************************************)
(* Lines.                                                                  *)
(***************************************************************************)
FirstOf(t, C) ==
  CHOOSE i \in 1 .. Len(t) + 1 : (i = Len(t) + 1 \/ t[i] \in C) /\ \A j \in 1 .. i - 1 : t[j] \notin C

(* The length of the line t begins with, its end included. *)
ProfileGetLine(t) ==
  LET i == FirstOf(t, {CR, LF})
  IN  CASE i >= Len(t) -> Len(t)
        [] i < Len(t) /\ t[i + 1] = LF -> i + 1
        [] i < Len(t) /\ t[i + 1] # LF -> i

ProfileTrim(t) ==
  LET kept == { i \in DOMAIN t : t[i] \notin Blanks }
  IN  IF kept = {} THEN NULL
      ELSE SubSeq(t, CHOOSE i \in kept : \A j \in kept : i <= j,
                     CHOOSE i \in kept : \A j \in kept : i >= j)

(***************************************************************************)
(* What a line adds to a list: status, list.  A new item is linked before  *)
(* its texts are there, and stays when the rest of the line is refused.    *)
(***************************************************************************)
Item(section, entry, value) ==
  [section |-> section, entry |-> entry, value |-> value, freed |-> FALSE]

Added(status, items) == [status |-> status, list |-> items]

ProfileGetSection_AtTail(line, items) ==
  LET end  == FirstOf(SubSeq(line, 2, Len(line)), {Shut}) + 1
      name == ProfileTrim(SubSeq(line, 2, end - 1))
  IN  CASE end > Len(line) \/ end = 2 \/ name = NULL -> Added("NOT_FOUND", items)
        [] end <= Len(line) /\ name # NULL /\ ~IsValidName(name) -> Added("INVALID_PARAMETER", items)
        [] OTHER -> Added("SUCCESS", items \o << Item(name, NULL, NULL) >>)

ProfileGetSection(line, items) ==
  LET end  == FirstOf(SubSeq(line, 2, Len(line)), {Shut}) + 1
      name == ProfileTrim(SubSeq(line, 2, end - 1))
  IN  CASE end > Len(line) \/ end = 2 \/ name = NULL -> Added("NOT_FOUND", items)
        [] end <= Len(line) /\ name # NULL /\ ~IsValidName(name) -> Added("INVALID_PARAMETER", items)
        [] OTHER -> Added("SUCCESS", << Item(name, NULL, NULL) >> \o items)

ProfileGetEntry(line, items) ==
  LET sign  == FirstOf(line, {Equals})
      name  == ProfileTrim(SubSeq(line, 1, sign - 1))
      rest  == SubSeq(line, sign + 1, Len(line))
      value == ProfileTrim(SubSeq(rest, 1, FirstOf(rest, {Hash, Semicolon}) - 1))
      with(i)  == << i >> \o items
      new   == Item(items[1].section, name, NULL)
  IN  CASE sign > Len(line) \/ name = NULL -> Added("NOT_FOUND", items)
        [] sign <= Len(line) /\ name # NULL /\ ~IsValidName(name) ->
             Added("INVALID_PARAMETER", items)
        [] OTHER ->
             IF items = << >> THEN Added("SUCCESS", items)
             ELSE IF value = NULL THEN Added("NOT_FOUND", with([new EXCEPT !.freed = TRUE]))
             ELSE IF ~IsValidValue(value)
               THEN Added("INVALID_PARAMETER", with([new EXCEPT !.freed = TRUE]))
             ELSE Added("SUCCESS", with([new EXCEPT !.value = value]))

(***************************************************************************)
(* OpenIniFile: PreProcessDataFile, one step per line.  An error leaves    *)
(* the lists behind and gives no context.                                  *)
(***************************************************************************)
Init ==
  /\ file \in Files
  /\ pos = 0 /\ maxLine = MAX_LINE_LENGTH
  /\ list = << >> /\ comments = 0
  /\ state = IF file = << >> THEN "NULL" ELSE "parsing"
  /\ answer = NULL

Rest == SubSeq(file, pos + 1, Len(file))

PreProcessDataFile ==
  /\ state = "parsing" /\ pos < Len(file)
  /\ LET length == ProfileGetLine(Rest)
         line   == ProfileTrim(SubSeq(Rest, 1, length))
         first  == IF line = NULL THEN 0 ELSE line[1]
         added  == IF first = Open THEN ProfileGetSection(line, list) ELSE ProfileGetEntry(line, list)
     IN  /\ pos' = pos + length
         /\ maxLine' = IF length > maxLine THEN length ELSE maxLine
         /\ CASE line = NULL -> UNCHANGED << list, comments, state >>
              [] first \in {Hash, Semicolon} ->                      \* ProfileGetComments
                   comments' = comments + 1 /\ UNCHANGED << list, state >>
              [] OTHER -> /\ list' = added.list
                          /\ state' = IF added.status = "SUCCESS" THEN state ELSE "NULL"
                          /\ UNCHANGED comments
  /\ UNCHANGED << file, answer >>

(* An allocation fails, maybe with an item already linked. *)
OutOfResources ==
  /\ state = "parsing"
  /\ state' = "NULL"
  /\ list' \in { list, << [Item(<< >>, << >>, << >>) EXCEPT !.freed = TRUE] >> \o list }
  /\ UNCHANGED << file, pos, maxLine, comments, answer >>

OpenIniFile ==
  /\ state = "parsing" /\ pos >= Len(file)
  /\ state' = "open"
  /\ UNCHANGED << file, pos, maxLine, list, comments, answer >>

(***************************************************************************)
(* The Get calls.                                                          *)
(***************************************************************************)
UpdateGetProfileString(section, entry) ==
  LET found == { i \in DOMAIN list : list[i].section = section /\ list[i].entry # NULL
                                       /\ list[i].entry = entry }
  IN  IF found = {} THEN NULL ELSE list[CHOOSE i \in found : \A j \in found : i <= j].value

Get(fn, section, entry, valid) ==
  /\ state = "open"
  /\ answer' = [ fn |-> fn, section |-> section, entry |-> entry,
                 value |-> UpdateGetProfileString(section, entry),
                 status |-> IF UpdateGetProfileString(section, entry) = NULL THEN "NOT_FOUND"
                            ELSE IF valid THEN "SUCCESS" ELSE "INVALID_PARAMETER" ]
  /\ UNCHANGED << file, pos, maxLine, list, comments, state >>

GetStringFromDataFile(s, e) == Get("string", s, e, TRUE)
GetGuidFromDataFile(s, e) == Get("guid", s, e, IsValidGuid(UpdateGetProfileString(s, e)))
GetEfiStatusFromDataFile(s, e) == Get("status", s, e, UpdateGetProfileString(s, e) \in StatusNames)
GetDecimalUintnFromDataFile(s, e) ==
  Get("decimal", s, e, IsValidDecimalString(UpdateGetProfileString(s, e)))
GetHexUintnFromDataFile(s, e) == Get("hex", s, e, IsValidHexString(UpdateGetProfileString(s, e)))
GetHexUint64FromDataFile(s, e) == Get("hex64", s, e, IsValidHexString(UpdateGetProfileString(s, e)))

(* FreeAllList; the context itself is not freed. *)
CloseIniFile ==
  /\ state = "open"
  /\ state' = "closed" /\ list' = << >> /\ comments' = 0
  /\ UNCHANGED << file, pos, maxLine, answer >>

Next ==
  \/ PreProcessDataFile \/ OutOfResources \/ OpenIniFile \/ CloseIniFile
  \/ \E s \in Names, e \in Names :
       \/ GetStringFromDataFile(s, e)       \/ GetGuidFromDataFile(s, e)
       \/ GetEfiStatusFromDataFile(s, e)    \/ GetDecimalUintnFromDataFile(s, e)
       \/ GetHexUintnFromDataFile(s, e)     \/ GetHexUint64FromDataFile(s, e)

Spec == Init /\ [][Next]_vars

(***************************************************************************)
(* What a file means: every stretch without a line end is a line; an entry *)
(* belongs to the last section line before it, and counts if no later one  *)
(* of the same name and section does.                                      *)
(***************************************************************************)
LineAt(i, j) ==
  /\ i <= j /\ \A k \in i .. j : file[k] \notin {CR, LF}
  /\ i = 1 \/ file[i - 1] \in {CR, LF}
  /\ j = Len(file) \/ file[j + 1] \in {CR, LF}

Line(i) == ProfileTrim(SubSeq(file, i, CHOOSE j \in i .. Len(file) : LineAt(i, j)))
Starts  == { i \in DOMAIN file : \E j \in i .. Len(file) : LineAt(i, j) }

IsSection(t) == t # NULL /\ t[1] = Open
IsEntry(t)   == t # NULL /\ t[1] \notin {Open, Hash, Semicolon}
Before(t, c) == ProfileTrim(SubSeq(t, 1, FirstOf(t, {c}) - 1))
Behind(t, c) == SubSeq(t, FirstOf(t, {c}) + 1, Len(t))

SectionOf(i) ==
  LET above == { j \in Starts : j < i /\ IsSection(Line(j)) }
  IN  IF above = {} THEN NULL
      ELSE Before(Behind(Line(CHOOSE j \in above : \A k \in above : k <= j), Open), Shut)

Meaning(section, entry) ==
  LET lines == { i \in Starts : IsEntry(Line(i)) /\ SectionOf(i) = section
                                  /\ Before(Line(i), Equals) = entry }
      last  == Behind(Line(CHOOSE i \in lines : \A j \in lines : j <= i), Equals)
  IN  IF lines = {} THEN NULL
      ELSE ProfileTrim(SubSeq(last, 1, FirstOf(last, {Hash, Semicolon}) - 1))

(***************************************************************************)
(* Whatever the line ends, blanks, comments and lengths of lines are, an   *)
(* open file answers with the value of the last entry of that name in a    *)
(* section of that name, and of the type that is asked for; and no name    *)
(* that has been freed is reachable from a context (IniParsingLib.c:829,   *)
(* 873).                                                                   *)
(***************************************************************************)
LookupsExact ==
  /\ state = "open" =>
       /\ \A i \in DOMAIN list : ~list[i].freed /\ (list[i].entry = NULL <=> list[i].value = NULL)
       /\ \A s, e \in Names : UpdateGetProfileString(s, e) = Meaning(s, e)
  /\ answer # NULL =>
       /\ answer.status = "SUCCESS" => answer.value = Meaning(answer.section, answer.entry)
       /\ answer.status = "SUCCESS" /\ answer.fn = "decimal" =>
            \A i \in DOMAIN answer.value : answer.value[i] \in Decimals
================================================================================
