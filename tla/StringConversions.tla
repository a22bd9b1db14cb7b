--------------------------- MODULE StringConversions ---------------------------
(***************************************************************************)
(* The conversions of Host/BaseLibHost/SafeString.c from texts to numbers, *)
(* addresses, GUIDs and bytes, in both widths, and the comparisons of      *)
(* String.c.  A call leaves its arguments and its result in call.          *)
(***************************************************************************)
EXTENDS Strings

CONSTANTS
  MaxUintn, MaxUint64,  \* what an unsigned integer holds
  RsizeMax,             \* RSIZE_MAX, ASCII_RSIZE_MAX
  Ipv6Bytes, Ipv4Bytes, \* ARRAY_SIZE (Address->Addr)
  NumberTexts, Ipv6Texts, Ipv4Texts, GuidTexts, \* what callers pass
  Words                 \* texts that are compared

VARIABLE call

Colon == 58
Slash == 47
Dot   == 46
Dash  == 45
Blank == {32, 9}        \* space and tab
Zero  == 48
UpperX == 88

MaxPrefix6 == 128
MaxPrefix4 == 32
NoPrefix   == 255       \* MAX_UINT8
MaxByte    == 255

Unsupported == [status |-> "UNSUPPORTED"]

(* The first index from p on whose character is not in C. *)
SkipOver(s, p, C) ==
  CHOOSE i \in p .. Len(s) + 1 : At(s, i) \notin C /\ \A j \in p .. i - 1 : At(s, j) \in C

(***************************************************************************)
(* Digits of a number in a base, in either width: saturate or go on.       *)
(***************************************************************************)
RECURSIVE Digits(_, _, _, _, _)
Digits(s, p, base, max, data) ==
  LET c     == At(s, p)
      digit == IF base = 10 THEN c - Zero ELSE InternalHexCharToUintn(c)
  IN  IF ~(IF base = 10 THEN InternalIsDecimalDigitCharacter(c)
                        ELSE InternalIsHexaDecimalDigitCharacter(c))
        THEN [status |-> "SUCCESS", data |-> data, end |-> p]
      ELSE IF data > (max - digit) \div base
        THEN [status |-> "UNSUPPORTED", data |-> max, end |-> p]
      ELSE Digits(s, p + 1, base, max, data * base + digit)

TooLong == [status |-> "INVALID_PARAMETER", data |-> 0, end |-> 0]

Decimal(s, p, max) ==
  IF Len(s) - p + 1 > RsizeMax THEN TooLong
  ELSE Digits(s, SkipOver(s, SkipOver(s, p, Blank), {Zero}), 10, max, 0)

(* An X counts when a zero stands before it. *)
Hex(s, p, max) ==
  LET q == SkipOver(s, SkipOver(s, p, Blank), {Zero})
  IN  IF Len(s) - p + 1 > RsizeMax THEN TooLong
      ELSE IF InternalCharToUpper(At(s, q)) # UpperX THEN Digits(s, q, 16, max, 0)
      ELSE IF At(s, q - 1) # Zero THEN [status |-> "SUCCESS", data |-> 0, end |-> p]
      ELSE Digits(s, q + 1, 16, max, 0)

StrDecimalToUintnS(s, p)       == Decimal(s, p, MaxUintn)
StrDecimalToUint64S(s, p)      == Decimal(s, p, MaxUint64)
AsciiStrDecimalToUintnS(s, p)  == Decimal(s, p, MaxUintn)
AsciiStrDecimalToUint64S(s, p) == Decimal(s, p, MaxUint64)
StrHexToUintnS(s, p)           == Hex(s, p, MaxUintn)
StrHexToUint64S(s, p)          == Hex(s, p, MaxUint64)
AsciiStrHexToUintnS(s, p)      == Hex(s, p, MaxUintn)
AsciiStrHexToUint64S(s, p)     == Hex(s, p, MaxUint64)

StrDecimalToUintn(s)       == StrDecimalToUintnS(s, 1).data
StrDecimalToUint64(s)      == StrDecimalToUint64S(s, 1).data
StrHexToUintn(s)           == StrHexToUintnS(s, 1).data
StrHexToUint64(s)          == StrHexToUint64S(s, 1).data
AsciiStrDecimalToUintn(s)  == AsciiStrDecimalToUintnS(s, 1).data
AsciiStrDecimalToUint64(s) == AsciiStrDecimalToUint64S(s, 1).data
AsciiStrHexToUintn(s)      == AsciiStrHexToUintnS(s, 1).data
AsciiStrHexToUint64(s)     == AsciiStrHexToUint64S(s, 1).data
--------------------------------------------------------------------------------
(* Bytes from the first length digits at p, which make no odd number. *)
StrHexToBytes(s, p, length, max) ==
  IF length > RsizeMax \/ length % 2 = 1 THEN [status |-> "INVALID_PARAMETER"]
  ELSE IF max < length \div 2 THEN [status |-> "BUFFER_TOO_SMALL"]
  ELSE IF \E i \in 0 .. length - 1 : ~InternalIsHexaDecimalDigitCharacter(At(s, p + i))
    THEN Unsupported
  ELSE [ status |-> "SUCCESS",
         bytes  |-> [k \in 1 .. length \div 2 |->
                       16 * InternalHexCharToUintn(At(s, p + 2 * k - 2))
                          + InternalHexCharToUintn(At(s, p + 2 * k - 1))] ]

AsciiStrHexToBytes(s, p, length, max) ==
  IF length > RsizeMax \/ length % 2 = 1 THEN [status |-> "INVALID_PARAMETER"]
  ELSE IF max < length \div 2 THEN [status |-> "BUFFER_TOO_SMALL"]
  ELSE IF \E i \in 0 .. length - 1 : ~InternalAsciiIsHexaDecimalDigitCharacter(At(s, p + i))
    THEN Unsupported
  ELSE [ status |-> "SUCCESS",
         bytes  |-> [k \in 1 .. length \div 2 |->
                       16 * InternalAsciiHexCharToUintn(At(s, p + 2 * k - 2))
                          + InternalAsciiHexCharToUintn(At(s, p + 2 * k - 1))] ]

Backwards(b) == [i \in 1 .. Len(b) |-> b[Len(b) + 1 - i]]

(***************************************************************************)
(* A GUID: Data1, Data2, Data3 with their bytes swapped, then Data4 in two *)
(* parts; a dash after every part but the last.  part[k] is what           *)
(* StrHexToBytes made of the k-th.                                         *)
(***************************************************************************)
PartStart  == << 1, 10, 15, 20, 25 >>
PartDigits == << 8, 4, 4, 4, 12 >>


GuidFrom(s, part) ==
  IF /\ \A k \in 1 .. 5 : part[k].status = "SUCCESS"
     /\ \A k \in 1 .. 4 : At(s, PartStart[k] + PartDigits[k]) = Dash
    THEN [ status |-> "SUCCESS",
           guid   |-> Backwards(part[1].bytes) \o Backwards(part[2].bytes)
                        \o Backwards(part[3].bytes) \o part[4].bytes \o part[5].bytes ]
    ELSE Unsupported

StrToGuid(s) ==
  GuidFrom(s, [k \in 1 .. 5 |->
                 StrHexToBytes(s, PartStart[k], PartDigits[k], PartDigits[k] \div 2)])
AsciiStrToGuid(s) ==
  GuidFrom(s, [k \in 1 .. 5 |->
                 AsciiStrHexToBytes(s, PartStart[k], PartDigits[k], PartDigits[k] \div 2)])
--------------------------------------------------------------------------------
(***************************************************************************)
(* IPv4: numbers up to MAX_UINT8 with dots between, then, after a slash,   *)
(* the prefix length, in the same loop.                                    *)
(***************************************************************************)
Ipv4Done(r) ==
  IF Len(r.bytes) < Ipv4Bytes THEN Unsupported
  ELSE [status |-> "SUCCESS", address |-> r.bytes, prefix |-> r.prefix, end |-> r.p]

RECURSIVE Ipv4Loop(_, _)
Ipv4Loop(s, r) ==
  LET number == StrDecimalToUintnS(s, r.p)
      full   == Len(r.bytes) = Ipv4Bytes
      read   == IF full
                  THEN [r EXCEPT !.p = number.end, !.prefix = number.data]
                  ELSE [r EXCEPT !.p = number.end, !.bytes = Append(@, number.data)]
      next   == [read EXCEPT !.p = @ + 1]
  IN  IF ~InternalIsDecimalDigitCharacter(At(s, r.p)) THEN Ipv4Done(r)
      ELSE IF \/ number.status # "SUCCESS"
              \/ number.data > (IF full THEN MaxPrefix4 ELSE MaxByte) THEN Unsupported
      ELSE IF Len(read.bytes) = Ipv4Bytes
        THEN IF At(s, read.p) = Slash THEN Ipv4Loop(s, next) ELSE Ipv4Done(read)
      ELSE IF At(s, read.p) = Dot THEN Ipv4Loop(s, next) ELSE Unsupported

StrToIpv4Address(s)      == Ipv4Loop(s, [p |-> 1, bytes |-> << >>, prefix |-> NoPrefix])
AsciiStrToIpv4Address(s) == Ipv4Loop(s, [p |-> 1, bytes |-> << >>, prefix |-> NoPrefix])

(***************************************************************************)
(* IPv6: words with colons between, two colons once where zeros are left   *)
(* out (compress is where, Ipv6Bytes while nowhere), then the prefix       *)
(* length.                                                                 *)
(***************************************************************************)
Ipv6Done(r) ==
  LET index == Len(r.bytes)
  IN  IF (index = Ipv6Bytes) # (r.compress = Ipv6Bytes) THEN Unsupported
      ELSE [ status  |-> "SUCCESS",
             address |-> SubSeq(r.bytes, 1, r.compress)
                           \o [i \in 1 .. Ipv6Bytes - index |-> 0]
                           \o SubSeq(r.bytes, r.compress + 1, index),
             prefix  |-> r.prefix, end |-> r.p ]

(* The second colon of two, or the first of two at the beginning. *)
Ipv6Compress(s, r) ==
  [r EXCEPT !.compress = Len(r.bytes),
            !.p = IF Len(r.bytes) = 0 THEN @ + 2 ELSE @ + 1]

RECURSIVE Ipv6Loop(_, _)
(* After a word, or after two colons and before a slash. *)
Ipv6Separator(s, r) ==
  IF At(s, r.p) = Slash THEN Ipv6Loop(s, [r EXCEPT !.p = @ + 1, !.expectPrefix = TRUE])
  ELSE IF At(s, r.p) = Colon /\ Len(r.bytes) # Ipv6Bytes
    THEN Ipv6Loop(s, [r EXCEPT !.p = @ + 1])
  ELSE Ipv6Done(r)

Ipv6Item(s, r) ==
  LET word   == StrHexToUintnS(s, r.p)
      number == StrDecimalToUintnS(s, r.p)
  IN  IF ~InternalIsHexaDecimalDigitCharacter(At(s, r.p))
        THEN IF At(s, r.p) # Slash THEN Ipv6Done(r)
             ELSE IF r.compress # Len(r.bytes) THEN Unsupported
             ELSE Ipv6Separator(s, r)
      ELSE IF r.expectPrefix
        THEN IF number.status # "SUCCESS" \/ number.end = r.p \/ number.data > MaxPrefix6
               THEN Unsupported
               ELSE Ipv6Done([r EXCEPT !.p = number.end, !.prefix = number.data])
      ELSE IF word.status # "SUCCESS" \/ word.end - r.p > 4 THEN Unsupported
      ELSE Ipv6Separator(s, [r EXCEPT !.p = word.end,
                               !.bytes = @ \o << word.data \div 256, word.data % 256 >>])

Ipv6Loop(s, r) ==
  IF InternalIsHexaDecimalDigitCharacter(At(s, r.p)) THEN Ipv6Item(s, r)
  ELSE IF \/ At(s, r.p) # Colon \/ r.expectPrefix
          \/ r.compress # Ipv6Bytes \/ Len(r.bytes) = Ipv6Bytes
          \/ Len(r.bytes) = 0 /\ At(s, r.p + 1) # Colon THEN Unsupported
  ELSE Ipv6Item(s, Ipv6Compress(s, r))

Ipv6Start == [ p |-> 1, bytes |-> << >>, compress |-> Ipv6Bytes,
               expectPrefix |-> FALSE, prefix |-> NoPrefix ]
StrToIpv6Address(s)      == Ipv6Loop(s, Ipv6Start)
AsciiStrToIpv6Address(s) == Ipv6Loop(s, Ipv6Start)
--------------------------------------------------------------------------------
Idle == [fn |-> "none"]
Init == call = Idle

(* A call of a conversion of one text, of a number from p on. *)
OfText(fn, s, r)      == call' = [fn |-> fn, text |-> s, result |-> r]
OfNumber(fn, s, p, r) == call' = [fn |-> fn, text |-> s, from |-> p, result |-> r]
OfPair(fn, s, t, n, r) == call' = [fn |-> fn, text |-> s, other |-> t, length |-> n, result |-> r]

ConvertNumber ==
  \E s \in NumberTexts, p \in 1 .. 2 : p <= Len(s) + 1 /\
   (\/ OfNumber("StrDecimalToUintnS", s, p, StrDecimalToUintnS(s, p))
    \/ OfNumber("StrDecimalToUint64S", s, p, StrDecimalToUint64S(s, p))
    \/ OfNumber("StrHexToUintnS", s, p, StrHexToUintnS(s, p))
    \/ OfNumber("StrHexToUint64S", s, p, StrHexToUint64S(s, p))
    \/ OfNumber("AsciiStrDecimalToUintnS", s, p, AsciiStrDecimalToUintnS(s, p))
    \/ OfNumber("AsciiStrDecimalToUint64S", s, p, AsciiStrDecimalToUint64S(s, p))
    \/ OfNumber("AsciiStrHexToUintnS", s, p, AsciiStrHexToUintnS(s, p))
    \/ OfNumber("AsciiStrHexToUint64S", s, p, AsciiStrHexToUint64S(s, p)))

ConvertAddress ==
  \/ \E s \in Ipv6Texts : \/ OfText("StrToIpv6Address", s, StrToIpv6Address(s))
                          \/ OfText("AsciiStrToIpv6Address", s, AsciiStrToIpv6Address(s))
  \/ \E s \in Ipv4Texts : \/ OfText("StrToIpv4Address", s, StrToIpv4Address(s))
                          \/ OfText("AsciiStrToIpv4Address", s, AsciiStrToIpv4Address(s))

ConvertGuid ==
  \E s \in GuidTexts : \/ OfText("StrToGuid", s, StrToGuid(s))
                       \/ OfText("AsciiStrToGuid", s, AsciiStrToGuid(s))

Compare ==
  \E s, t \in Words :
    \/ OfPair("StrCmp", s, t, 0, StrCmp(s, t))
    \/ OfPair("AsciiStrCmp", s, t, 0, AsciiStrCmp(s, t))
    \/ OfPair("AsciiStriCmp", s, t, 0, AsciiStriCmp(s, t))
    \/ OfPair("StrStr", s, t, 0, StrStr(s, t))
    \/ OfPair("AsciiStrStr", s, t, 0, AsciiStrStr(s, t))
    \/ \E n \in 0 .. 2 : \/ OfPair("StrnCmp", s, t, n, StrnCmp(s, t, n))
                         \/ OfPair("AsciiStrnCmp", s, t, n, AsciiStrnCmp(s, t, n))

Next ==
  \/ call = Idle /\ (ConvertNumber \/ ConvertAddress \/ ConvertGuid \/ Compare)
  \/ call # Idle /\ call' = Idle
Spec == Init /\ [][Next]_call
--------------------------------------------------------------------------------
(* What the texts mean, without the loops. *)
IsHexDigit(c) == c \in 48 .. 57 \cup 65 .. 70 \cup 97 .. 102
DigitValue(c) == CASE c \in 48 .. 57 -> c - 48 [] c \in 65 .. 70 -> c - 55 [] OTHER -> c - 87

Value(s, base) ==
  LET v[i \in 0 .. Len(s)] == IF i = 0 THEN 0 ELSE base * v[i - 1] + DigitValue(s[i])
  IN  v[Len(s)]

(* Where the longest run of digits from p on ends. *)
RunEnd(s, p, base) ==
  SkipOver(s, p, IF base = 10 THEN 48 .. 57 ELSE { c \in 48 .. 102 : IsHexDigit(c) })

(* Where the digits of a number begin: behind blanks, and behind 0x or 0..0x. *)
DigitsStart(s, p, base) ==
  LET q == SkipOver(s, p, Blank)
      z == SkipOver(s, q, {Zero})
  IN  IF base = 16 /\ z > q /\ At(s, z) \in {88, 120} THEN z + 1 ELSE q

NumberMeaning(s, p, base, max) ==
  LET b == DigitsStart(s, p, base)
      e == RunEnd(s, b, base)
      tooLarge == { i \in b .. e - 1 : Value(SubSeq(s, b, i), base) > max }
  IN  IF base = 16 /\ At(s, SkipOver(s, p, Blank)) \in {88, 120} THEN [status |-> "SUCCESS", data |-> 0, end |-> p]
      ELSE IF tooLarge = {} THEN [status |-> "SUCCESS", data |-> Value(SubSeq(s, b, e - 1), base), end |-> e]
      ELSE [status |-> "UNSUPPORTED", data |-> max, end |-> CHOOSE i \in tooLarge : \A j \in tooLarge : i <= j]

(* The pieces of s between the characters c. *)
Pieces(s, c) ==
  LET cuts == { i \in 1 .. Len(s) : s[i] = c }
      cut[k \in 0 .. Len(s) + 1] ==
        IF k = 0 THEN 0
        ELSE IF \A i \in cuts : i <= cut[k - 1] THEN Len(s) + 1
        ELSE CHOOSE i \in cuts : i > cut[k - 1] /\ \A j \in cuts : j <= cut[k - 1] \/ i <= j
      n == CHOOSE k \in 1 .. Len(s) + 1 : cut[k] = Len(s) + 1 /\ cut[k - 1] # Len(s) + 1
  IN  [k \in 1 .. n |-> SubSeq(s, cut[k - 1] + 1, cut[k] - 1)]

IsWord(w) == Len(w) \in 1 .. 4 /\ \A i \in 1 .. Len(w) : IsHexDigit(w[i])
IsDecimal(w, max) == /\ Len(w) > 0 /\ \A i \in 1 .. Len(w) : w[i] \in 48 .. 57
                     /\ Value(w, 10) <= max
WordBytes(w) == << Value(w, 16) \div 256, Value(w, 16) % 256 >>

RECURSIVE Flat(_)
Flat(ss) == IF ss = << >> THEN << >> ELSE Head(ss) \o Flat(Tail(ss))

(* The words of pieces i to j, as bytes. *)
BytesOf(ws, i, j) == Flat([k \in 1 .. j - i + 1 |-> WordBytes(ws[i + k - 1])])

(* The address a text X:X::X or X:X:X:X denotes, << >> if none. *)
Ipv6Meaning(body) ==
  LET ws    == Pieces(body, Colon)
      n     == Len(ws)
      empty == { k \in 1 .. n : ws[k] = << >> }
      first == CHOOSE k \in empty : \A j \in empty : k <= j
      last  == CHOOSE k \in empty : \A j \in empty : k >= j
      left  == first - 1
      right == n - last
      edges == (IF left = 0 THEN 1 ELSE 0) + (IF right = 0 THEN 1 ELSE 0)
  IN  IF \E k \in 1 .. n : k \notin empty /\ ~IsWord(ws[k]) THEN << >>
      ELSE IF empty = {} THEN IF 2 * n = Ipv6Bytes THEN BytesOf(ws, 1, n) ELSE << >>
      ELSE IF empty = first .. last /\ last - first = edges /\ n > 1
              /\ 2 * (left + right) < Ipv6Bytes
        THEN BytesOf(ws, 1, left) \o [i \in 1 .. Ipv6Bytes - 2 * (left + right) |-> 0]
               \o BytesOf(ws, last + 1, n)
      ELSE << >>

Ipv4Meaning(body) ==
  LET ds == Pieces(body, Dot)
  IN  IF Len(ds) = Ipv4Bytes /\ \A k \in 1 .. Len(ds) : IsDecimal(ds[k], MaxByte)
        THEN [k \in 1 .. Len(ds) |-> Value(ds[k], 10)] ELSE << >>

(* A text of the documented format: the address, maybe a slash and a prefix. *)
HasFormat(meaning, ps, maxPrefix) ==
  /\ meaning # << >>
  /\ Len(ps) <= 2
  /\ Len(ps) = 2 => IsDecimal(ps[2], maxPrefix)

Meaning(meaning, ps, end) ==
  [ status |-> "SUCCESS", address |-> meaning, end |-> end,
    prefix |-> IF Len(ps) = 2 THEN Value(ps[2], 10) ELSE NoPrefix ]

(***************************************************************************)
(* The conversions of numbers give the value of the digits, or saturate at *)
(* the digit with which it gets too large (SafeString.c:675, 790, 910,     *)
(* 1041 and the Ascii twins).  The end is where the scan stopped, behind   *)
(* the blanks also when no digit follows them, for which the comments, at  *)
(* :655 and seven times more, promise the whole String.  An X that begins the text after a zero     *)
(* that is not part of it is left out: the code reads the byte before.     *)
(***************************************************************************)
NumbersExact ==
  LET fn == call.fn
      exact(base, max) ==
        \/ base = 16 /\ At(call.text, call.from) \in {88, 120} /\ At(call.text, call.from - 1) = Zero
        \/ Len(call.text) - call.from + 1 > RsizeMax /\ call.result = TooLong
        \/ /\ Len(call.text) - call.from + 1 <= RsizeMax
           /\ call.result = NumberMeaning(call.text, call.from, base, max)
  IN  /\ fn \in {"StrDecimalToUintnS", "AsciiStrDecimalToUintnS"}   => exact(10, MaxUintn)
      /\ fn \in {"StrDecimalToUint64S", "AsciiStrDecimalToUint64S"} => exact(10, MaxUint64)
      /\ fn \in {"StrHexToUintnS", "AsciiStrHexToUintnS"}           => exact(16, MaxUintn)
      /\ fn \in {"StrHexToUint64S", "AsciiStrHexToUint64S"}         => exact(16, MaxUint64)

(***************************************************************************)
(* Every text of the documented format is converted, whole, to what it     *)
(* denotes; and what is converted denotes the result, when each X of 0x is *)
(* read as a zero, and of the prefixes of an IPv4 address only the last    *)
(* counts, if any follows its slashes (SafeString.c:1177, 1400 and the     *)
(* Ascii twins).  The comments have such texts refused: X is one to four   *)
(* digits at :1128, and D.D.D.D[/P] is the format at :1393.                *)
(***************************************************************************)
Plain(s) == [i \in 1 .. Len(s) |-> IF s[i] \in {88, 120} THEN Zero ELSE s[i]]

Consumed == SubSeq(call.text, 1, call.result.end - 1)

Converts(meaning, ps, max) ==
  HasFormat(meaning, ps, max) => call.result = Meaning(meaning, ps, Len(call.text) + 1)

Denotes(meaning, ps, max) ==
  HasFormat(meaning, ps, max) /\ call.result = Meaning(meaning, ps, call.result.end)

AddressesExact ==
  LET ps  == Pieces(call.text, Slash)
      six == Pieces(Plain(Consumed), Slash)
      raw == Pieces(Consumed, Slash)
      prefixes == { k \in 2 .. Len(raw) : raw[k] # << >> }
      four == IF prefixes = {} THEN << raw[1] >>
              ELSE << raw[1], raw[CHOOSE k \in prefixes : \A j \in prefixes : j <= k] >>
  IN  /\ call.fn \in {"StrToIpv6Address", "AsciiStrToIpv6Address"} =>
           /\ Converts(Ipv6Meaning(ps[1]), ps, MaxPrefix6)
           /\ call.result.status = "SUCCESS" => Denotes(Ipv6Meaning(six[1]), six, MaxPrefix6)
      /\ call.fn \in {"StrToIpv4Address", "AsciiStrToIpv4Address"} =>
           /\ Converts(Ipv4Meaning(ps[1]), ps, MaxPrefix4)
           /\ call.result.status = "SUCCESS" => Denotes(Ipv4Meaning(four[1]), four, MaxPrefix4)

(***************************************************************************)
(* aabbccdd-eeff-gghh-iijj-kkllmmnnoopp is the GUID with the bytes         *)
(* dd cc bb aa ff ee hh gg ii jj kk .. pp, and no other text is one        *)
(* (SafeString.c:1547, 3512).                                              *)
(***************************************************************************)
GuidOrder == << 7, 5, 3, 1, 12, 10, 17, 15, 20, 22, 25, 27, 29, 31, 33, 35 >>

GuidsExact ==
  call.fn \in {"StrToGuid", "AsciiStrToGuid"} =>
    LET s     == call.text
        valid == /\ Len(s) >= 36
                 /\ \A i \in 1 .. 36 : IF i \in {9, 14, 19, 24} THEN s[i] = Dash ELSE IsHexDigit(s[i])
    IN  IF valid
          THEN call.result = [status |-> "SUCCESS",
                              guid |-> [k \in 1 .. 16 |-> Value(SubSeq(s, GuidOrder[k], GuidOrder[k] + 1), 16)]]
          ELSE call.result = Unsupported

Upper(s) == [i \in 1 .. Len(s) |-> InternalBaseLibAsciiToUpper(s[i])]
Before(s, n) == SubSeq(s, 1, IF n < Len(s) THEN n ELSE Len(s))

(* s comes before t in a dictionary. *)
Precedes(s, t) ==
  \E i \in 1 .. Len(t) : /\ \A j \in 1 .. i - 1 : At(s, j) = t[j]
                         /\ At(s, i) < t[i]

Ordered(r, s, t) == (r = 0 <=> s = t) /\ (r < 0 <=> Precedes(s, t))

OccursAt(s, t, i) == i + Len(t) - 1 <= Len(s) /\ SubSeq(s, i, i + Len(t) - 1) = t

(***************************************************************************)
(* A comparison orders texts as a dictionary does, and a search finds the  *)
(* first occurrence if there is one (String.c:105 to 257, 685 to 937).     *)
(***************************************************************************)
ComparisonsExact ==
  LET s == call.text
      t == call.other
      first == { i \in 1 .. Len(s) + 1 : OccursAt(s, t, i) }
  IN  /\ call.fn \in {"StrCmp", "AsciiStrCmp"} => Ordered(call.result, s, t)
      /\ call.fn = "AsciiStriCmp" => Ordered(call.result, Upper(s), Upper(t))
      /\ call.fn \in {"StrnCmp", "AsciiStrnCmp"} =>
           Ordered(call.result, Before(s, call.length), Before(t, call.length))
      /\ call.fn \in {"StrStr", "AsciiStrStr"} =>
           IF first = {} THEN call.result = NotFound
           ELSE call.result \in first /\ \A i \in first : call.result <= i

================================================================================
