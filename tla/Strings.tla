-------------------------------- MODULE Strings --------------------------------
(***************************************************************************)
(* Host/BaseLibHost/String.c: Null-terminated texts as sequences of        *)
(* nonzero character codes.  A pointer into a text is an index.            *)
(***************************************************************************)
EXTENDS Integers, Sequences

Nul == 0
NotFound == 0   \* the NULL that StrStr returns

(* *String of a pointer into s: the terminator follows the last character. *)
At(s, i) == IF i \in 1 .. Len(s) THEN s[i] ELSE Nul

InternalIsDecimalDigitCharacter(c) == c \in 48 .. 57
InternalCharToUpper(c) == IF c \in 97 .. 122 THEN c - 32 ELSE c
InternalHexCharToUintn(c) ==
  IF InternalIsDecimalDigitCharacter(c) THEN c - 48 ELSE 10 + InternalCharToUpper(c) - 65
InternalIsHexaDecimalDigitCharacter(c) ==
  InternalIsDecimalDigitCharacter(c) \/ c \in 65 .. 70 \/ c \in 97 .. 102

InternalAsciiIsDecimalDigitCharacter(c) == c \in 48 .. 57
InternalBaseLibAsciiToUpper(c) == IF c \in 97 .. 122 THEN c - 32 ELSE c
InternalAsciiHexCharToUintn(c) ==
  IF InternalIsDecimalDigitCharacter(c) THEN c - 48
  ELSE 10 + InternalBaseLibAsciiToUpper(c) - 65
InternalAsciiIsHexaDecimalDigitCharacter(c) ==
  InternalAsciiIsDecimalDigitCharacter(c) \/ c \in 65 .. 70 \/ c \in 97 .. 102

StrLen(s)       == Len(s)
StrSize(s)      == (StrLen(s) + 1) * 2
AsciiStrLen(s)  == Len(s)
AsciiStrSize(s) == AsciiStrLen(s) + 1

(***************************************************************************)
(* The comparison loops stop at the first index for which stop holds, the  *)
(* end of the first text at the latest, and subtract what is there.        *)
(***************************************************************************)
FirstStop(s, stop) ==
  CHOOSE i \in 1 .. Len(s) + 1 : stop[i] /\ \A j \in 1 .. i - 1 : ~stop[j]

Difference(s, t, stop) ==
  At(s, FirstStop(s, stop)) - At(t, FirstStop(s, stop))

StrCmp(s, t) ==
  Difference(s, t, [i \in 1 .. Len(s) + 1 |-> At(s, i) = Nul \/ At(s, i) # At(t, i)])
AsciiStrCmp(s, t) ==
  Difference(s, t, [i \in 1 .. Len(s) + 1 |-> At(s, i) = Nul \/ At(s, i) # At(t, i)])

StrnCmp(s, t, n) ==
  IF n = 0 THEN 0
  ELSE Difference(s, t, [i \in 1 .. Len(s) + 1 |->
                           \/ At(s, i) = Nul \/ At(t, i) = Nul
                           \/ At(s, i) # At(t, i) \/ n - (i - 1) <= 1])
AsciiStrnCmp(s, t, n) ==
  IF n = 0 THEN 0
  ELSE Difference(s, t, [i \in 1 .. Len(s) + 1 |->
                           \/ At(s, i) = Nul \/ At(t, i) = Nul
                           \/ At(s, i) # At(t, i) \/ n - (i - 1) <= 1])

AsciiStriCmp(s, t) ==
  LET up(u, i) == InternalBaseLibAsciiToUpper(At(u, i))
      at == FirstStop(s, [i \in 1 .. Len(s) + 1 |->
                            At(s, i) = Nul \/ At(t, i) = Nul \/ up(s, i) # up(t, i)])
  IN  up(s, at) - up(t, at)

(***************************************************************************)
(* StrStr tries one match after the other; from is String, that is where   *)
(* the current match starts.                                               *)
(***************************************************************************)
RECURSIVE SearchFrom(_, _, _)
SearchFrom(s, t, from) ==
  LET same[k \in 0 .. Len(s) + 1] ==   \* characters of the match that agree
        IF At(s, from + k) = At(t, 1 + k) /\ At(s, from + k) # Nul THEN same[k + 1] ELSE k
      n == same[0]
  IN  IF At(s, from) = Nul THEN NotFound
      ELSE IF At(t, 1 + n) = Nul THEN from
      ELSE IF At(s, from + n) = Nul THEN NotFound
      ELSE SearchFrom(s, t, from + 1)

StrStr(s, t)      == IF At(t, 1) = Nul THEN 1 ELSE SearchFrom(s, t, 1)
AsciiStrStr(s, t) == IF At(t, 1) = Nul THEN 1 ELSE SearchFrom(s, t, 1)

DecimalToBcd8(v) == (v \div 10) * 16 + (v % 10)
BcdToDecimal8(v) == (v \div 16) * 10 + (v % 16)
================================================================================
