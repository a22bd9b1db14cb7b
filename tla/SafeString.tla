------------------------------ MODULE SafeString ------------------------------
(***************************************************************************)
(* The bounded copies of Host/BaseLibHost/SafeString.c, on a memory of     *)
(* bytes that holds CHAR8 and CHAR16 strings side by side.  A call either  *)
(* refuses its arguments or rewrites the destination.                      *)
(***************************************************************************)
EXTENDS Integers, Sequences

CONSTANTS
  Addresses,   \* addresses of the memory; the last two bytes stay zero
  InitialTexts,\* what the memory may hold at first
  Sizes,       \* what callers pass as DestMax and Length
  RsizeMax,    \* RSIZE_MAX and ASCII_RSIZE_MAX
  MaxCalls     \* bound: the number of calls that change something

VARIABLES
  memory,      \* the byte at every address
  status,      \* what the last call returned
  calls        \* how many calls there were

vars == << memory, status, calls >>

NULL == 0
CHAR8 == 1     \* sizeof (CHAR8)
CHAR16 == 2    \* sizeof (CHAR16)
Unlimited == 100

CharAt(m, p, w) == IF w = CHAR8 THEN m[p] ELSE m[p] + 256 * m[p + 1]

StoreChar(m, p, w, c) ==
  IF w = CHAR8 THEN [m EXCEPT ![p] = c % 256]
               ELSE [m EXCEPT ![p] = c % 256, ![p + 1] = c \div 256]

Least(S) == CHOOSE x \in S : \A y \in S : x <= y

(* Characters before the terminator, at most max of them are looked at. *)
StringLength(m, p, w, max) ==
  LET ends == { i \in 0 .. max - 1 : /\ p + w * i + w - 1 \in DOMAIN m
                                     /\ CharAt(m, p + w * i, w) = 0 }
  IN  IF p = NULL \/ max = 0 THEN 0
      ELSE IF ends = {} THEN max ELSE Least(ends)

StrnLenS(m, p, max)      == StringLength(m, p, CHAR16, max)
AsciiStrnLenS(m, p, max) == StringLength(m, p, CHAR8, max)
StrnSizeS(m, p, max)      == IF p = NULL THEN 0 ELSE (StrnLenS(m, p, max) + 1) * CHAR16
AsciiStrnSizeS(m, p, max) == IF p = NULL THEN 0 ELSE (AsciiStrnLenS(m, p, max) + 1) * CHAR8

InternalSafeStringIsOverlap(base1, size1, base2, size2) ==
  \/ base1 >= base2 /\ base1 < base2 + size2
  \/ base2 >= base1 /\ base2 < base1 + size1

InternalSafeStringNoStrOverlap(str1, size1, str2, size2) ==
  ~InternalSafeStringIsOverlap(str1, size1 * CHAR16, str2, size2 * CHAR16)

InternalSafeStringNoAsciiStrOverlap(str1, size1, str2, size2) ==
  ~InternalSafeStringIsOverlap(str1, size1, str2, size2)

(* The copy loop: up to n characters, one at a time, then the terminator. *)
RECURSIVE CopyLoop(_, _, _, _, _, _)
CopyLoop(m, d, dw, s, sw, n) ==
  IF n = 0 \/ CharAt(m, s, sw) = 0 THEN StoreChar(m, d, dw, 0)
  ELSE CopyLoop(StoreChar(m, d, dw, CharAt(m, s, sw)), d + dw, dw, s + sw, sw, n - 1)

(***************************************************************************)
(* The part all copies share.  a: dest, dw its character width, max its    *)
(* size in characters, skip characters of it kept; src, sw; length: the    *)
(* most characters to copy; measured: the length of the source as the      *)
(* function measured it; apart: its overlap check, given the source length *)
(***************************************************************************)
Copied(a) == IF a.measured > a.length THEN a.length ELSE a.measured

Refused_FullLength(a) ==
  CASE a.dest = NULL \/ a.src = NULL -> "INVALID_PARAMETER"
    [] a.max > RsizeMax              -> "INVALID_PARAMETER"
    [] a.length # Unlimited /\ a.length > RsizeMax -> "INVALID_PARAMETER"
    [] a.max = 0                     -> "INVALID_PARAMETER"
    [] a.max = a.skip                -> "BAD_BUFFER_SIZE"
    [] a.length > a.max - a.skip /\ a.max - a.skip <= a.measured -> "BUFFER_TOO_SMALL"
    [] ~a.apart[Copied(a)]           -> "ACCESS_DENIED"
    [] OTHER                         -> "SUCCESS"

Refused(a) ==
  CASE a.dest = NULL \/ a.src = NULL -> "INVALID_PARAMETER"
    [] a.max > RsizeMax              -> "INVALID_PARAMETER"
    [] a.length # Unlimited /\ a.length > RsizeMax -> "INVALID_PARAMETER"
    [] a.max = 0                     -> "INVALID_PARAMETER"
    [] a.max = a.skip                -> "BAD_BUFFER_SIZE"
    [] a.length >= a.max - a.skip /\ a.max - a.skip <= a.measured -> "BUFFER_TOO_SMALL"
    [] ~a.apart[Copied(a)]           -> "ACCESS_DENIED"
    [] OTHER                         -> "SUCCESS"

Transfer(m, a) ==
  [ status |-> Refused(a),
    memory |-> IF Refused(a) # "SUCCESS" THEN m
               ELSE CopyLoop(m, a.dest + a.skip * a.dw, a.dw, a.src, a.sw,
                             IF a.length = Unlimited THEN Unlimited ELSE Copied(a)) ]

Smaller(x, y) == IF x < y THEN x ELSE y

(* The arguments of a copy between strings of width w. *)
Same(w, d, max, skip, s, length, measured) ==
  [ dest |-> d, dw |-> w, max |-> max, skip |-> skip, src |-> s, sw |-> w,
    length |-> length, measured |-> measured,
    apart |-> [n \in 0 .. RsizeMax |->
                 IF w = CHAR16 THEN InternalSafeStringNoStrOverlap(d, max, s, n + 1)
                               ELSE InternalSafeStringNoAsciiStrOverlap(d, max, s, n + 1)] ]

(* Of a copy that changes the width. *)
Convert(d, dw, max, s, sw, length, measured) ==
  [ dest |-> d, dw |-> dw, max |-> max, skip |-> 0, src |-> s, sw |-> sw,
    length |-> length, measured |-> measured,
    apart |-> [n \in 0 .. RsizeMax |->
                 ~InternalSafeStringIsOverlap(d, max * dw, s, (n + 1) * sw)] ]

StrCpyS(m, d, max, s) ==
  Transfer(m, Same(CHAR16, d, max, 0, s, Unlimited, StrnLenS(m, s, max)))
AsciiStrCpyS(m, d, max, s) ==
  Transfer(m, Same(CHAR8, d, max, 0, s, Unlimited, AsciiStrnLenS(m, s, max)))

StrnCpyS(m, d, max, s, length) ==
  Transfer(m, Same(CHAR16, d, max, 0, s, length, StrnLenS(m, s, Smaller(max, length))))
AsciiStrnCpyS(m, d, max, s, length) ==
  Transfer(m, Same(CHAR8, d, max, 0, s, length, AsciiStrnLenS(m, s, Smaller(max, length))))

StrCatS(m, d, max, s) ==
  LET skip == StrnLenS(m, d, max)
  IN  Transfer(m, Same(CHAR16, d, max, skip, s, Unlimited, StrnLenS(m, s, max - skip)))
AsciiStrCatS(m, d, max, s) ==
  LET skip == AsciiStrnLenS(m, d, max)
  IN  Transfer(m, Same(CHAR8, d, max, skip, s, Unlimited, AsciiStrnLenS(m, s, max - skip)))

StrnCatS(m, d, max, s, length) ==
  LET skip == StrnLenS(m, d, max)
  IN  Transfer(m, Same(CHAR16, d, max, skip, s, length,
                       StrnLenS(m, s, Smaller(max - skip, length))))
AsciiStrnCatS(m, d, max, s, length) ==
  LET skip == AsciiStrnLenS(m, d, max)
  IN  Transfer(m, Same(CHAR8, d, max, skip, s, length,
                       AsciiStrnLenS(m, s, Smaller(max - skip, length))))

UnicodeStrToAsciiStrS(m, s, d, max) ==
  Transfer(m, Convert(d, CHAR8, max, s, CHAR16, Unlimited, StrnLenS(m, s, max)))
AsciiStrToUnicodeStrS(m, s, d, max) ==
  Transfer(m, Convert(d, CHAR16, max, s, CHAR8, Unlimited, AsciiStrnLenS(m, s, max)))

(* These measure up to DestMax, whatever Length is. *)
UnicodeStrnToAsciiStrS(m, s, length, d, max) ==
  Transfer(m, Convert(d, CHAR8, max, s, CHAR16, length, StrnLenS(m, s, max)))
AsciiStrnToUnicodeStrS(m, s, length, d, max) ==
  Transfer(m, Convert(d, CHAR16, max, s, CHAR8, length, AsciiStrnLenS(m, s, max)))
-------------------------------------------------------------------------------
(* Destinations a caller may name: room for max characters, aligned. *)
Dest(w, max) == { d \in Addresses : /\ d % w = 0
                                    /\ \A a \in d .. d + w * max + 1 : a \in Addresses }
Source(w) == { s \in Addresses : s % w = 0 /\ s + w - 1 \in Addresses }

(* Unicode sources of a conversion are in the range of CHAR8 (asserted). *)
Narrow(m, s) == \A i \in 0 .. StrnLenS(m, s, Unlimited) : CharAt(m, s + 2 * i, CHAR16) < 256

Init == memory \in InitialTexts /\ status = "SUCCESS" /\ calls = 0

Return(r) ==
  /\ calls < MaxCalls
  /\ memory' = r.memory
  /\ status' = r.status
  /\ calls' = calls + 1

CopyWide(max) ==
  \E d \in Dest(CHAR16, max), s \in Source(CHAR16) :
    \/ Return(StrCpyS(memory, d, max, s))
    \/ Return(StrCatS(memory, d, max, s))
    \/ \E n \in Sizes : \/ Return(StrnCpyS(memory, d, max, s, n))
                        \/ Return(StrnCatS(memory, d, max, s, n))

CopyNarrow(max) ==
  \E d \in Dest(CHAR8, max), s \in Source(CHAR8) :
    \/ Return(AsciiStrCpyS(memory, d, max, s))
    \/ Return(AsciiStrCatS(memory, d, max, s))
    \/ \E n \in Sizes : \/ Return(AsciiStrnCpyS(memory, d, max, s, n))
                        \/ Return(AsciiStrnCatS(memory, d, max, s, n))

ToNarrow(max) ==
  \E d \in Dest(CHAR8, max), s \in Source(CHAR16) :
    /\ Narrow(memory, s)
    /\ \/ Return(UnicodeStrToAsciiStrS(memory, s, d, max))
       \/ \E n \in Sizes : Return(UnicodeStrnToAsciiStrS(memory, s, n, d, max))

ToWide(max) ==
  \E d \in Dest(CHAR16, max), s \in Source(CHAR8) :
    \/ Return(AsciiStrToUnicodeStrS(memory, s, d, max))
    \/ \E n \in Sizes : Return(AsciiStrnToUnicodeStrS(memory, s, n, d, max))

Next == \E max \in Sizes : CopyWide(max) \/ CopyNarrow(max) \/ ToNarrow(max) \/ ToWide(max)

Spec == Init /\ [][Next]_vars
-------------------------------------------------------------------------------
(* What a string at p says: the characters before its terminator. *)
Text(m, p, w) ==
  LET n == StringLength(m, p, w, Unlimited)
  IN  [i \in 1 .. n |-> CharAt(m, p + w * (i - 1), w)]

Prefix(t, n) == SubSeq(t, 1, Smaller(n, Len(t)))

Bytes(p, size) == p .. p + size - 1

(* r is what a call may do that is to leave text in the destination. *)
Meets(m, r, d, dw, max, s, sw, length, text) ==
  LET taken == Len(Prefix(Text(m, s, sw), length)) + 1 IN
  /\ \A a \in DOMAIN m \ Bytes(d, max * dw) : r.memory[a] = m[a]
  /\ r.status # "SUCCESS" => r.memory = m
  /\ r.status = "SUCCESS" => Text(r.memory, d, dw) = text
  /\ r.status = "SUCCESS" <=>
       /\ max \in 1 .. RsizeMax
       /\ length = Unlimited \/ length <= RsizeMax
       /\ Len(text) < max
       /\ Bytes(d, max * dw) \cap Bytes(s, taken * sw) = {}

SameWidthMeets(m, max, w) ==
  \A d \in Dest(w, max), s \in Source(w), n \in Sizes :
    LET wide == w = CHAR16
        src  == Text(m, s, w)
        old  == Text(m, d, w)
    IN /\ Meets(m, IF wide THEN StrCpyS(m, d, max, s) ELSE AsciiStrCpyS(m, d, max, s),
                d, w, max, s, w, Unlimited, src)
       /\ Meets(m, IF wide THEN StrnCpyS(m, d, max, s, n) ELSE AsciiStrnCpyS(m, d, max, s, n),
                d, w, max, s, w, n, Prefix(src, n))
       /\ Meets(m, IF wide THEN StrCatS(m, d, max, s) ELSE AsciiStrCatS(m, d, max, s),
                d, w, max, s, w, Unlimited, old \o src)
       /\ Meets(m, IF wide THEN StrnCatS(m, d, max, s, n) ELSE AsciiStrnCatS(m, d, max, s, n),
                d, w, max, s, w, n, old \o Prefix(src, n))

(***************************************************************************)
(* Whatever the memory holds: a copy writes nothing outside the            *)
(* destination, changes nothing when it fails, leaves exactly the promised *)
(* text, terminated, when it succeeds, and succeeds whenever the text fits *)
(* and source and destination have no byte in common (SafeString.c:268 to  *)
(* 625, 1850 to 2189, 2710 to 3098).                                       *)
(***************************************************************************)
DestinationsSafe ==
  \A max \in Sizes :
    /\ SameWidthMeets(memory, max, CHAR16)
    /\ SameWidthMeets(memory, max, CHAR8)
    /\ \A d \in Dest(CHAR8, max), s \in Source(CHAR16), n \in Sizes :
         LET src == Text(memory, s, CHAR16) IN
         Narrow(memory, s) =>
           /\ Meets(memory, UnicodeStrToAsciiStrS(memory, s, d, max),
                    d, CHAR8, max, s, CHAR16, Unlimited, src)
           /\ Meets(memory, UnicodeStrnToAsciiStrS(memory, s, n, d, max),
                    d, CHAR8, max, s, CHAR16, n, Prefix(src, n))
    /\ \A d \in Dest(CHAR16, max), s \in Source(CHAR8), n \in Sizes :
         LET src == Text(memory, s, CHAR8) IN
           /\ Meets(memory, AsciiStrToUnicodeStrS(memory, s, d, max),
                    d, CHAR16, max, s, CHAR8, Unlimited, src)
           /\ Meets(memory, AsciiStrnToUnicodeStrS(memory, s, n, d, max),
                    d, CHAR16, max, s, CHAR8, n, Prefix(src, n))

TypeOK == /\ memory \in [Addresses -> 0 .. 255]
          /\ status \in { "SUCCESS", "INVALID_PARAMETER", "BAD_BUFFER_SIZE",
                          "BUFFER_TOO_SMALL", "ACCESS_DENIED" }
          /\ calls \in 0 .. MaxCalls
===============================================================================
