------------------------------ MODULE Arithmetic ------------------------------
(***************************************************************************)
(* Host/BaseLibHost: BitField.c, Math64.c, CheckSum.c.  A machine word is  *)
(* the set of its bits that are one, so that &, | and ~ are intersection,  *)
(* union and complement and a shift moves the members; where a sum is      *)
(* taken, a word is a number below 2^width.  The four widths of a function *)
(* are one definition with the width as its parameter.                     *)
(***************************************************************************)
EXTENDS Integers, Sequences, FiniteSets

CONSTANTS
  Widths,          \* stand for 8, 16, 32 and 64
  UintnWidth,      \* width of UINTN, in which a field is cut out
  CountWidth,      \* width of the operand of BitFieldCountOnes32, a power of two
  CountOperands,   \* operands of that width
  CrcTexts         \* buffers of bytes, as sets of bits, for CalculateCrc32

VARIABLE call      \* the function called, its arguments and its result

(***************************************************************************)
(* Words of w bits.                                                        *)
(***************************************************************************)
Bits(w)      == 0 .. w - 1
Words(w)     == SUBSET Bits(w)
Shl(x, n, w) == { i + n : i \in x } \cap Bits(w)
Shr(x, n)    == { i - n : i \in {j \in x : j >= n} }
Not(x, w)    == Bits(w) \ x
Xor(x, y)    == (x \ y) \cup (y \ x)
Value(x)     == LET sum[i \in 0 .. 32] == IF i = 0 THEN 0
                                          ELSE sum[i - 1] + IF i - 1 \in x THEN 2 ^ (i - 1) ELSE 0
                IN  sum[IF x = {} THEN 0 ELSE 1 + CHOOSE i \in x : \A j \in x : j <= i]
Word(n, w)   == { i \in Bits(w) : (n \div 2 ^ i) % 2 = 1 }

Behind_TakesEnd(e) == Shl(Bits(UintnWidth), e, UintnWidth)

(* (UINTN) -2 << e, the bits behind a field that ends with e. *)
Behind(e) == Shl(Bits(UintnWidth) \ {0}, e, UintnWidth)

(***************************************************************************)
(* BitField.c.                                                             *)
(***************************************************************************)
InternalBaseLibBitFieldReadUint(x, s, e) == Shr(x \cap Not(Behind(e), UintnWidth), s)

InternalBaseLibBitFieldOrUint(x, s, e, d) ==
  x \cup (Shl(d, s, UintnWidth) \cap Not(Behind(e), UintnWidth))

InternalBaseLibBitFieldAndUint(x, s, e, d) ==
  x \cap Not(Shl(Not(d, UintnWidth), s, UintnWidth) \cap Not(Behind(e), UintnWidth), UintnWidth)

BitFieldRead(x, s, e, w)  == InternalBaseLibBitFieldReadUint(x, s, e) \cap Bits(w)
BitFieldOr(x, s, e, d, w) == InternalBaseLibBitFieldOrUint(x, s, e, d) \cap Bits(w)
BitFieldAnd(x, s, e, d, w) == InternalBaseLibBitFieldAndUint(x, s, e, d) \cap Bits(w)
BitFieldAndThenOr(x, s, e, a, d, w) == BitFieldOr(BitFieldAnd(x, s, e, a, w), s, e, d, w)
BitFieldWrite(x, s, e, d, w) == BitFieldAndThenOr(x, s, e, {}, d, w)

(* The 64-bit forms shift in their own width. *)
BitFieldOr64(x, s, e, d, w) ==
  x \cup (Shl(d, s, w) \cap Not(Shl(Bits(w) \ {0}, e, w), w))

BitFieldAnd64(x, s, e, d, w) ==
  x \cap Not(Shl(Not(d, w), s, w) \cap Not(Shl(Bits(w) \ {0}, e, w), w), w)

(***************************************************************************)
(* Ones are counted in pairs, then in fours, then the fours are added up   *)
(* to bytes, words and the whole: masks leave the lower half of every      *)
(* group, and the sixth bit is the last that counts.                       *)
(***************************************************************************)
LowHalves(g, w) == { i \in Bits(w) : i % g < g \div 2 }

BitFieldCountOnes32(x, s, e, w) ==
  LET masked(n, g)  == Value(Word(n, w) \cap LowHalves(g, w))
      shifted(n, k) == n \div 2 ^ k
      field == Value(BitFieldRead(x, s, e, w))
      pairs == field - masked(shifted(field, 1), 2)
      fours == masked(pairs, 4) + masked(shifted(pairs, 2), 4)
      byte  == Value(Word(fours + shifted(fours, 4), w) \cap LowHalves(8, w))
      word  == byte + shifted(byte, 8)
  IN  (word + shifted(word, 16)) % 64

BitFieldCountOnes64(x, s, e, w) ==
  LET field == BitFieldRead(x, s, e, 2 * w)
  IN  BitFieldCountOnes32(field \cap Bits(w), 0, w - 1, w)
        + BitFieldCountOnes32(Shr(field, w), 0, w - 1, w)

(***************************************************************************)
(* Math64.c.  A rotation by zero shifts by the whole width, which the      *)
(* language leaves undefined: the machine takes the count modulo the       *)
(* width, a compiler may take every bit away.                              *)
(***************************************************************************)
ShiftedByWidth(x) == {x, {}}

InternalMathARShiftU64(x, n, w) ==
  Shr(x, n) \cup IF w - 1 \in x THEN Not(Shr(Bits(w), n), w) ELSE {}

InternalMathLRotU64(x, n, w) ==
  { Shl(x, n, w) \cup r : r \in IF n = 0 THEN ShiftedByWidth(x) ELSE {Shr(x, w - n)} }

InternalMathRRotU64(x, n, w) ==
  { Shr(x, n) \cup r : r \in IF n = 0 THEN ShiftedByWidth(x) ELSE {Shl(x, w - n, w)} }

(* Bytes of b bits: two halves are swapped, and in each the same. *)
InternalMathSwapBytes64(x, b) ==
  LET half(y) == Shl(y \cap Bits(b), b, 2 * b) \cup Shr(y, b)
      low  == half(x \cap Bits(2 * b))
      high == half(Shr(x, 2 * b))
  IN  Shl(low, 2 * b, 4 * b) \cup high

(***************************************************************************)
(* CheckSum.c.                                                             *)
(***************************************************************************)
CalculateSum(buffer, w) ==
  LET sum[n \in 0 .. Len(buffer)] ==
        IF n = 0 THEN 0 ELSE (sum[n - 1] + buffer[n]) % 2 ^ w
  IN  sum[Len(buffer)]

CalculateCheckSum(buffer, w) == (2 ^ w - CalculateSum(buffer, w)) % 2 ^ w

(* x^32 + x^26 + x^23 + ... + 1, the highest power in bit zero. *)
CrcPolynomial == { 31 - p : p \in {26, 23, 22, 16, 12, 11, 10, 8, 7, 5, 4, 2, 1, 0} }

mCrcTable(byte) ==
  LET r[n \in 0 .. 8] ==
        IF n = 0 THEN byte
        ELSE IF 0 \in r[n - 1] THEN Xor(Shr(r[n - 1], 1), CrcPolynomial) ELSE Shr(r[n - 1], 1)
  IN  r[8]

CalculateCrc32(buffer) ==
  LET crc[n \in 0 .. Len(buffer)] ==
        IF n = 0 THEN Bits(32)
        ELSE Xor(Shr(crc[n - 1], 8), mCrcTable(Xor(crc[n - 1] \cap Bits(8), buffer[n])))
  IN  Not(crc[Len(buffer)], 32)

(***************************************************************************)
(* The calls.                                                              *)
(***************************************************************************)
Idle == [fn |-> "idle"]

BitFieldCall ==
  \E w \in Widths : \E e \in Bits(w) : \E s \in 0 .. e, x \in Words(w) :
  \E d \in Words(e - s + 1), a \in {{}, {0}} :
    call' = [ fn |-> "field", width |-> w, start |-> s, end |-> e, operand |-> x, data |-> d,
              mask |-> a \cap Bits(e - s + 1),
              read |-> BitFieldRead(x, s, e, w), write |-> BitFieldWrite(x, s, e, d, w),
              or |-> { BitFieldOr(x, s, e, d, w), BitFieldOr64(x, s, e, d, w) },
              and |-> { BitFieldAnd(x, s, e, d, w), BitFieldAnd64(x, s, e, d, w) },
              andOr |-> BitFieldAndThenOr(x, s, e, a, d, w) ]

CountCall ==
  \E e \in Bits(CountWidth) : \E s \in 0 .. e, x \in CountOperands :
    call' = [ fn |-> "count", start |-> s, end |-> e, operand |-> x,
              ones |-> BitFieldCountOnes32(x, s, e, CountWidth),
              ones64 |-> BitFieldCountOnes64(x, s, e, CountWidth \div 2) ]

MathCall ==
  \E w \in Widths : \E n \in Bits(w), x \in Words(w) :
  \E l \in InternalMathLRotU64(x, n, w), r \in InternalMathRRotU64(x, n, w) :
    call' = [ fn |-> "math", width |-> w, count |-> n, operand |-> x, left |-> l, right |-> r,
              arithmetic |-> InternalMathARShiftU64(x, n, w),
              swapped |-> InternalMathSwapBytes64(x, 1) ]

SumCall ==
  \E w \in Widths : \E a, b, c \in 0 .. 2 ^ w - 1 :
    call' = [fn |-> "sum", width |-> w, buffer |-> <<a, b, c>>, check |-> CalculateCheckSum(<<a, b, c>>, w)]

CrcCall ==
  \E t \in CrcTexts : \E i \in DOMAIN t, error \in Words(8) \ {{}} :
    LET wrong == [t EXCEPT ![i] = Xor(@, error)]
    IN  call' = [fn |-> "crc", crc |-> CalculateCrc32(t), wrong |-> CalculateCrc32(wrong)]

Init == call = Idle
Next ==
  \/ call = Idle /\ (BitFieldCall \/ CountCall \/ MathCall \/ SumCall \/ CrcCall)
  \/ call # Idle /\ call' = Idle
Spec == Init /\ [][Next]_call

(***************************************************************************)
(* A field has the value that was written, or what it had or'ed or and'ed  *)
(* with the data, and no other bit of the word changes, whatever the width *)
(* of the word and of UINTN (BitField.c).                                  *)
(***************************************************************************)
FieldsExact ==
  call.fn = "field" =>
    LET w == call.width
        field  == call.start .. call.end
        placed == { call.start + i : i \in call.data }
        rest   == call.operand \ field
    IN  /\ call.read = { i - call.start : i \in call.operand \cap field }
        /\ call.write = rest \cup placed
        /\ call.or = { call.operand \cup placed }
        /\ call.and = { rest \cup (call.operand \cap placed) }
        /\ call.andOr = rest \cup placed
             \cup (call.operand \cap { call.start + i : i \in call.mask })

(***************************************************************************)
(* Counting finds the ones of the field; rotations are each other's        *)
(* inverse and keep the number of ones; an arithmetic shift divides,       *)
(* rounding down; a checksum makes the sum zero; a CRC tells a buffer from *)
(* one with an error in a byte (BitField.c, Math64.c, CheckSum.c).         *)
(***************************************************************************)
Signed(x, w) == Value(x \ {w - 1}) - IF w - 1 \in x THEN 2 ^ (w - 1) ELSE 0

SumsExact ==
  /\ call.fn = "count" =>
       /\ call.ones = Cardinality(call.operand \cap (call.start .. call.end))
       /\ call.ones64 = call.ones
  /\ call.fn = "math" =>
       /\ \A x \in InternalMathRRotU64(call.left, call.count, call.width) : x = call.operand
       /\ \A x \in InternalMathLRotU64(call.right, call.count, call.width) : x = call.operand
       /\ Cardinality(call.left) = Cardinality(call.operand)
       /\ Signed(call.arithmetic, call.width)
            = Signed(call.operand, call.width) \div 2 ^ call.count
       /\ call.swapped = { 3 - i : i \in call.operand \cap Bits(4) }
  /\ call.fn = "sum" => CalculateSum(Append(call.buffer, call.check), call.width) = 0
  /\ call.fn = "crc" => call.crc # call.wrong

ArithmeticExact == FieldsExact /\ SumsExact
================================================================================
