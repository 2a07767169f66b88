---------------------------- MODULE NameIdentity ----------------------------
(***************************************************************************)
(* The name that a quoted context property stands for.                     *)
(*                                                                         *)
(* kind, arch, isa, vendor and extension traits take names, written as     *)
(* identifiers or as string literals of the base language; duplicates are  *)
(* found by what the literals mean, so their escapes are decoded.  Texts   *)
(* are sequences of bytes here, for the numeric escapes are about bytes.   *)
(* Where a literal begins and ends is the subject of Literals: this module *)
(* has the text between the quotes.                                        *)
(***************************************************************************)
EXTENDS Integers, Sequences, SequencesExt, FiniteSetsExt, TLC

CONSTANTS
    Starts,         \* what the tried texts begin with
    Bytes,          \* what they go on with
    MaxMore         \* bound on the number of further bytes

BytesAssumption == Bytes \subseteq 0 .. 255 /\ MaxMore \in Nat

Apostrophe == 39
DoubleQuote == 34
Backslash == 92
LineFeed == 10
CarriageReturn == 13
OctalDigit == 48 .. 55
\* \' \" \? \\ \a \b \f \n \r \t \v
SimpleEscape ==
    39 :> 39 @@ 34 :> 34 @@ 63 :> 63 @@ 92 :> 92 @@ 97 :> 7 @@ 98 :> 8 @@ 102 :> 12
    @@ 110 :> 10 @@ 114 :> 13 @@ 116 :> 9 @@ 118 :> 11
Hexadecimal == 120                          \* \x
UniversalDigits == 117 :> 4 @@ 85 :> 8      \* \u and \U
MaxScalar == 1114111                        \* 0x10ffff
Surrogate == 55296 .. 57343                 \* 0xd800 .. 0xdfff

Refused == <<256>>      \* std::nullopt: not a sequence of bytes

HexadecimalDigitValue(byte) ==
    CASE byte \in 48 .. 57 -> byte - 48
      [] byte \in 97 .. 102 -> byte - 97 + 10
      [] byte \in 65 .. 70 -> byte - 65 + 10
      [] OTHER -> -1

AppendUtf8Scalar(value) ==
    CASE value > MaxScalar \/ value \in Surrogate -> Refused
      [] value <= 127 -> <<value>>
      [] value \in 128 .. 2047 -> <<192 + (value \div 64), 128 + (value % 64)>>
      [] value \in 2048 .. 65535 /\ value \notin Surrogate ->
            <<224 + (value \div 4096), 128 + ((value \div 64) % 64), 128 + (value % 64)>>
      [] value \in 65536 .. MaxScalar ->
            <<240 + (value \div 262144), 128 + ((value \div 4096) % 64),
              128 + ((value \div 64) % 64), 128 + (value % 64)>>

\* One more digit, refused when the value would pass the limit; -1 stays.
\* (a slip for the checks: the last value that fits is refused)
HexadecimalStepSlip(limit, value, digit) ==
    IF value < 0 \/ digit < 0 \/ value >= (limit - digit) \div 16
    THEN -1 ELSE value * 16 + digit
HexadecimalStep(limit, value, digit) ==
    IF value < 0 \/ digit < 0 \/ value > (limit - digit) \div 16
    THEN -1 ELSE value * 16 + digit
HexadecimalValue(limit, digits) ==
    FoldLeft(LAMBDA value, byte :
                HexadecimalStep(limit, value, HexadecimalDigitValue(byte)), 0, digits)
OctalValue(digits) == FoldLeft(LAMBDA value, byte : value * 8 + byte - 48, 0, digits)

\* The longest run of bytes of a set from a position, at most so many.
RunFrom(content, i, set, most) ==
    SubSeq(content, i, Max({i - 1} \cup
        {j \in i .. Len(content) :
            j < i + most /\ \A k \in i .. j : content[k] \in set}))

\* What one character or escape stands for, and where the text goes on; 0 when
\* it is refused.
NoUnit == [bytes |-> <<>>, next |-> 0]
UnitOf(bytes, next) == IF bytes = Refused THEN NoUnit ELSE [bytes |-> bytes, next |-> next]
ByteOf(value) == IF value \in 0 .. 255 THEN <<value>> ELSE Refused
HexDigit == {byte \in 0 .. 255 : HexadecimalDigitValue(byte) >= 0}
Escape(content, i) ==       \* content[i] follows a backslash
    LET escaped == content[i]
        octal == RunFrom(content, i, OctalDigit, 3)
        hex == RunFrom(content, i + 1, HexDigit, Len(content))
    IN CASE escaped \in DOMAIN SimpleEscape -> UnitOf(<<SimpleEscape[escaped]>>, i + 1)
         [] escaped = LineFeed -> UnitOf(<<>>, i + 1)
         [] escaped = CarriageReturn ->
                UnitOf(<<>>, IF i < Len(content) /\ content[i + 1] = LineFeed
                             THEN i + 2 ELSE i + 1)
         [] escaped \in OctalDigit -> UnitOf(ByteOf(OctalValue(octal)), i + Len(octal))
         [] escaped = Hexadecimal ->
                IF hex = <<>> THEN NoUnit
                ELSE UnitOf(ByteOf(HexadecimalValue(255, hex)), i + 1 + Len(hex))
         [] escaped \in DOMAIN UniversalDigits ->
                LET last == i + UniversalDigits[escaped]
                    value == HexadecimalValue(MaxScalar, SubSeq(content, i + 1, last))
                IN IF last > Len(content) THEN NoUnit
                   ELSE IF value < 0 THEN NoUnit
                   ELSE UnitOf(AppendUtf8Scalar(value), last + 1)
         [] OTHER -> NoUnit
Unit(content, i) ==
    IF content[i] # Backslash THEN UnitOf(<<content[i]>>, i + 1)
    ELSE IF i = Len(content) THEN NoUnit
    ELSE Escape(content, i + 1)

\* decodeCxxStringLiteral: what the content of a literal that is not raw means.
DecodeCxxStringLiteral(content) ==
    LET decoded[i \in 1 .. Len(content) + 1] ==
            IF i = Len(content) + 1 THEN <<>>
            ELSE LET unit == Unit(content, i)
                     rest == IF unit.next = 0 THEN Refused ELSE decoded[unit.next]
                 IN IF rest = Refused THEN Refused ELSE unit.bytes \o rest
    IN decoded[1]

\* The content of a Fortran literal, with each pair of delimiters made one.
FortranIdentity(delimiter, content) ==
    LET second[i \in 1 .. Len(content)] ==
            i > 1 /\ content[i] = delimiter /\ content[i - 1] = delimiter /\ ~second[i - 1]
    IN FoldLeft(LAMBDA identity, i :
                    IF second[i] THEN identity ELSE Append(identity, content[i]),
                <<>>, [i \in 1 .. Len(content) |-> i])

-----------------------------------------------------------------------------
VARIABLES content, start
vars == <<content, start>>
Init == content \in Starts /\ start = Len(content)
Type(byte) ==
    /\ Len(content) < start + MaxMore
    /\ content' = Append(content, byte) /\ UNCHANGED start
Next == \E byte \in Bytes : Type(byte)
Spec == Init /\ [][Next]_vars

Begins(a, b) == SubSeq(content, 1, 2) = <<a, b>>
Digits == SubSeq(content, 3, Len(content))
\* The value of a numeral of few digits, without any limit.
Value(digits) ==
    FoldLeft(LAMBDA value, byte : value * 16 + HexadecimalDigitValue(byte), 0, digits)
AreDigits == \A i \in DOMAIN Digits : Digits[i] \in HexDigit
\* All but the last so many digits are zeros.
Fits(n) == \A i \in 1 .. Len(Digits) - n : Digits[i] = 48
LastDigits(n) == SubSeq(Digits, Max({1, Len(Digits) - n + 1}), Len(Digits))

\* \x takes every digit that follows; it is decoded when there is one and the
\* number is a byte, and refused otherwise: never wrapped, never cut short.
ByteEscapesExact ==
    Begins(Backslash, Hexadecimal) /\ AreDigits =>
        DecodeCxxStringLiteral(content) =
            IF Digits # <<>> /\ Fits(2) THEN <<Value(LastDigits(2))>> ELSE Refused

\* The scalar that a UTF-8 sequence encodes, with the length its first byte
\* announces; -1 for what is no encoding or not the shortest.
ScalarOf(bytes) ==
    LET tail == SubSeq(bytes, 2, Len(bytes))
        lead == bytes[1] - (CASE Len(bytes) = 1 -> 0 [] Len(bytes) = 2 -> 192
                              [] Len(bytes) = 3 -> 224 [] OTHER -> 240)
        value == FoldLeft(LAMBDA v, b : v * 64 + b - 128, lead, tail)
    IN IF /\ Len(bytes) \in 1 .. 4 /\ lead \in 0 .. <<127, 31, 15, 7>>[Len(bytes)]
          /\ \A i \in DOMAIN tail : tail[i] \in 128 .. 191
          /\ value >= <<0, 128, 2048, 65536>>[Len(bytes)]
       THEN value ELSE -1
\* \u and \U take exactly four and eight digits; a scalar value is encoded so
\* that it decodes to itself, a surrogate or a number that is too large is
\* refused.
ScalarEscapesExact ==
    \A e \in DOMAIN UniversalDigits :
        Begins(Backslash, e) /\ AreDigits /\ Len(Digits) <= UniversalDigits[e] =>
           LET identity == DecodeCxxStringLiteral(content) IN
           IF /\ Len(Digits) = UniversalDigits[e] /\ Fits(6)
              /\ Value(LastDigits(6)) <= MaxScalar /\ Value(LastDigits(6)) \notin Surrogate
           THEN ScalarOf(identity) = Value(LastDigits(6))
           ELSE identity = Refused

\* Every name has a literal, in each base language, that means it: escaping
\* quotes and backslashes, or doubling the delimiter, is undone exactly.
Escaping(name) ==
    FlattenSeq([i \in DOMAIN name |->
        IF name[i] \in {DoubleQuote, Backslash} THEN <<Backslash, name[i]>> ELSE <<name[i]>>])
Doubling(delimiter, name) ==
    FlattenSeq([i \in DOMAIN name |->
        IF name[i] = delimiter THEN <<delimiter, delimiter>> ELSE <<name[i]>>])
NamesHaveLiterals ==
    /\ DecodeCxxStringLiteral(Escaping(content)) = content
    /\ \A delimiter \in {Apostrophe, DoubleQuote} :
        FortranIdentity(delimiter, Doubling(delimiter, content)) = content
=============================================================================
