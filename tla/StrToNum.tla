------------------------------ MODULE StrToNum ------------------------------
(***************************************************************************)
(* dmlc::ParseFloat and stof (include/dmlc/strtonum.h) and the fields of    *)
(* type float that they fill (FieldEntry<float>::Set in parameter.h).       *)
(* The constants stand for the limits of the type (38, 3.402823466,         *)
(* 1.175494351, 19 digits, 64 and 32 bits) on a small scale.  Values are    *)
(* exact decimals, integers in units of 10^-Point; rounding is left out,    *)
(* overflow to infinity is not.                                             *)
(***************************************************************************)
EXTENDS Integers, SequencesExt, Functions

CONSTANTS
    Literals,         \* [sp, sign, word, int, point, frac, e, esign, exp, tail]
    kMaxExponent,
    kMaxSignificand,  \* kMaxSignificandForMaxExponent, in tenths
    kMinSignificand,  \* kMaxSignificandForNegMaxExponent, in tenths
    kStrtofMaxDigits,
    Wrap64,           \* uint64_t is modulo this
    Wrap32            \* unsigned is modulo this

\* 10 ^ kStrtofMaxDigits is below Wrap64, and kMaxExponent below Wrap32.

VARIABLES
    errno,   \* is ERANGE
    field,   \* the float in the parameter struct
    lit,     \* the literal of the call that returned last
    checked, \* what stof and Set did with it
    plain,   \* what strtof gives for it
    pc

vars == <<errno, field, lit, checked, plain, pc>>

Point == kStrtofMaxDigits + kMaxExponent
One == 10 ^ Point
MaxFloat == kMaxSignificand * 10 ^ (kMaxExponent - 1) * One
MinFloat == kMinSignificand * 10 ^ (Point - kMaxExponent - 1)
Inf == 2 * 10 ^ 9
NaN == Inf + 1

Digits == ("0" :> 0) @@ ("1" :> 1) @@ ("2" :> 2) @@ ("9" :> 9)
None == [sp |-> <<>>, sign |-> <<>>, word |-> <<>>, int |-> <<>>, point |-> <<>>, frac |-> <<>>,
         e |-> <<>>, esign |-> <<>>, exp |-> <<>>, tail |-> <<>>]
isdigit(c) == c \in DOMAIN Digits

Init ==
    /\ errno = FALSE /\ field = 0 /\ pc = "idle"
    /\ lit = None /\ checked = "none" /\ plain = [val |-> 0, end |-> 1]

---------------------------------------------------------------------------
At(s, i) == IF i <= Len(s) THEN s[i] ELSE "end"

\* The first index from i on whose character is not a digit.
AfterDigits(s, i) ==
    CHOOSE j \in i .. Len(s) + 1 : /\ ~isdigit(At(s, j))
                                   /\ \A k \in i .. j - 1 : isdigit(s[k])

\* The digits of s from i to before j as an integer of the given width.
Unsigned(s, i, j, wrap) ==
    FoldLeft(LAMBDA n, c : (n * 10 + Digits[c]) % wrap, 0, SubSeq(s, i, j - 1))

Sign(s, i) == IF At(s, i) = "-" THEN -1 ELSE 1
AfterSign(s, i) == IF At(s, i) \in {"-", "+"} THEN i + 1 ELSE i

DotMutant(s, p) ==
    LET q == AfterDigits(s, p + 1) IN
    IF At(s, p) # "." THEN [val |-> 0, end |-> p]
    ELSE [val |-> Unsigned(s, p + 1, q, Wrap64) * (One \div 10 ^ kStrtofMaxDigits), end |-> q]

\* The digits after a decimal point at p; those past kStrtofMaxDigits are dropped.
Fraction(s, p) ==
    LET q == AfterDigits(s, p + 1)
        cnt == Min({q - p - 1, kStrtofMaxDigits})
    IN  IF At(s, p) # "." THEN [val |-> 0, end |-> p]
        ELSE [val |-> Unsigned(s, p + 1, p + 1 + cnt, Wrap64) * (One \div 10 ^ cnt), end |-> q]

\* With the largest exponent the significand has a limit of its own.
AtEdge(frac, expon, value) ==
    /\ expon = kMaxExponent
    /\ IF frac THEN 10 * value < kMinSignificand * One ELSE 10 * value > kMaxSignificand * One

Scale(frac, expon, value) ==
    IF frac THEN value \div 10 ^ expon
    ELSE IF value > MaxFloat \div 10 ^ expon THEN Inf ELSE value * 10 ^ expon

\* The exponent of value at p, whose digits end at q: clipped, or a range error
\* when CheckRange.
Clipped(expon) == IF expon > kMaxExponent THEN kMaxExponent ELSE expon
Limit(frac) == (IF frac THEN kMinSignificand ELSE kMaxSignificand) * (One \div 10)
Scaled(frac, expon, value) == Scale(frac, expon, IF AtEdge(frac, expon, value) THEN Limit(frac) ELSE value)
Raised(frac, expon, value, q, CheckRange) ==
    IF CheckRange /\ (expon > kMaxExponent \/ AtEdge(frac, expon, value))
    THEN [val |-> Inf, end |-> q, erange |-> TRUE]
    ELSE [val |-> Scaled(frac, Clipped(expon), value), end |-> q, erange |-> FALSE]
ExponentFrom(s, frac, begin, q, value, CheckRange) ==
    Raised(frac, Unsigned(s, begin, q, Wrap32), value, q, CheckRange)
Exponent(s, p, value, CheckRange) ==
    IF At(s, p) # "e" THEN [val |-> value, end |-> p, erange |-> FALSE]
    ELSE ExponentFrom(s, Sign(s, p + 1) = -1, AfterSign(s, p + 1), AfterDigits(s, AfterSign(s, p + 1)),
                      value, CheckRange)

\* A range error returns at once: without the sign, without the suffix.
WithSign(s, sign, x) ==
    IF x.erange THEN x
    ELSE [val |-> sign * x.val, erange |-> FALSE, end |-> IF At(s, x.end) = "f" THEN x.end + 1 ELSE x.end]
Magnitude(s, integer, f, CheckRange) == Exponent(s, f.end, integer * One + f.val, CheckRange)
Decimal(s, p, dot, CheckRange) == Magnitude(s, Unsigned(s, p, dot, Wrap64), Fraction(s, dot), CheckRange)

\* Where INF or INFINITY at p ends, or p: "inity" is the rest of the longer word and
\* "ini" a part of it, which makes neither.
AfterInfinity(s, p) ==
    IF At(s, p) # "inf" \/ At(s, p + 1) = "ini" THEN p ELSE IF At(s, p + 1) = "inity" THEN p + 2 ELSE p + 1

\* Where NAN or NAN(char_sequence) at p ends, p, or Thrown without the closing bracket.
Thrown == 0
Name == DOMAIN Digits \cup {"e", "f", "x", "_"}
AfterName(s, i) ==
    CHOOSE j \in i .. Len(s) + 1 : At(s, j) \notin Name /\ \A k \in i .. j - 1 : s[k] \in Name
AfterNan(s, p) ==
    IF At(s, p) # "nan" THEN p ELSE IF At(s, p + 1) # "(" THEN p + 1
    ELSE IF At(s, AfterName(s, p + 2)) = ")" THEN AfterName(s, p + 2) + 1 ELSE Thrown

FloatAt(s, sign, p, CheckRange) ==
    IF AfterInfinity(s, p) # p THEN [val |-> sign * Inf, end |-> AfterInfinity(s, p), erange |-> FALSE]
    ELSE IF AfterNan(s, p) # p THEN [val |-> NaN, end |-> AfterNan(s, p), erange |-> FALSE]
    ELSE WithSign(s, sign, Decimal(s, p, AfterDigits(s, p), CheckRange))
AfterSpaces(s) == CHOOSE i \in 1 .. Len(s) + 1 : At(s, i) # " " /\ \A k \in 1 .. i - 1 : s[k] = " "
ParseFloat(s, CheckRange) ==
    FloatAt(s, Sign(s, AfterSpaces(s)), AfterSign(s, AfterSpaces(s)), CheckRange)

Value(r) == [val |-> r.val, end |-> r.end]
strtof(s) == Value(ParseFloat(s, FALSE))

\* The characters of a literal.
Text(l) == l.sp \o l.sign \o l.word \o l.int \o l.point \o l.frac \o l.e \o l.esign \o l.exp \o l.tail

\* FieldEntry<float>::Set with stof, which gave r for s; errno is read, and never
\* cleared.  The field has the value also when characters are left.
Store(s, r) ==
    LET out_of_range == errno' /\ r.val = Inf
    IN  /\ plain' = strtof(s)
        /\ errno' = (errno \/ r.erange)
        /\ field' = IF out_of_range \/ r.end \in {Thrown, 1} THEN field ELSE r.val
        /\ checked' = IF r.end = Thrown THEN "thrown"
                      ELSE IF out_of_range THEN "out of range"
                      ELSE IF r.end = 1 THEN "invalid"
                      ELSE IF r.end <= Len(s) THEN "trailing" ELSE "ok"
Set ==
    /\ pc = "idle" /\ pc' = "returned"
    /\ \E l \in Literals : lit' = l /\ Store(Text(l), ParseFloat(Text(l), TRUE))

\* The next call is for another struct; errno is the thread's.
Return ==
    /\ pc = "returned" /\ pc' = "idle"
    /\ lit' = None /\ checked' = "none" /\ plain' = [val |-> 0, end |-> 1] /\ field' = 0
    /\ UNCHANGED errno

Next == Set \/ Return

Spec == Init /\ [][Next]_vars

---------------------------------------------------------------------------
\* What a literal denotes, from its parts; trailing digits are ignored.
Nat_(digits) == FoldLeft(LAMBDA n, c : n * 10 + Digits[c], 0, digits)
Significand(l) ==
    LET kept == SubSeq(l.frac, 1, Min({Len(l.frac), kStrtofMaxDigits})) IN
    Nat_(l.int) * One + Nat_(kept) * (One \div 10 ^ Len(kept))
Neg(l) == l.esign = <<"-">>
Denoted(l) == IF Neg(l) THEN Significand(l) \div 10 ^ Nat_(l.exp) ELSE Significand(l) * 10 ^ Nat_(l.exp)
Signed(l, v) == IF l.sign = <<"-">> THEN -v ELSE v
IsNumber(l) == l.word = <<>> /\ l.int \o l.frac # <<>>
Fits(l) == IsNumber(l) /\ Nat_(l.int) < Wrap64
\* One digit other than 0 before the decimal point.
Normalised(l) == Fits(l) /\ Nat_(l.int) \in 1 .. 9
BelowMax(l) == Significand(l) * 10 <= kMaxSignificand * One
AboveMin(l) == Significand(l) * 10 >= kMinSignificand * One
InRange(l) ==
    LET n == Nat_(l.exp) IN
    n < kMaxExponent \/ (n = kMaxExponent /\ IF Neg(l) THEN AboveMin(l) ELSE BelowMax(l))

Returned == pc = "returned"

(* The end that strtof reports lies within the text or one past it. *)
TypeOK ==
    /\ errno \in BOOLEAN /\ pc \in {"idle", "returned"}
    /\ checked \in {"none", "ok", "trailing", "invalid", "out of range", "thrown"}
    /\ plain.end \in IF checked = "thrown" THEN {Thrown} ELSE 1 .. Len(Text(lit)) + 1

(* A literal with an exponent below the largest one, with digits before the
   point that fit 64 bits and a value that fits, is stored as exactly what it denotes; only characters after
   it make Set fail, and strtof gives the same. *)
ExactInside ==
    Returned /\ Fits(lit) /\ Nat_(lit.exp) < kMaxExponent
        /\ Significand(lit) <= MaxFloat \div 10 ^ Nat_(lit.exp)
    => /\ field = Signed(lit, Denoted(lit)) /\ plain.val = field
       /\ checked = (IF lit.tail \in {<<>>, <<"f">>} THEN "ok" ELSE "trailing")

(* For a literal with one digit other than 0 before the point, the range error
   is raised exactly when the value is above the largest or below the smallest
   normal float. *)
RangeExact ==
    Returned /\ Normalised(lit) => ((checked = "out of range") <=> ~InRange(lit))

(* Without the range check such a literal gives a finite value within the
   limits of the type, with its sign. *)
ClippedInside ==
    Returned /\ Normalised(lit)
        => Signed(lit, plain.val) \in MinFloat .. MaxFloat

(* A word is taken whole or not at all: INF, INFINITY and NAN, with a name in
   brackets or without, to their end; of a part of INFINITY nothing is taken; and
   only a bracket that is not closed throws. *)
WordsWhole ==
    Returned /\ lit.word # <<>> =>
        LET begin == Len(lit.sp) + Len(lit.sign) + 1
            end == begin + Len(lit.word)
        IN  /\ lit.word \in {<<"inf">>, <<"inf", "inity">>} => plain = [val |-> Signed(lit, Inf), end |-> end]
            /\ lit.word = <<"inf", "ini">> => plain = [val |-> 0, end |-> begin] /\ checked # "ok"
            /\ Head(lit.word) = "nan" /\ checked # "thrown" => plain = [val |-> NaN, end |-> end]
            /\ checked = "thrown" <=> "(" \in ToSet(lit.word) /\ ")" \notin ToSet(lit.word)

(* A range error is about the value at hand: infinity written as such is in
   range. *)
OwnRangeError == Returned /\ lit.word = <<"inf">> => checked # "out of range"

(* Zero is in range whatever its exponent. *)
ZeroInRange == Returned /\ IsNumber(lit) /\ Significand(lit) = 0 => checked # "out of range"

(* A value above the largest float is an error. *)
OverflowReported ==
    Returned /\ Fits(lit) /\ ~Neg(lit) /\ Significand(lit) > MaxFloat \div 10 ^ Nat_(lit.exp)
        => checked = "out of range"

(* A text with no number in it is an error. *)
NoNumberReported == Returned /\ ~IsNumber(lit) /\ lit.word = <<>> => checked \notin {"ok"}
============================================================================
