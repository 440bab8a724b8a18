------------------------------ MODULE UnixTime ------------------------------
(***************************************************************************)
(* Times as decimal numbers of seconds, milliseconds, microseconds or      *)
(* nanoseconds (common/json_timeunix.go, json_time.go).  A word of 64 bits *)
(* and nine digits of fraction are parameters; a unit is the power of ten  *)
(* that scales a second to it.                                             *)
(***************************************************************************)
EXTENDS Integers, Sequences, FiniteSetsExt

CONSTANTS
  Second,         \* nanoseconds in a second, a power of ten
  Word,           \* values of an unsigned integer
  ZeroTime        \* Go's zero time, the year 1

\* Ten to the power of n.
Pow10[n \in Nat] == IF n = 0 THEN 1 ELSE 10 * Pow10[n - 1]

ASSUME SecondAssumption == \E n \in 1 .. 9 : Second = Pow10[n]
ASSUME WordAssumption == \E w \in 2 .. 64 : Word = 2 ^ w
ASSUME SizesAssumption == Second \in Nat \ {0, 1} /\ Word \in Nat \ {0} /\ Word % 2 = 0
\* As in the code, a second's worth of seconds in nanoseconds fits a word, and the largest
\* integer begins with the digit 1.
ASSUME FitAssumption ==
  /\ Second * Second < Word
  /\ \E n \in 1 .. 19 : Pow10[n] < Word /\ Word < 2 * Pow10[n]

Units == {u \in {Pow10[n] : n \in 0 .. 9} : u <= Second}

\* An instant: seconds of either sign, and nanoseconds after them.
Times == [sec : -(Word \div 2) .. (Word \div 2) - 1, nsec : 0 .. Second - 1]
Time(sec, nsec) == [sec |-> sec, nsec |-> nsec]
Epoch == Time(0, 0)

\* A text: sign, digits, and the point with what follows it.  Other is a character that is no digit.
Other == 10
Text(neg, whole, dot, frac) == [neg |-> neg, whole |-> whole, dot |-> dot, frac |-> frac]
NoText == Text(FALSE, <<>>, FALSE, <<>>)
TextZero == Text(FALSE, <<0>>, FALSE, <<>>)

Log10(n) == CHOOSE l \in 0 .. 9 : Pow10[l] = n

\* Conversions between int64 and uint64.
ToInt(u)  == IF u < Word \div 2 THEN u ELSE u - Word
ToUint(i) == i % Word

\* strconv.AppendUint.
Digits(n) ==
  LET w == CHOOSE w \in 1 .. 20 : n < Pow10[w] /\ (w = 1 \/ Pow10[w - 1] <= n)
  IN  [i \in 1 .. w |-> (n \div Pow10[w - i]) % 10]

\* The value of the first digits, zeros where there are none.
DigitAt(b, i) == IF i \in DOMAIN b THEN b[i] ELSE 0

Padded(b, width) ==
  LET value[i \in Nat] == IF i = 0 THEN 0 ELSE 10 * value[i - 1] + DigitAt(b, i)
  IN  value[width]

TrimZeros(b) == SubSeq(b, 1, Max({0} \cup {i \in DOMAIN b : b[i] # 0}))

---------------------------------------------------------------------------
\* Encoding.

\* Mutation: the nanoseconds keep their sign.
Negate_seconds(t) == Time(ToInt(ToUint(-t.sec)), t.nsec)

\* The complement plus one, the one going to the nanoseconds if there are any.
Negate(t) ==
  LET nsec == Second - t.nsec
  IN  Time(ToInt(ToUint(-t.sec - 1 + nsec \div Second)), nsec % Second)

AppendPadded(n, max) ==
  IF n < max \div 10 THEN [Digits(n + max \div 10) EXCEPT ![1] = @ - 1] ELSE Digits(n)

AppendFrac(n, max) == IF n = 0 THEN <<>> ELSE TrimZeros(AppendPadded(n, max))

\* The three cases of appendTimeUnix, by what would overflow.
AppendTime(t, unit) ==
  LET a     == IF t.sec < 0 THEN Negate(t) ELSE t
      sec   == ToUint(a.sec)
      frac  == AppendFrac((a.nsec * unit) % Second, Second)
      whole == IF unit = 1 THEN Digits(sec)
               ELSE IF sec < Second THEN Digits(sec * unit + a.nsec \div (Second \div unit))
               ELSE Digits(sec) \o AppendPadded(a.nsec \div (Second \div unit), unit)
      first == IF unit = 1 THEN AppendFrac(a.nsec, Second) ELSE frac
  IN  Text(t.sec < 0, whole, first # <<>>, first)

---------------------------------------------------------------------------
\* Decoding.

\* strconv's digits of the largest word.
UintWidth == Len(Digits(Word - 1))

\* The value of digits in a word, which may overflow.
Wrapped(b) ==
  LET value[i \in Nat] == IF i = 0 THEN 0 ELSE (10 * value[i - 1] + DigitAt(b, i)) % Word
  IN  value[Len(b)]

ParseUint(b) ==
  LET v == Wrapped(b)
  IN  CASE b = <<>> \/ (\E i \in DOMAIN b : b[i] = Other) \/ (b[1] = 0 /\ b # <<0>>) ->
             [value |-> 0, ok |-> FALSE]
        [] OTHER ->
             IF Len(b) >= UintWidth /\ (b[1] # 1 \/ v < Pow10[UintWidth - 1] \/ Len(b) > UintWidth)
             THEN [value |-> Word - 1, ok |-> FALSE]
             ELSE [value |-> v, ok |-> TRUE]

\* Digits beyond the precision are read and dropped.
ParseFrac(text, max) ==
  IF ~text.dot THEN [value |-> 0, ok |-> TRUE]
  ELSE [value |-> Padded(text.frac, Log10(max)),
        ok    |-> text.frac # <<>> /\ \A i \in DOMAIN text.frac : text.frac[i] # Other]

\* Mutation: a whole part that overflows a word is an error for every unit.
ParseTime_noSplit(text, unit) ==
  LET whole == ParseUint(text.whole)
      frac  == ParseFrac(text, Second \div unit)
      t     == Time(ToInt(whole.value \div unit),
                    (whole.value % unit) * (Second \div unit) + frac.value)
      n     == IF text.neg THEN Negate(t) ELSE t
  IN  IF whole.ok /\ frac.ok /\ text.neg = (n.sec < 0) THEN {n} ELSE {}

\* The three cases of parseTimeUnix; {} is an error.
ParseTime(text, unit) ==
  LET whole == ParseUint(text.whole)
      frac  == ParseFrac(text, Second \div unit)
      over  == unit # 1 /\ ~whole.ok /\ whole.value = Word - 1
      cut   == Len(text.whole) - Log10(unit)
      upper == IF over THEN ParseUint(SubSeq(text.whole, 1, cut)) ELSE whole
      mid   == Padded(SubSeq(text.whole, cut + 1, Len(text.whole)), Log10(unit))
      t     == IF over THEN Time(ToInt(upper.value), mid * (Second \div unit) + frac.value)
               ELSE Time(ToInt(whole.value \div unit),
                         (whole.value % unit) * (Second \div unit) + frac.value)
      n     == IF text.neg THEN Negate(t) ELSE t
  IN  IF upper.ok /\ frac.ok /\ text.neg = (n.sec < 0) THEN {n} ELSE {}

\* A field or column of Unix seconds: Kraken's "not set" forms stand for the zero time.
MarshalUnixTime(t) == IF t = ZeroTime THEN TextZero ELSE AppendTime(t, 1)
UnmarshalUnixTime(text) == IF text \in {NoText, TextZero} THEN {ZeroTime} ELSE ParseTime(text, 1)

---------------------------------------------------------------------------
\* What a text means: the point moved to the left of the unit's digits.

IsNumber(text) ==
  /\ text.whole # <<>> /\ (text.whole[1] = 0 => Len(text.whole) = 1)
  /\ text.dot => text.frac # <<>>
  /\ \A i \in DOMAIN text.whole : text.whole[i] # Other
  /\ \A i \in DOMAIN text.frac : text.frac[i] # Other

Meaning(text, unit) ==
  LET l     == Log10(unit)
      all   == [i \in 1 .. l |-> 0] \o text.whole
      front == SubSeq(all, 1, Len(all) - l)
      sec   == Padded(front, Len(front))
      nsec  == Padded(SubSeq(all, Len(all) - l + 1, Len(all)) \o text.frac, Log10(Second))
  IN  IF ~text.neg THEN Time(sec, nsec)
      ELSE IF nsec = 0 THEN Time(-sec, 0) ELSE Time(-sec - 1, Second - nsec)
=============================================================================
