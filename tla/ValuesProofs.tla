---------------------------- MODULE ValuesProofs ----------------------------
(***************************************************************************)
(* For every scale, every sample and every content of other columns: a     *)
(* uint64_t other than zero that is written to a NUMERIC column is         *)
(* accepted and reads back as it was.                                      *)
(***************************************************************************)
EXTENDS Values, SequenceTheorems, TLAPS

(* A 16-bit word counts to fifteen and more.                                *)
LEMMA ScaleFacts ==
    /\ Word \in Nat /\ Word >= 16 /\ Wide \in Nat /\ Wide >= 16
    /\ Base \in Nat /\ Base >= 2 /\ Base <= Word
<1>1. Word \in Nat /\ Word >= 16
  <2>1. \A b \in Nat : b >= 4 => b * b >= 16
    OBVIOUS
  <2> QED BY <2>1, ScaleAssumption DEF Word
<1>2. \A a, b \in Nat : a >= 16 /\ b >= 16 => a * b \in Nat /\ a * b >= 16
  OBVIOUS
<1>3. Wide \in Nat /\ Wide >= 16
  <2>1. Word * Word \in Nat /\ Word * Word >= 16
    BY <1>1, <1>2
  <2>2. (Word * Word) * Word \in Nat /\ (Word * Word) * Word >= 16
    BY <1>1, <1>2, <2>1
  <2>3. ((Word * Word) * Word) * Word \in Nat /\ ((Word * Word) * Word) * Word >= 16
    BY <1>1, <1>2, <2>2
  <2> QED BY <2>3 DEF Wide
<1> QED BY <1>1, <1>3, ScaleAssumption

(* A division by the base and its remainder make up the number.             *)
LEMMA DivMod ==
    ASSUME NEW x \in Nat, NEW b \in Nat, b >= 2
    PROVE  /\ x \div b \in Nat /\ x % b \in 0..b-1
           /\ x = (x \div b) * b + (x % b)
           /\ (x \div b) * b <= x
OBVIOUS

(* A number below the modulus is its own remainder.                         *)
LEMMA SmallMod ==
    ASSUME NEW x \in Nat, NEW m \in Nat, x < m
    PROVE  x % m = x
OBVIOUS

(* Multiplication keeps the order of natural numbers.                       *)
LEMMA Monotone ==
    ASSUME NEW x \in Nat, NEW y \in Nat, NEW p \in Nat, x <= y
    PROVE  x * p <= y * p
OBVIOUS

(* Multiplication is associative.                                           *)
LEMMA Associates ==
    ASSUME NEW a \in Nat, NEW b \in Nat, NEW p \in Nat
    PROVE  a * (b * p) = (a * b) * p
OBVIOUS

(* Counts of digits keep their value in a signed 16-bit word.               *)
LEMMA SmallCounts ==
    ASSUME NEW x \in 0..5
    PROVE  Cast(x, "int16") = x /\ x % Word = x
<1>1. /\ Word \div 2 \in Nat /\ Word \div 2 >= 8 /\ Word \div 2 <= Word - 8
  BY ScaleFacts
<1>2. Span["int16"] = Word
  BY DEF Span
<1>3. Lowest("int16") = -(Word \div 2)
  BY <1>2 DEF Lowest
<1>4. Cast(x, "int16") = ((x + (Word \div 2)) % Word) - (Word \div 2)
  <2>1. Cast(x, "int16") = ((x - (-(Word \div 2))) % Word) + (-(Word \div 2))
    BY <1>2, <1>3 DEF Cast
  <2>2. \A a \in Int : a - (-(Word \div 2)) = a + (Word \div 2)
    BY <1>1
  <2>3. (x + (Word \div 2)) % Word \in Int
    BY <1>1, ScaleFacts
  <2> QED BY <1>1, <2>1, <2>2, <2>3
<1>5. (x + (Word \div 2)) % Word = x + (Word \div 2)
  BY <1>1, ScaleFacts, SmallMod
<1>6. x % Word = x
  BY ScaleFacts, SmallMod
<1> QED BY <1>1, <1>4, <1>5, <1>6

(* Five digits are enough: their place values reach past 64 bits.           *)
LEMMA PowerFacts ==
    /\ Power[1] = Base /\ Power[5] >= Wide
    /\ \A j \in 1..5 : Power[j] \in Nat /\ Power[j] >= 1
    /\ \A j \in 1..4 : Power[j + 1] = Base * Power[j]
<1> DEFINE p2 == Base * Base  p3 == p2 * Base  p4 == p3 * Base  p5 == p4 * Base
<1>1. \A a \in Nat : a >= 1 => a * Base \in Nat /\ a * Base >= 1
  BY ScaleFacts
<1>2. Power = <<Base, p2, p3, p4, p5>>
  BY DEF Power
<1>3. p2 \in Nat /\ p2 >= 1
  BY <1>1, ScaleFacts
<1>4. p3 \in Nat /\ p3 >= 1
  BY <1>1, <1>3
<1>5. p4 \in Nat /\ p4 >= 1
  BY <1>1, <1>4
<1>6. p5 \in Nat /\ p5 >= 1
  BY <1>1, <1>5
<1>7. p5 >= Wide
  BY ScaleAssumption
<1>8. /\ Power[1] = Base /\ Power[2] = p2 /\ Power[3] = p3 /\ Power[4] = p4 /\ Power[5] = p5
  BY <1>2
<1>9. \A a \in Nat : a * Base = Base * a
  BY ScaleFacts
<1>10. p2 = Base * Base /\ p3 = Base * p2 /\ p4 = Base * p3 /\ p5 = Base * p4
  BY <1>3, <1>4, <1>5, <1>9
<1> HIDE DEF p2, p3, p4, p5
<1>11. \A j \in 1..5 : Power[j] \in Nat /\ Power[j] >= 1
  BY <1>3, <1>4, <1>5, <1>6, <1>8, ScaleFacts
<1>12. \A j \in 1..4 : Power[j + 1] = Base * Power[j]
  BY <1>8, <1>10
<1> QED BY <1>7, <1>8, <1>11, <1>12

(* Splitting one more digit off leaves at most the value.                   *)
LEMMA PowerGrows ==
    ASSUME NEW x \in Nat, NEW bound \in Nat, NEW l \in 1..4, x * Power[l] <= bound
    PROVE  (x \div Base) * Power[l + 1] <= bound
<1> DEFINE d == x \div Base
<1>1. d \in Nat /\ d * Base <= x
  BY ScaleFacts, DivMod
<1>2. Power[l] \in Nat /\ Power[l + 1] = Base * Power[l]
  BY PowerFacts
<1> HIDE DEF d
<1>3. d * Power[l + 1] = (d * Base) * Power[l]
  BY <1>1, <1>2, ScaleFacts, Associates
<1>4. d * Base \in Nat
  BY <1>1, ScaleFacts
<1>5. (d * Base) * Power[l] <= x * Power[l]
  BY <1>1, <1>2, <1>4, Monotone
<1>6. /\ (d * Base) * Power[l] \in Nat /\ x * Power[l] \in Nat
  BY <1>1, <1>2, <1>4
<1> QED BY <1>3, <1>5, <1>6 DEF d

-----------------------------------------------------------------------------
(* What the bytes of a sent value say.                                      *)
LEMMA SentWire ==
    ASSUME RoundTripInv, Sent, raw # <<>>
    PROVE  /\ Len(raw) \in 1..5 /\ Len(wire) = 4 + Len(raw)
           /\ wire[1] = Len(raw) /\ wire[2] = weight /\ wire[3] = 0 /\ wire[4] = 0
           /\ \A j \in 1..Len(raw) : wire[4 + j] = raw[j]
           /\ v = 0 /\ quot # <<>> /\ weight = Len(quot) - 1 /\ Len(quot) \in 1..5
<1>1. raw \in Seq(Nat) /\ quot \in Seq(Nat) /\ Len(raw) <= Len(quot) /\ Len(quot) <= 5
  BY DEF RoundTripInv, Quotients
<1>2. Len(raw) \in 1..5 /\ Len(quot) \in 1..5 /\ quot # <<>>
  <2>1. Len(raw) \in Nat \ {0} /\ Len(quot) \in Nat
    BY <1>1, EmptySeq, LenProperties
  <2>2. Len(<<>>) = 0
    OBVIOUS
  <2>3. Len(raw) \in 1..5 /\ Len(quot) \in 1..5
    <3> DEFINE lr == Len(raw)  lq == Len(quot)
    <3>1. lr \in Nat /\ lr # 0 /\ lq \in Nat /\ lr <= lq /\ lq <= 5
      BY <1>1, <2>1
    <3> HIDE DEF lr, lq
    <3>2. lr \in 1..5 /\ lq \in 1..5
      BY <3>1
    <3> QED BY <3>2 DEF lr, lq
  <2>4. quot # <<>>
    <3> SUFFICES ASSUME quot = <<>> PROVE FALSE
      OBVIOUS
    <3>1. Len(quot) = 0
      BY <2>2
    <3> QED BY <2>3, <3>1
  <2> QED BY <2>3, <2>4
<1>3. v = 0 /\ weight = Len(quot) - 1
  BY <1>2 DEF RoundTripInv, Phases, Sent, Encoding
<1>4. wire = <<Len(raw), weight, 0, 0>> \o raw
  BY DEF RoundTripInv, Phases
<1> DEFINE h == <<Len(raw), weight, 0, 0>>
<1>5. h \in Seq(Int) /\ Len(h) = 4 /\ raw \in Seq(Int)
  <2>1. Len(raw) \in Int /\ weight \in Int
    BY <1>2, <1>3
  <2> QED BY <1>1, <2>1
<1>6. h[1] = Len(raw) /\ h[2] = weight /\ h[3] = 0 /\ h[4] = 0
  OBVIOUS
<1> HIDE DEF h
<1>7. Len(h \o raw) = 4 + Len(raw)
  <2>1. Len(h \o raw) = Len(h) + Len(raw)
    BY <1>5, ConcatProperties
  <2> QED BY <1>2, <1>5, <2>1
<1> DEFINE both == h \o raw
<1>a. \A j \in 1..4 + Len(raw) : both[j] = IF j <= 4 THEN h[j] ELSE raw[j - 4]
  <2>1. \A j \in 1..Len(h) + Len(raw) : both[j] = IF j <= Len(h) THEN h[j] ELSE raw[j - Len(h)]
    BY <1>5, ConcatProperties
  <2>2. Len(h) = 4
    BY <1>5
  <2> QED BY <2>1, <2>2, <1>2
<1> HIDE DEF both
<1>8. both[1] = h[1] /\ both[2] = h[2] /\ both[3] = h[3] /\ both[4] = h[4]
  <2>1. 1 \in 1..4 + Len(raw) /\ 2 \in 1..4 + Len(raw) /\ 3 \in 1..4 + Len(raw) /\ 4 \in 1..4 + Len(raw)
    BY <1>2
  <2> QED BY <1>a, <2>1
<1>9. ASSUME NEW j \in 1..Len(raw) PROVE both[4 + j] = raw[j]
  <2>1. 4 + j \in 1..4 + Len(raw) /\ ~(4 + j <= 4) /\ (4 + j) - 4 = j
    BY <1>2
  <2> QED BY <1>a, <2>1
<1>10. wire = both /\ wire = h \o raw
  BY <1>4 DEF h, both
<1> QED BY <1>2, <1>3, <1>6, <1>7, <1>8, <1>9, <1>10

(* and what as<uint64_t> makes of its counts.                               *)
LEMMA SentCounts ==
    ASSUME RoundTripInv, Sent, raw # <<>>
    PROVE  Ndigits = Len(raw) /\ Trailing = Len(quot) - Len(raw)
<1>1. /\ Len(raw) \in 1..5 /\ wire[1] = Len(raw) /\ wire[2] = weight
      /\ weight = Len(quot) - 1 /\ Len(quot) \in 1..5
  BY SentWire
<1>2. Ndigits = Len(raw)
  <2>1. wire[1] \in 0..5
    BY <1>1
  <2>2. Cast(wire[1], "int16") = wire[1]
    BY <2>1, SmallCounts
  <2> QED BY <1>1, <2>2 DEF Ndigits
<1>3. Weight = weight
  <2>1. wire[2] \in 0..5
    BY <1>1
  <2>2. Cast(wire[2], "int16") = wire[2]
    BY <2>1, SmallCounts
  <2> QED BY <1>1, <2>2 DEF Weight
<1> QED BY <1>1, <1>2, <1>3 DEF Trailing

(* The server takes it for a NUMERIC.                                       *)
LEMMA SentIsNumeric ==
    ASSUME RoundTripInv, Sent, raw # <<>>
    PROVE  IsNumeric(wire)
<1>1. /\ Len(raw) \in 1..5 /\ Len(wire) = 4 + Len(raw)
      /\ wire[1] = Len(raw) /\ wire[3] = 0 /\ wire[4] = 0
      /\ \A j \in 1..Len(raw) : wire[4 + j] = raw[j]
  BY SentWire
<1>2. 0 \in Signs
  <2>1. Word \div 16 \in Int
    BY ScaleFacts
  <2>2. 0 * (Word \div 16) = 0
    BY <2>1
  <2> QED BY <2>2 DEF Signs
<1>3. 0 < Word \div 4
  BY ScaleFacts
<1>4. ASSUME NEW j \in 5..Len(wire) PROVE wire[j] < Base
  <2>1. j - 4 \in 1..Len(raw) /\ 4 + (j - 4) = j
    BY <1>1
  <2>2. wire[j] = raw[j - 4]
    BY <2>1, <1>1
  <2>3. raw[j - 4] \in 0..Base-1
    BY <2>1 DEF RoundTripInv, Quotients
  <2> QED BY <2>2, <2>3, ScaleFacts
<1> QED BY <1>1, <1>2, <1>3, <1>4 DEF IsNumeric

(* The initial states.                                                      *)
LEMMA InitInvariant == Init => RoundTripInv
<1> SUFFICES ASSUME Init PROVE RoundTripInv
  OBVIOUS
<1>1. /\ v = 0 /\ raw = <<>> /\ quot = <<>> /\ result = 0 /\ k = 0
      /\ pc \in {"normalize", "row"}
  BY DEF Init
<1>2. type \in Types \cup {"none"} /\ (pc = "row" => type = "none")
      /\ (pc = "normalize" => column = "none" /\ type \in Types)
  BY DEF Init
<1>3. type = "uint64" => value \in 0..Wide-1
  <2> SUFFICES ASSUME type = "uint64" PROVE value \in 0..Wide-1
    OBVIOUS
  <2>1. value \in Int /\ Fits(value, type)
    BY SamplesAssumption DEF Init
  <2>2. Lowest(type) = 0 /\ Span[type] = Wide
    BY DEF Lowest, Span
  <2> QED BY <2>1, <2>2, ScaleFacts DEF Fits
<1>4. Quotients
  <2>1. Len(raw) = 0 /\ Len(quot) = 0
    BY <1>1
  <2> QED BY <1>1, <2>1 DEF Quotients
<1>5. Phases
  BY <1>1, <1>2 DEF Phases, Sent, Encoding
<1>6. Climbs
  BY <1>1 DEF Climbs, Encoding
<1>7. NumericReadsBack
  BY <1>1 DEF NumericReadsBack, Done
<1>8. v \in Nat /\ raw \in Seq(Nat) /\ quot \in Seq(Nat)
  BY <1>1
<1> QED BY <1>2, <1>3, <1>4, <1>5, <1>6, <1>7, <1>8 DEF RoundTripInv

-----------------------------------------------------------------------------
(* Steps that leave the encoder alone owe the three other parts.            *)
LEMMA Untouched ==
    ASSUME RoundTripInv, UNCHANGED <<type, value, encoder>>, Phases', Climbs', NumericReadsBack'
    PROVE  RoundTripInv'
<1>1. UNCHANGED <<type, value, v, raw, quot, weight>>
  BY DEF encoder
<1>2. Quotients'
  BY <1>1 DEF RoundTripInv, Quotients
<1>3. /\ (type \in Types \cup {"none"})' /\ (type = "uint64" => value \in 0..Wide-1)'
      /\ (v \in Nat /\ raw \in Seq(Nat) /\ quot \in Seq(Nat))'
  BY <1>1 DEF RoundTripInv
<1> QED BY <1>2, <1>3 DEF RoundTripInv

(* A parameter that is no uint64_t.                                         *)
LEMMA SendsOther ==
    ASSUME RoundTripInv, pc = "normalize", pc' = "bind", type # "uint64",
           UNCHANGED <<type, value, encoder, column, decoder>>
    PROVE  RoundTripInv'
<1>1. UNCHANGED <<type, value, v, raw, quot, weight, column, reader, result, k, answer>>
  BY DEF encoder, decoder
<1>2. Phases'
  BY <1>1 DEF RoundTripInv, Phases, Sent, Encoding
<1>3. Climbs'
  BY <1>1 DEF RoundTripInv, Climbs, Encoding
<1>4. NumericReadsBack'
  BY <1>1 DEF NumericReadsBack
<1> QED BY <1>2, <1>3, <1>4, Untouched

(* Zero leaves without digits; NumericReadsBack does not speak of it.       *)
LEMMA ZeroSent ==
    ASSUME RoundTripInv, EncodeZero
    PROVE  RoundTripInv'
<1>1. /\ UNCHANGED <<type, value, encoder>>
      /\ UNCHANGED <<type, value, v, raw, quot, weight, column, reader, result, k, answer>>
      /\ pc = "normalize" /\ pc' = "bind" /\ type = "uint64" /\ value = 0 /\ wire' = <<ZeroWord>>
  BY DEF EncodeZero, Encoded, encoder, decoder
<1>2. Phases'
  BY <1>1 DEF RoundTripInv, Phases, Sent, Encoding
<1>3. Climbs'
  BY <1>1 DEF RoundTripInv, Climbs, Encoding
<1>4. NumericReadsBack'
  BY <1>1 DEF NumericReadsBack, Done
<1> QED BY <1>1, <1>2, <1>3, <1>4, Untouched

(* Before the first digit the value is all that is left.                    *)
LEMMA DigitsBegin ==
    ASSUME RoundTripInv, BeginDigits
    PROVE  RoundTripInv'
<1>1. /\ UNCHANGED <<type, value, raw, quot, weight, wire, column, reader, result, k, answer>>
      /\ pc = "normalize" /\ pc' = "split" /\ type = "uint64" /\ value # 0 /\ v' = value
  BY DEF BeginDigits, decoder
<1>2. raw = <<>> /\ quot = <<>> /\ value \in 0..Wide-1 /\ value > 0
  BY <1>1, ScaleFacts DEF RoundTripInv, Phases
<1>3. Quotients'
  <2>1. Len(raw') = 0 /\ Len(quot') = 0
    BY <1>1, <1>2
  <2> QED BY <1>1, <1>2, <2>1 DEF Quotients
<1>4. Phases'
  <2>1. Len(raw') = Len(quot')
    BY <1>1, <1>2
  <2> QED BY <1>1, <1>2, <2>1 DEF RoundTripInv, Phases, Sent, Encoding
<1>5. Climbs'
  BY <1>1 DEF RoundTripInv, Climbs, Sent, Encoding
<1>6. NumericReadsBack'
  BY <1>1 DEF NumericReadsBack, Done
<1>7. v' \in Nat /\ raw' \in Seq(Nat) /\ quot' \in Seq(Nat)
  BY <1>1, <1>2, ScaleFacts
<1>8. /\ (type \in Types \cup {"none"})' /\ (type = "uint64" => value \in 0..Wide-1)'
  BY <1>1 DEF RoundTripInv
<1> QED BY <1>3, <1>4, <1>5, <1>6, <1>7, <1>8 DEF RoundTripInv

(* The value of another digit goes in front; five are never exceeded.       *)
LEMMA DigitSplit ==
    ASSUME RoundTripInv, SplitDigit
    PROVE  RoundTripInv'
<1> DEFINE d == v % Base
           q == v \div Base
<1>1. /\ UNCHANGED <<pc, type, value, weight, wire, column, reader, result, k, answer>>
      /\ pc = "split" /\ v > 0 /\ v' = q
      /\ raw' = <<d>> \o raw /\ quot' = <<v>> \o quot
  BY DEF SplitDigit, decoder
<1>2. /\ v \in Nat /\ raw \in Seq(Nat) /\ quot \in Seq(Nat) /\ value \in Nat /\ value < Wide
      /\ type = "uint64" /\ Len(raw) = Len(quot) /\ (quot = <<>> => v = value) /\ value > 0
  BY <1>1, ScaleFacts DEF RoundTripInv, Phases
<1>3. q \in Nat /\ d \in 0..Base-1 /\ d \in Nat /\ v = q * Base + d /\ q * Base <= v
  <2>1. v \in Nat /\ Base \in Nat /\ Base >= 2
    BY <1>2, ScaleFacts
  <2>2. /\ v \div Base \in Nat /\ v % Base \in 0..Base-1
        /\ v = (v \div Base) * Base + (v % Base) /\ (v \div Base) * Base <= v
    BY <2>1, DivMod
  <2>3. v % Base \in Nat
    BY <2>1, <2>2
  <2> QED BY <2>2, <2>3
<1> HIDE DEF d, q
<1>4. Len(quot) \in 0..4 /\ (quot # <<>> => Len(quot) \in 1..4)
  <2>1. Len(quot) \in Nat /\ Len(quot) <= 5 /\ (quot # <<>> => Len(quot) # 0)
    BY <1>2, EmptySeq, LenProperties DEF RoundTripInv, Quotients
  <2>2. Len(quot) # 5
    <3> SUFFICES ASSUME Len(quot) = 5 PROVE FALSE
      OBVIOUS
    <3>1. quot # <<>>
      <4> SUFFICES ASSUME quot = <<>> PROVE FALSE
        OBVIOUS
      <4>1. Len(<<>>) = 0
        OBVIOUS
      <4> QED BY <4>1
    <3>2. v * Power[5] <= value
      BY <3>1 DEF RoundTripInv, Quotients
    <3>3. 1 * Power[5] <= v * Power[5]
      <4>1. Power[5] \in Nat
        BY PowerFacts
      <4>2. 1 \in Nat /\ v \in Nat /\ 1 <= v
        BY <1>1, <1>2
      <4> QED BY <4>1, <4>2, Monotone
    <3>4. Power[5] \in Nat /\ Power[5] >= Wide
      BY PowerFacts
    <3>5. v * Power[5] \in Nat
      BY <1>2, <3>4
    <3>6. 1 * Power[5] = Power[5]
      BY <3>4
    <3> QED BY <1>2, <3>2, <3>3, <3>4, <3>5, <3>6, ScaleFacts
  <2> DEFINE lq == Len(quot)
  <2>3. lq \in Nat /\ lq <= 5 /\ lq # 5 /\ (quot # <<>> => lq # 0)
    BY <2>1, <2>2
  <2> HIDE DEF lq
  <2>4. lq \in 0..4 /\ (quot # <<>> => lq \in 1..4)
    BY <2>3
  <2> QED BY <2>4 DEF lq
<1>5. v <= value
  <2>1. CASE quot = <<>>
    BY <2>1, <1>2
  <2>2. CASE quot # <<>>
    <3>1. v * Power[Len(quot)] <= value /\ Len(quot) \in 1..5
      BY <2>2, <1>4 DEF RoundTripInv, Quotients
    <3>2. Power[Len(quot)] \in Nat /\ Power[Len(quot)] >= 1
      BY <3>1, PowerFacts
    <3>3. v * 1 <= v * Power[Len(quot)]
      <4>1. 1 * v <= Power[Len(quot)] * v
        BY <1>2, <3>2, Monotone
      <4>2. \A a, b \in Nat : a * b = b * a
        OBVIOUS
      <4> QED BY <1>2, <3>2, <4>1, <4>2
    <3>4. v * Power[Len(quot)] \in Nat
      BY <1>2, <3>2
    <3> QED BY <1>2, <3>1, <3>3, <3>4
  <2> QED BY <2>1, <2>2
<1>6. /\ raw' \in Seq(Nat) /\ quot' \in Seq(Nat)
      /\ Len(raw') = Len(raw) + 1 /\ Len(quot') = Len(quot) + 1
      /\ raw'[1] = d /\ quot'[1] = v
      /\ \A j \in 1..Len(raw) : raw'[j + 1] = raw[j]
      /\ \A j \in 1..Len(quot) : quot'[j + 1] = quot[j]
  <2>1. ASSUME NEW a \in Nat, NEW s \in Seq(Nat), Len(s) \in 0..4
        PROVE  /\ <<a>> \o s \in Seq(Nat) /\ Len(<<a>> \o s) = Len(s) + 1
               /\ (<<a>> \o s)[1] = a
               /\ \A j \in 1..Len(s) : (<<a>> \o s)[j + 1] = s[j]
    <3>1. <<a>> \in Seq(Nat) /\ Len(<<a>>) = 1 /\ <<a>>[1] = a
      OBVIOUS
    <3> DEFINE h == <<a>>  both == h \o s
    <3>2. h \in Seq(Nat) /\ Len(h) = 1 /\ h[1] = a
      BY <3>1
    <3> HIDE DEF h
    <3>3. /\ both \in Seq(Nat) /\ Len(both) = Len(h) + Len(s)
          /\ \A j \in 1..Len(h) + Len(s) : both[j] = IF j <= Len(h) THEN h[j] ELSE s[j - Len(h)]
      BY <3>2, ConcatProperties
    <3> HIDE DEF both
    <3>4. Len(both) = Len(s) + 1
      BY <2>1, <3>2, <3>3
    <3>5. \A j \in 1..1 + Len(s) : both[j] = IF j <= 1 THEN h[j] ELSE s[j - 1]
      BY <3>2, <3>3
    <3>6. both[1] = a
      <4>1. 1 \in 1..1 + Len(s)
        BY <2>1
      <4> QED BY <3>2, <3>5, <4>1
    <3>7. ASSUME NEW j \in 1..Len(s) PROVE both[j + 1] = s[j]
      <4>1. j + 1 \in 1..1 + Len(s) /\ ~(j + 1 <= 1) /\ (j + 1) - 1 = j
        BY <2>1
      <4> QED BY <3>5, <4>1
    <3> QED BY <3>3, <3>4, <3>6, <3>7 DEF both, h
  <2>2. Len(raw) \in 0..4 /\ Len(quot) \in 0..4
    BY <1>2, <1>4
  <2>3. /\ <<d>> \o raw \in Seq(Nat) /\ Len(<<d>> \o raw) = Len(raw) + 1
        /\ (<<d>> \o raw)[1] = d
        /\ \A j \in 1..Len(raw) : (<<d>> \o raw)[j + 1] = raw[j]
    BY <1>2, <1>3, <2>1, <2>2
  <2>4. /\ <<v>> \o quot \in Seq(Nat) /\ Len(<<v>> \o quot) = Len(quot) + 1
        /\ (<<v>> \o quot)[1] = v
        /\ \A j \in 1..Len(quot) : (<<v>> \o quot)[j + 1] = quot[j]
    BY <1>2, <2>1, <2>2
  <2> QED BY <1>1, <2>3, <2>4
<1> DEFINE l == Len(quot)
<1>7. l \in 0..4 /\ Len(raw) = l /\ Len(raw') = l + 1 /\ Len(quot') = l + 1 /\ l = Len(quot)
  BY <1>2, <1>4, <1>6
<1> HIDE DEF l
<1>8. quot' # <<>>
  <2> SUFFICES ASSUME quot' = <<>> PROVE FALSE
    OBVIOUS
  <2>1. Len(<<>>) = 0
    OBVIOUS
  <2> QED BY <1>7, <2>1
<1>9. \A j \in 1..l : /\ quot[j] \in 1..value
                      /\ quot[j] = (IF j = 1 THEN v ELSE quot[j - 1]) * Base + raw[j]
                      /\ raw[j] \in 0..Base-1
  BY <1>7 DEF RoundTripInv, Quotients
<1>10. ASSUME NEW j \in 1..l + 1
       PROVE  /\ quot'[j] \in 1..value
              /\ quot'[j] = (IF j = 1 THEN v' ELSE quot'[j - 1]) * Base + raw'[j]
              /\ raw'[j] \in 0..Base-1
  <2>1. CASE j = 1
    BY <2>1, <1>1, <1>2, <1>3, <1>5, <1>6
  <2>2. CASE j # 1
    <3>1. j - 1 \in 1..l /\ (j - 1) + 1 = j
      BY <2>2, <1>7
    <3>2. quot'[j] = quot[j - 1] /\ raw'[j] = raw[j - 1]
      BY <3>1, <1>6, <1>7
    <3>3. quot'[j - 1] = IF j - 1 = 1 THEN v ELSE quot[(j - 1) - 1]
      <4>1. CASE j = 2
        BY <4>1, <1>6
      <4>2. CASE j # 2
        <5>1. (j - 1) - 1 \in 1..l /\ ((j - 1) - 1) + 1 = j - 1 /\ j - 1 # 1
          BY <3>1, <4>2, <2>2, <1>7
        <5> QED BY <5>1, <1>6, <1>7
      <4> QED BY <4>1, <4>2
    <3> QED BY <3>1, <3>2, <3>3, <2>2, <1>9
  <2> QED BY <2>1, <2>2
<1>11. quot'[Len(quot')] = value
  <2>1. CASE quot = <<>>
    <3>1. l = 0
      BY <2>1, <1>7
    <3> QED BY <2>1, <3>1, <1>2, <1>6, <1>7
  <2>2. CASE quot # <<>>
    <3>1. quot[l] = value /\ l \in 1..l
      BY <2>2, <1>4, <1>7 DEF RoundTripInv, Quotients
    <3> QED BY <3>1, <1>6, <1>7
  <2> QED BY <2>1, <2>2
<1>12. v' * Power[Len(quot')] <= value
  <2>1. CASE quot = <<>>
    <3>1. l = 0 /\ v = value
      BY <2>1, <1>2, <1>7
    <3>2. Power[Len(quot')] = Base
      BY <3>1, <1>7, PowerFacts
    <3> QED BY <3>1, <3>2, <1>1, <1>3
  <2>2. CASE quot # <<>>
    <3>1. v * Power[l] <= value /\ l \in 1..4
      BY <2>2, <1>4, <1>7 DEF RoundTripInv, Quotients
    <3>2. (v \div Base) * Power[l + 1] <= value
      BY <3>1, <1>2, PowerGrows
    <3> QED BY <3>2, <1>1, <1>7 DEF q
  <2> QED BY <2>1, <2>2
<1>13. Quotients'
  <2>1. Len(raw') <= Len(quot') /\ Len(quot') <= 5
    <3>1. l \in 0..4
      BY <1>7
    <3>2. l + 1 <= l + 1 /\ l + 1 <= 5
      BY <3>1
    <3>3. Len(raw') = l + 1 /\ Len(quot') = l + 1
      BY <1>7
    <3> QED BY <3>2, <3>3
  <2>2. UNCHANGED value
    BY <1>1
  <2> QED BY <2>1, <2>2, <1>7, <1>8, <1>10, <1>11, <1>12 DEF Quotients
<1>14. Phases'
  BY <1>1, <1>2, <1>7, <1>8 DEF RoundTripInv, Phases, Sent, Encoding
<1>15. Climbs'
  BY <1>1 DEF RoundTripInv, Climbs, Sent, Encoding
<1>16. NumericReadsBack'
  BY <1>1 DEF NumericReadsBack, Done
<1>17. v' \in Nat
  BY <1>1, <1>3
<1>18. (type \in Types \cup {"none"})' /\ (type = "uint64" => value \in 0..Wide-1)'
  BY <1>1 DEF RoundTripInv
<1> QED BY <1>6, <1>13, <1>14, <1>15, <1>16, <1>17, <1>18 DEF RoundTripInv

(* The weight is one less than the number of digits.                        *)
LEMMA SplitDone ==
    ASSUME RoundTripInv, SplitEnds
    PROVE  RoundTripInv'
<1>1. /\ UNCHANGED <<type, value, v, raw, quot, wire, column, reader, result, k, answer>>
      /\ pc = "split" /\ v = 0 /\ weight' = Cast(Len(raw) - 1, "int16") /\ pc' = "strip"
  BY DEF SplitEnds, decoder
<1>2. type = "uint64" /\ value > 0 /\ Len(raw) = Len(quot) /\ (quot = <<>> => v = value)
  BY <1>1 DEF RoundTripInv, Phases
<1>3. quot # <<>> /\ raw \in Seq(Nat) /\ quot \in Seq(Nat) /\ Len(quot) <= 5
  BY <1>1, <1>2 DEF RoundTripInv, Quotients
<1>4. Len(quot) \in Nat \ {0}
  BY <1>3, EmptySeq
<1>5. raw # <<>>
  <2> SUFFICES ASSUME raw = <<>> PROVE FALSE
    OBVIOUS
  <2>1. Len(<<>>) = 0
    OBVIOUS
  <2> QED BY <1>2, <1>4, <2>1
<1>6. weight' = Len(quot) - 1
  <2> DEFINE l == Len(quot)
  <2>1. l \in Nat /\ l # 0 /\ l <= 5
    BY <1>3, <1>4
  <2> HIDE DEF l
  <2>2. l - 1 \in 0..5
    BY <2>1
  <2>3. Cast(l - 1, "int16") = l - 1
    BY <2>2, SmallCounts
  <2> QED BY <1>1, <1>2, <2>3 DEF l
<1>7. Quotients'
  BY <1>1 DEF RoundTripInv, Quotients
<1>8. Phases'
  BY <1>1, <1>2, <1>3, <1>5, <1>6 DEF RoundTripInv, Phases, Sent, Encoding
<1>9. Climbs'
  BY <1>1 DEF RoundTripInv, Climbs, Sent, Encoding
<1>10. NumericReadsBack'
  BY <1>1 DEF NumericReadsBack, Done
<1>11. /\ (type \in Types \cup {"none"})' /\ (type = "uint64" => value \in 0..Wide-1)'
       /\ (v \in Nat /\ raw \in Seq(Nat) /\ quot \in Seq(Nat))'
  BY <1>1 DEF RoundTripInv
<1> QED BY <1>7, <1>8, <1>9, <1>10, <1>11 DEF RoundTripInv

(* A digit that goes was zero; the first one never goes.                    *)
LEMMA ZeroStripped ==
    ASSUME RoundTripInv, StripZero
    PROVE  RoundTripInv'
<1> DEFINE l == Len(raw)
<1>1. /\ UNCHANGED <<pc, type, value, v, quot, weight, wire, column, reader, result, k, answer>>
      /\ pc = "strip" /\ l > 1 /\ raw[l] = 0 /\ raw' = SubSeq(raw, 1, l - 1)
  BY DEF StripZero, decoder
<1>2. /\ raw \in Seq(Nat) /\ quot \in Seq(Nat) /\ l <= Len(quot) /\ Len(quot) <= 5
      /\ \A j \in 1..l : raw[j] \in 0..Base-1
  BY DEF RoundTripInv, Quotients
<1>3. l \in Nat /\ Len(quot) \in Nat /\ \A j \in 1..l : raw[j] \in Nat
  BY <1>2, LenProperties, ElementOfSeq
<1> HIDE DEF l
<1>4. l - 1 \in 1..4 /\ l \in 2..5 /\ l - 1 <= Len(quot)
  BY <1>1, <1>2, <1>3
<1>5. /\ raw' \in Seq(Nat) /\ Len(raw') = l - 1
      /\ \A j \in 1..l - 1 : raw'[j] = raw[j]
  <2>1. 1 \in Int /\ l - 1 \in Int /\ \A j \in 1..l - 1 : raw[j] \in Nat
    BY <1>3, <1>4
  <2> DEFINE s == SubSeq(raw, 1, l - 1)
  <2>2. /\ s \in Seq(Nat) /\ Len(s) = IF 1 <= l - 1 THEN (l - 1) - 1 + 1 ELSE 0
        /\ \A j \in 1..(l - 1) - 1 + 1 : s[j] = raw[1 + j - 1]
    BY <2>1, SubSeqProperties
  <2> HIDE DEF s
  <2>3. (l - 1) - 1 + 1 = l - 1 /\ 1 <= l - 1
    BY <1>4
  <2>4. \A j \in 1..l - 1 : s[j] = raw[j]
    <3>1. \A j \in 1..l - 1 : 1 + j - 1 = j
      BY <1>4
    <3> QED BY <2>2, <2>3, <3>1
  <2> QED BY <1>1, <2>2, <2>3, <2>4 DEF s
<1>6. raw' # <<>>
  <2> SUFFICES ASSUME raw' = <<>> PROVE FALSE
    OBVIOUS
  <2>1. Len(<<>>) = 0
    OBVIOUS
  <2> QED BY <1>4, <1>5, <2>1
<1>7. Quotients'
  <2>1. \A j \in 1..Len(quot) :
          /\ quot[j] \in 1..value
          /\ quot[j] = (IF j = 1 THEN v ELSE quot[j - 1]) * Base + (IF j <= l THEN raw[j] ELSE 0)
    BY DEF RoundTripInv, Quotients, l
  <2>2. ASSUME NEW j \in 1..Len(quot)
        PROVE  (IF j <= l - 1 THEN raw'[j] ELSE 0) = (IF j <= l THEN raw[j] ELSE 0)
    <3>1. CASE j <= l - 1
      BY <3>1, <1>3, <1>4, <1>5
    <3>2. CASE j = l
      BY <3>2, <1>1, <1>4
    <3>3. CASE j > l
      BY <3>3, <1>4
    <3> QED BY <3>1, <3>2, <3>3, <1>4
  <2>3. ASSUME NEW j \in 1..l - 1 PROVE raw'[j] \in 0..Base-1
    <3>1. j \in 1..l
      BY <1>4
    <3>2. raw[j] \in 0..Base-1
      BY <3>1, <1>2
    <3>3. raw'[j] = raw[j]
      BY <1>5
    <3> QED BY <3>2, <3>3
  <2>4. \A j \in 1..Len(quot) :
          /\ quot[j] \in 1..value
          /\ quot[j] = (IF j = 1 THEN v ELSE quot[j - 1]) * Base + (IF j <= l - 1 THEN raw'[j] ELSE 0)
    BY <2>1, <2>2
  <2>5. /\ quot # <<>> => quot[Len(quot)] = value /\ v * Power[Len(quot)] <= value
        /\ quot = <<>> => v \in {0, value}
    BY DEF RoundTripInv, Quotients
  <2>6. UNCHANGED <<quot, value, v>>
    BY <1>1
  <2> QED BY <1>2, <1>4, <1>5, <2>3, <2>4, <2>5, <2>6 DEF Quotients
<1>8. Phases'
  BY <1>1, <1>6 DEF RoundTripInv, Phases, Sent, Encoding
<1>9. Climbs'
  BY <1>1 DEF RoundTripInv, Climbs, Sent, Encoding
<1>10. NumericReadsBack'
  BY <1>1 DEF NumericReadsBack, Done
<1>11. /\ (type \in Types \cup {"none"})' /\ (type = "uint64" => value \in 0..Wide-1)'
       /\ (v \in Nat /\ quot \in Seq(Nat))'
  BY <1>1 DEF RoundTripInv
<1> QED BY <1>5, <1>7, <1>8, <1>9, <1>10, <1>11 DEF RoundTripInv

(* The header and the digits that are left.                                 *)
LEMMA NumericEncoded ==
    ASSUME RoundTripInv, EncodeNumericUint64
    PROVE  RoundTripInv'
<1>1. /\ UNCHANGED <<type, value, encoder>>
      /\ UNCHANGED <<type, value, v, raw, quot, weight, column, reader, result, k, answer>>
      /\ pc = "strip" /\ pc' = "bind"
      /\ wire' = <<Len(raw) % Word, weight % Word, 0, 0>> \o raw
  BY DEF EncodeNumericUint64, Stripped, Encoded, encoder, decoder
<1>2. type = "uint64" /\ raw # <<>>
  BY <1>1 DEF RoundTripInv, Phases
<1>3. raw \in Seq(Nat) /\ quot \in Seq(Nat) /\ Len(raw) <= Len(quot) /\ Len(quot) <= 5
  BY DEF RoundTripInv, Quotients
<1>4. Len(raw) \in Nat \ {0} /\ Len(quot) \in Nat
  BY <1>2, <1>3, EmptySeq, LenProperties
<1> DEFINE lr == Len(raw)  lq == Len(quot)
<1>5. lr \in Nat /\ lr # 0 /\ lq \in Nat /\ lr <= lq /\ lq <= 5
  BY <1>3, <1>4
<1>6. quot # <<>>
  <2> SUFFICES ASSUME quot = <<>> PROVE FALSE
    OBVIOUS
  <2>1. Len(<<>>) = 0
    OBVIOUS
  <2>2. lq = 0
    BY <2>1
  <2> HIDE DEF lq, lr
  <2> QED BY <1>5, <2>2
<1>7. weight = lq - 1
  BY <1>1, <1>6 DEF RoundTripInv, Phases
<1> HIDE DEF lr, lq
<1>8. lr \in 0..5 /\ weight \in 0..5
  BY <1>5, <1>7
<1>9. lr % Word = lr /\ weight % Word = weight
  BY <1>8, SmallCounts
<1>10. wire' = <<Len(raw), weight, 0, 0>> \o raw
  BY <1>1, <1>9 DEF lr
<1>11. Phases'
  BY <1>1, <1>2, <1>10 DEF RoundTripInv, Phases, Sent, Encoding
<1>12. Climbs'
  BY <1>1 DEF RoundTripInv, Climbs, Sent, Encoding
<1>13. NumericReadsBack'
  BY <1>1 DEF NumericReadsBack, Done
<1> QED BY <1>1, <1>11, <1>12, <1>13, Untouched

-----------------------------------------------------------------------------
(* Columns of integers and times, and NULL, do not touch the claim.         *)
LEMMA BoundElsewhere ==
    ASSUME RoundTripInv, NEW c, BindFixed(c) \/ BindNull(c), c # "Numeric" \/ type # "uint64"
    PROVE  RoundTripInv'
<1>1. /\ UNCHANGED <<type, value, encoder>>
      /\ UNCHANGED <<type, value, v, raw, quot, weight, wire, reader, result, k, answer>>
      /\ pc = "bind" /\ pc' = "row" /\ column' = c
  BY DEF BindFixed, BindNull, encoder, decoder
<1>2. Phases'
  BY <1>1 DEF RoundTripInv, Phases, Sent, Encoding
<1>3. Climbs'
  BY <1>1 DEF RoundTripInv, Climbs, Encoding
<1>4. NumericReadsBack'
  BY <1>1 DEF NumericReadsBack, Done
<1> QED BY <1>1, <1>2, <1>3, <1>4, Untouched

(* Only a value with digits gets into a NUMERIC column.                     *)
LEMMA BoundNumeric ==
    ASSUME RoundTripInv, BindNumeric
    PROVE  RoundTripInv'
<1>1. /\ UNCHANGED <<type, value, encoder>>
      /\ UNCHANGED <<type, value, v, raw, quot, weight, reader, result, k, answer>>
      /\ pc = "bind" /\ pc' = "row" /\ column' = "Numeric" /\ Len(wire) >= 4
      /\ wire[1] # 0 => wire' = wire
  BY DEF BindNumeric, IsNumeric, encoder, decoder
<1>2. Phases'
  <2>1. CASE type # "uint64"
    BY <2>1, <1>1 DEF RoundTripInv, Phases, Sent, Encoding
  <2>2. CASE type = "uint64"
    <3>1. Sent
      BY <2>2, <1>1 DEF Sent, Encoding
    <3>2. raw # <<>>
      <4> SUFFICES ASSUME raw = <<>> PROVE FALSE
        OBVIOUS
      <4>1. wire = <<ZeroWord>>
        BY <3>1 DEF RoundTripInv, Phases
      <4>2. Len(<<ZeroWord>>) = 1
        OBVIOUS
      <4> QED BY <1>1, <4>1, <4>2
    <3>3. wire[1] # 0
      BY <3>1, <3>2, SentWire
    <3>4. wire' = wire
      BY <1>1, <3>3
    <3> QED BY <2>2, <1>1, <3>2, <3>4 DEF RoundTripInv, Phases, Sent, Encoding
  <2> QED BY <2>1, <2>2
<1>3. Climbs'
  BY <1>1 DEF RoundTripInv, Climbs, Encoding
<1>4. NumericReadsBack'
  BY <1>1 DEF NumericReadsBack, Done
<1> QED BY <1>1, <1>2, <1>3, <1>4, Untouched

(* A NUMERIC column rejects zero and no other uint64_t.                     *)
LEMMA Rejected ==
    ASSUME RoundTripInv, NEW c, Reject(c)
    PROVE  RoundTripInv'
<1>1. /\ UNCHANGED <<type, value, encoder>>
      /\ UNCHANGED <<type, value, v, raw, quot, weight, wire, reader, result, k, answer>>
      /\ pc = "bind" /\ pc' = "rejected" /\ column' = c /\ (c = "Numeric" => ~IsNumeric(wire))
  BY DEF Reject, encoder, decoder
<1>2. Phases'
  BY <1>1 DEF RoundTripInv, Phases, Sent, Encoding
<1>3. Climbs'
  BY <1>1 DEF RoundTripInv, Climbs, Encoding
<1>4. NumericReadsBack'
  <2> SUFFICES ASSUME type = "uint64", c = "Numeric" PROVE value = 0
    BY <1>1 DEF NumericReadsBack, Done
  <2>1. Sent
    BY <1>1 DEF Sent, Encoding
  <2>2. raw = <<>>
    BY <1>1, <2>1, SentIsNumeric
  <2> QED BY <2>1, <2>2 DEF RoundTripInv, Phases
<1> QED BY <1>1, <1>2, <1>3, <1>4, Untouched

(* From the row on nothing moves that Phases or Climbs speak of, but the    *)
(* decoder's own state.                                                     *)
LEMMA PhasesStay ==
    ASSUME RoundTripInv, pc \in {"row", "digits"}, pc' \in {"row", "digits", "done"},
           UNCHANGED <<type, value, encoder, wire, column>>
    PROVE  Phases'
BY DEF RoundTripInv, Phases, Sent, Encoding, encoder

(* T is not uint64_t, or the column is no NUMERIC, or it is NULL.           *)
LEMMA NotDecoded ==
    ASSUME RoundTripInv, NEW t \in DOMAIN Sources, AsNothing(t) \/ AsInteger(t) \/ AsTimestamp
    PROVE  RoundTripInv'
<1>1. /\ UNCHANGED <<type, value, encoder, wire, column>>
      /\ UNCHANGED <<type, value, encoder>> /\ UNCHANGED <<type, value, wire, column>>
      /\ pc = "row" /\ pc' = "done"
  BY DEF AsNothing, AsInteger, AsTimestamp, AsReads, Answered
<1>2. UNCHANGED <<raw, quot>>
  BY <1>1 DEF encoder
<1>3. Phases'
  BY <1>1, PhasesStay
<1>4. Climbs'
  BY <1>1 DEF Climbs, Encoding
<1>5. ASSUME type = "uint64", column = "Numeric"
      PROVE  reader' # "uint64"
  <2>1. Sent
    BY <1>1, <1>5 DEF Sent, Encoding
  <2>2. raw # <<>>
    BY <2>1, <1>1, <1>5 DEF RoundTripInv, Phases
  <2>3. Len(wire) = 4 + Len(raw) /\ Len(raw) \in 1..5
    BY <2>1, <2>2, SentWire
  <2>4. wire # <<>>
    <3> SUFFICES ASSUME wire = <<>> PROVE FALSE
      OBVIOUS
    <3>1. Len(<<>>) = 0
      OBVIOUS
    <3> QED BY <2>3, <3>1
  <2>5. CASE AsNothing(t)
    <3>1. column \notin Sources[t] /\ reader' = t
      BY <2>4, <2>5 DEF AsNothing, IsNull
    <3> QED BY <3>1, <1>5 DEF Sources
  <2>6. CASE AsInteger(t)
    BY <2>6 DEF AsInteger, AsReads
  <2>7. CASE AsTimestamp
    BY <2>7 DEF AsTimestamp, AsReads
  <2> QED BY <2>5, <2>6, <2>7
<1>6. NumericReadsBack'
  BY <1>1, <1>5 DEF NumericReadsBack, Done
<1> QED BY <1>1, <1>3, <1>4, <1>6, Untouched

(* A value that was sent has digits to be read.                             *)
LEMMA DecodingBegins ==
    ASSUME RoundTripInv, AsNumeric
    PROVE  RoundTripInv'
<1>1. /\ UNCHANGED <<type, value, encoder>>
      /\ UNCHANGED <<type, value, encoder, wire, column>>
      /\ UNCHANGED <<type, value, wire, column, result, k>>
      /\ pc = "row" /\ column = "Numeric"
  BY DEF AsNumeric, AsReads, Sources
<1>2. pc' \in {"digits", "done"}
  BY DEF AsNumeric, Answered
<1>3. UNCHANGED <<raw, quot>>
  BY <1>1 DEF encoder
<1>4. ASSUME type = "uint64" PROVE pc' = "digits"
  <2>1. Sent
    BY <1>1, <1>4 DEF Sent, Encoding
  <2>2. raw # <<>>
    BY <2>1, <1>1 DEF RoundTripInv, Phases
  <2> DEFINE lr == Len(raw)
  <2>3. wire[3] = 0 /\ lr \in 1..5 /\ Len(wire) = 4 + lr /\ Ndigits = lr
    BY <2>1, <2>2, SentWire, SentCounts
  <2> HIDE DEF lr
  <2>4. Ndigits # 0 /\ ~(Ndigits < 0) /\ ~(Len(wire) < 4 + Ndigits)
    BY <2>3
  <2> QED BY <2>3, <2>4 DEF AsNumeric
<1>5. Phases'
  BY <1>1, <1>2, PhasesStay
<1>6. Climbs'
  <2>1. result = 0 /\ k = 0
    BY <1>1 DEF RoundTripInv, Climbs
  <2>2. Len(quot) \in Nat
    BY LenProperties DEF RoundTripInv
  <2>3. k \in 0..Len(quot)
    BY <2>1, <2>2
  <2> QED BY <1>1, <1>2, <1>3, <2>1, <2>3 DEF Climbs, Encoding, Sent
<1>7. NumericReadsBack'
  BY <1>1, <1>4 DEF NumericReadsBack, Done
<1> QED BY <1>1, <1>5, <1>6, <1>7, Untouched

(* Facts of a value that is being read back.                                *)
LEMMA Reading ==
    ASSUME RoundTripInv, pc = "digits", type = "uint64"
    PROVE  /\ Sent /\ column = "Numeric"
           /\ Ndigits = Len(raw) /\ Trailing = Len(quot) - Len(raw)
           /\ Len(raw) \in 1..5 /\ Len(quot) \in 1..5 /\ Len(raw) <= Len(quot)
           /\ k \in 0..Len(quot) /\ result = (IF k = 0 THEN 0 ELSE quot[k])
           /\ v = 0 /\ quot[Len(quot)] = value /\ value \in Nat /\ value < Wide
           /\ \A j \in 1..Len(raw) : wire[4 + j] = raw[j]
           /\ \A j \in 1..Len(quot) :
                /\ quot[j] \in 1..value
                /\ quot[j] = (IF j = 1 THEN 0 ELSE quot[j - 1]) * Base
                             + (IF j <= Len(raw) THEN raw[j] ELSE 0)
<1>1. Sent
  BY DEF Sent, Encoding
<1>2. column = "Numeric"
  BY DEF RoundTripInv, Climbs
<1>3. raw # <<>>
  BY <1>1, <1>2 DEF RoundTripInv, Phases
<1>4. k \in 0..Len(quot) /\ result = (IF k = 0 THEN 0 ELSE quot[k])
  BY <1>1 DEF RoundTripInv, Climbs
<1>5. value \in Nat /\ value < Wide
  BY ScaleFacts DEF RoundTripInv
<1>6. v = 0 /\ quot # <<>>
  BY <1>1, <1>3, SentWire
<1>7. quot[Len(quot)] = value /\ Len(raw) <= Len(quot)
  BY <1>6 DEF RoundTripInv, Quotients
<1>8. \A j \in 1..Len(quot) :
        /\ quot[j] \in 1..value
        /\ quot[j] = (IF j = 1 THEN 0 ELSE quot[j - 1]) * Base
                     + (IF j <= Len(raw) THEN raw[j] ELSE 0)
  BY <1>6 DEF RoundTripInv, Quotients
<1> QED BY <1>1, <1>2, <1>3, <1>4, <1>5, <1>6, <1>7, <1>8, SentWire, SentCounts

(* A step of the decoder that reaches the next of the values.               *)
LEMMA ClimbsOn ==
    ASSUME RoundTripInv, pc = "digits", pc' = "digits",
           UNCHANGED <<type, value, encoder, wire, column, reader, answer>>,
           type = "uint64" => k' \in 0..Len(quot) /\ result' = (IF k' = 0 THEN 0 ELSE quot[k'])
    PROVE  RoundTripInv'
<1>1. UNCHANGED <<type, value, encoder>> /\ UNCHANGED <<type, value, column, raw, quot>>
  BY DEF encoder
<1>2. Phases'
  BY PhasesStay
<1>3. Climbs'
  <2>1. column' = "Numeric"
    BY <1>1 DEF RoundTripInv, Climbs
  <2>2. Sent' => type = "uint64"
    BY <1>1 DEF Sent
  <2> QED BY <1>1, <2>1, <2>2 DEF Climbs, Encoding
<1>4. NumericReadsBack'
  BY <1>1 DEF NumericReadsBack, Done
<1> QED BY <1>1, <1>2, <1>3, <1>4, Untouched

(* The next value is the last one times the base, and a digit: no overflow. *)
LEMMA DigitRead ==
    ASSUME RoundTripInv, ReadDigit
    PROVE  RoundTripInv'
<1>1. /\ UNCHANGED <<type, value, encoder, wire, column, reader, answer>>
      /\ pc = "digits" /\ pc' = "digits" /\ k < Ndigits /\ k' = k + 1
      /\ result' = (result * Base + wire[5 + k]) % Wide
  BY DEF ReadDigit
<1>2. ASSUME type = "uint64"
      PROVE  k' \in 0..Len(quot) /\ result' = (IF k' = 0 THEN 0 ELSE quot[k'])
  <2> DEFINE lr == Len(raw)  lq == Len(quot)
  <2>1. /\ lr \in 1..5 /\ lq \in 1..5 /\ lr <= lq /\ k \in 0..lq /\ Ndigits = lr
        /\ result = (IF k = 0 THEN 0 ELSE quot[k]) /\ value \in Nat /\ value < Wide
        /\ \A j \in 1..lr : wire[4 + j] = raw[j]
        /\ \A j \in 1..lq :
             /\ quot[j] \in 1..value
             /\ quot[j] = (IF j = 1 THEN 0 ELSE quot[j - 1]) * Base
                          + (IF j <= lr THEN raw[j] ELSE 0)
    BY <1>1, <1>2, Reading
  <2> HIDE DEF lr, lq
  <2>2. k + 1 \in 1..lr /\ k + 1 \in 1..lq /\ k + 1 <= lr /\ 4 + (k + 1) = 5 + k
    <3>1. k \in 0..lq /\ lq \in 1..5 /\ lr \in 1..5 /\ lr <= lq /\ k < lr
      BY <1>1, <2>1
    <3> QED BY <3>1
  <2>3. wire[5 + k] = raw[k + 1]
    BY <2>1, <2>2
  <2>4. result = IF k + 1 = 1 THEN 0 ELSE quot[(k + 1) - 1]
    <3>1. (k + 1) - 1 = k /\ (k + 1 = 1 <=> k = 0)
      BY <2>1
    <3> QED BY <2>1, <3>1
  <2>5. quot[k + 1] = result * Base + raw[k + 1]
    BY <2>1, <2>2, <2>4
  <2>6. quot[k + 1] \in 1..value
    BY <2>1, <2>2
  <2>7. quot[k + 1] \in Nat /\ quot[k + 1] < Wide
    <3>1. value \in Nat /\ value < Wide /\ Wide \in Nat
      BY <2>1, ScaleFacts
    <3> QED BY <2>6, <3>1
  <2>8. result' = quot[k + 1]
    <3>1. quot[k + 1] % Wide = quot[k + 1]
      BY <2>7, ScaleFacts, SmallMod
    <3> QED BY <1>1, <2>3, <2>5, <3>1
  <2>9. k + 1 \in 0..lq /\ k + 1 # 0
    BY <2>1, <2>2
  <2> QED BY <1>1, <2>8, <2>9 DEF lq
<1> QED BY <1>1, <1>2, ClimbsOn

(* An elided digit is zero.                                                 *)
LEMMA ElidedRead ==
    ASSUME RoundTripInv, ReadElided
    PROVE  RoundTripInv'
<1>1. /\ UNCHANGED <<type, value, encoder, wire, column, reader, answer>>
      /\ pc = "digits" /\ pc' = "digits" /\ k >= Ndigits /\ k - Ndigits < Trailing /\ k' = k + 1
      /\ result' = (result * Base) % Wide
  BY DEF ReadElided
<1>2. ASSUME type = "uint64"
      PROVE  k' \in 0..Len(quot) /\ result' = (IF k' = 0 THEN 0 ELSE quot[k'])
  <2> DEFINE lr == Len(raw)  lq == Len(quot)
  <2>1. /\ lr \in 1..5 /\ lq \in 1..5 /\ lr <= lq /\ k \in 0..lq
        /\ Ndigits = lr /\ Trailing = lq - lr
        /\ result = (IF k = 0 THEN 0 ELSE quot[k]) /\ value \in Nat /\ value < Wide
        /\ \A j \in 1..lq :
             /\ quot[j] \in 1..value
             /\ quot[j] = (IF j = 1 THEN 0 ELSE quot[j - 1]) * Base
                          + (IF j <= lr THEN raw[j] ELSE 0)
    BY <1>1, <1>2, Reading
  <2> HIDE DEF lr, lq
  <2>2. /\ k + 1 \in 1..lq /\ ~(k + 1 <= lr) /\ k # 0 /\ k + 1 # 1 /\ (k + 1) - 1 = k /\ k \in 1..lq
    <3>1. k \in 0..lq /\ lq \in 1..5 /\ lr \in 1..5 /\ k >= lr /\ k - lr < lq - lr
      BY <1>1, <2>1
    <3> QED BY <3>1
  <2>3. result = quot[k] /\ result \in Nat
    <3>1. quot[k] \in 1..value /\ value \in Nat
      BY <2>1, <2>2
    <3> QED BY <2>1, <2>2, <3>1
  <2>4. quot[k + 1] = result * Base
    <3>1. quot[k + 1] = quot[k] * Base + 0
      BY <2>1, <2>2
    <3>2. result * Base \in Nat
      BY <2>3, ScaleFacts
    <3> QED BY <2>3, <3>1, <3>2
  <2>5. quot[k + 1] \in 1..value
    BY <2>1, <2>2
  <2>6. quot[k + 1] \in Nat /\ quot[k + 1] < Wide
    <3>1. value \in Nat /\ value < Wide /\ Wide \in Nat
      BY <2>1, ScaleFacts
    <3> QED BY <2>5, <3>1
  <2>7. result' = quot[k + 1]
    <3>1. quot[k + 1] % Wide = quot[k + 1]
      BY <2>6, ScaleFacts, SmallMod
    <3> QED BY <1>1, <2>4, <3>1
  <2>8. k + 1 \in 0..lq /\ k + 1 # 0
    BY <2>1, <2>2
  <2> QED BY <1>1, <2>7, <2>8 DEF lq
<1> QED BY <1>1, <1>2, ClimbsOn

(* After the last one the result is the value.                              *)
LEMMA DecodingEnds ==
    ASSUME RoundTripInv, NumericEnds
    PROVE  RoundTripInv'
<1>1. /\ UNCHANGED <<type, value, encoder>>
      /\ UNCHANGED <<type, value, encoder, wire, column>>
      /\ UNCHANGED <<type, value, wire, column, reader, result, k>>
      /\ pc = "digits" /\ k >= Ndigits /\ k - Ndigits >= Trailing
      /\ answer' = <<result>> /\ pc' = "done"
  BY DEF NumericEnds, Answered
<1>2. UNCHANGED <<raw, quot>>
  BY <1>1 DEF encoder
<1>3. Phases'
  BY <1>1, PhasesStay
<1>4. Climbs'
  BY <1>1 DEF Climbs, Encoding
<1>5. NumericReadsBack'
  <2> SUFFICES ASSUME type = "uint64" PROVE result = value
    BY <1>1 DEF NumericReadsBack, Done
  <2> DEFINE lr == Len(raw)  lq == Len(quot)
  <2>1. /\ lr \in 1..5 /\ lq \in 1..5 /\ k \in 0..lq /\ Ndigits = lr /\ Trailing = lq - lr
        /\ result = (IF k = 0 THEN 0 ELSE quot[k]) /\ quot[lq] = value
    BY <1>1, Reading
  <2> HIDE DEF lr, lq
  <2>2. k = lq /\ k # 0
    <3>1. lr \in 1..5 /\ lq \in 1..5 /\ k \in 0..lq /\ k >= lr /\ k - lr >= lq - lr
      BY <1>1, <2>1
    <3> QED BY <3>1
  <2> QED BY <2>1, <2>2
<1> QED BY <1>1, <1>3, <1>4, <1>5, Untouched

-----------------------------------------------------------------------------
(* Every step of NormalizeIntegral, ToBinary, the server and as<T> keeps    *)
(* the inductive invariant.                                                 *)
LEMMA StepKeeps == RoundTripInv /\ [Next]_vars => RoundTripInv'
<1> SUFFICES ASSUME RoundTripInv, [Next]_vars PROVE RoundTripInv'
  OBVIOUS
<1>1. CASE ToBinaryInteger \/ ToBinaryTimestamp \/ ToBinaryNull
  <2>1. /\ pc = "normalize" /\ pc' = "bind" /\ type # "uint64"
        /\ UNCHANGED <<type, value, encoder, column, decoder>>
    BY <1>1 DEF ToBinaryInteger, ToBinaryTimestamp, ToBinaryNull, Encoded, Normalize
  <2> QED BY <2>1, SendsOther
<1>2. CASE EncodeZero
  BY <1>2, ZeroSent
<1>3. CASE BeginDigits
  BY <1>3, DigitsBegin
<1>4. CASE SplitDigit
  BY <1>4, DigitSplit
<1>5. CASE SplitEnds
  BY <1>5, SplitDone
<1>6. CASE StripZero
  BY <1>6, ZeroStripped
<1>7. CASE EncodeNumericUint64
  BY <1>7, NumericEncoded
<1>8. ASSUME NEW c \in DOMAIN Size, BindFixed(c) PROVE RoundTripInv'
  <2>1. c # "Numeric"
    BY DEF Size
  <2> QED BY <1>8, <2>1, BoundElsewhere
<1>9. ASSUME NEW c \in Columns, BindNull(c) PROVE RoundTripInv'
  <2>1. type # "uint64"
    BY <1>9 DEF BindNull
  <2> QED BY <1>9, <2>1, BoundElsewhere
<1>10. ASSUME NEW c \in Columns, Reject(c) PROVE RoundTripInv'
  BY <1>10, Rejected
<1>11. CASE BindNumeric
  BY <1>11, BoundNumeric
<1>12. ASSUME NEW t \in DOMAIN Sources, AsNothing(t) \/ AsInteger(t) PROVE RoundTripInv'
  BY <1>12, NotDecoded
<1>13. CASE AsTimestamp
  <2>1. "timestamp" \in DOMAIN Sources
    BY DEF Sources
  <2> QED BY <1>13, <2>1, NotDecoded
<1>14. CASE AsNumeric
  BY <1>14, DecodingBegins
<1>15. CASE ReadDigit
  BY <1>15, DigitRead
<1>16. CASE ReadElided
  BY <1>16, ElidedRead
<1>17. CASE NumericEnds
  BY <1>17, DecodingEnds
<1>18. CASE UNCHANGED vars
  <2>1. /\ UNCHANGED <<type, value, encoder>>
        /\ UNCHANGED <<pc, type, value, v, raw, quot, weight, wire, column, reader, result, k, answer>>
    BY <1>18 DEF vars, encoder, decoder
  <2>2. Phases'
    BY <2>1 DEF RoundTripInv, Phases, Sent, Encoding
  <2>3. Climbs'
    BY <2>1 DEF RoundTripInv, Climbs, Sent, Encoding
  <2>4. NumericReadsBack'
    BY <2>1 DEF RoundTripInv, NumericReadsBack, Done
  <2> QED BY <2>1, <2>2, <2>3, <2>4, Untouched
<1> QED BY <1>1, <1>2, <1>3, <1>4, <1>5, <1>6, <1>7, <1>8, <1>9, <1>10, <1>11, <1>12, <1>13,
           <1>14, <1>15, <1>16, <1>17, <1>18 DEF Next

(* The inductive invariant of the way of one value, for every scale that    *)
(* the assumption admits and whatever other programs have stored.           *)
THEOREM Invariance == Spec => []RoundTripInv
<1> QED BY InitInvariant, StepKeeps, PTL DEF Spec

(* EncodeNumericUint64 and as<uint64_t> are inverse through a NUMERIC       *)
(* column, for every value but zero, which the column rejects.              *)
THEOREM NumericRoundTrip == Spec => []NumericReadsBack
<1>1. RoundTripInv => NumericReadsBack
  BY DEF RoundTripInv
<1> QED BY Invariance, <1>1, PTL

=============================================================================
