------------------------------- MODULE Values -------------------------------
(***************************************************************************)
(* One number or time on its way from the program to a column of the       *)
(* server and back: NormalizeIntegral and ToBinary turn it into a binary   *)
(* parameter, the server takes it or not, table and as<T> read the column. *)
(* A column may as well hold what another program has stored.              *)
(*                                                                         *)
(* What travels is a sequence of 16-bit words.  Text, bytea, bool and      *)
(* floating point travel as they are and are left out.                     *)
(***************************************************************************)
EXTENDS Integers, Sequences

CONSTANTS
    Byte,         \* 2^8
    Base,         \* 10000, what a digit of a binary NUMERIC stands for
    ZeroWord,     \* 0x0800: the bytes {8, '\0'}
    Ticks,        \* ticks of the system clock in a microsecond
    Epoch,        \* microseconds from 1970 to 2000
    Samples,      \* the values that are written
    Rows          \* what other programs have stored: columns with their words

Word == Byte * Byte
Wide == Word * Word * Word * Word

(* The scale keeps the real one's shape: five digits hold any 64-bit value  *)
ASSUME ScaleAssumption ==
    /\ Byte \in Nat /\ Byte >= 4
    /\ Base \in 2..Word
    /\ Base * Base * Base * Base * Base >= Wide
    /\ ZeroWord \in 0..Word-1
    /\ Ticks \in Nat \ {0} /\ Epoch \in Nat

ASSUME SamplesAssumption == Samples \subseteq Int

VARIABLES
    pc,
    type, value,   \* of the parameter
    v, raw,        \* EncodeNumericUint64: what is left and the digits found
    quot,          \* history: the values of v that the digits were taken from
    weight,
    wire,          \* the parameter, then what the column holds; NULL is empty
    column,
    reader,        \* T of as<T>
    result, k,     \* as<uint64_t>
    answer         \* an optional: <<>> is nullopt

encoder == <<v, raw, quot, weight>>
decoder == <<reader, result, k, answer>>
vars == <<pc, type, value, encoder, wire, column, decoder>>

Span == [nullptr |-> 1, int8 |-> Byte, uint8 |-> Byte, int16 |-> Word, uint16 |-> Word,
         int32 |-> Word * Word, uint32 |-> Word * Word,
         int64 |-> Wide, uint64 |-> Wide, timestamp |-> Wide]
Types   == DOMAIN Span
Lowest(t) == IF t \in {"int8", "int16", "int32", "int64", "timestamp"} THEN -(Span[t] \div 2) ELSE 0
Fits(x, t) == x >= Lowest(t) /\ x < Lowest(t) + Span[t]
Cast(x, t) == ((x - Lowest(t)) % Span[t]) + Lowest(t)

Size    == [Int2 |-> 1, Int4 |-> 2, Int8 |-> 4, Timestamp |-> 4]
Columns == DOMAIN Size \cup {"Numeric"}

(* +, -, NaN, Infinity and -Infinity: 0x0000, 0x4000, 0xC000, 0xD000, 0xF000 *)
Signs == {s * (Word \div 16) : s \in {0, 4, 12, 13, 15}}

(* numeric_recv: the length follows from ndigits, dscale has fourteen bits  *)
IsNumeric(w) ==
    /\ Len(w) >= 4 /\ Len(w) = 4 + w[1]
    /\ w[3] \in Signs /\ w[4] < Word \div 4
    /\ \A j \in 5..Len(w) : w[j] < Base

(* What a column can hold: NULL, words of its size, or a NUMERIC as the     *)
(* server keeps it, without zeros in front and without a sign on a zero     *)
Holds(c, w) ==
    \/ w = <<>>
    \/ c \in DOMAIN Size /\ Len(w) = Size[c]
    \/ c = "Numeric" /\ IsNumeric(w) /\ IF w[1] = 0 THEN w[3] # 4 * (Word \div 16) ELSE w[5] # 0

ASSUME RowsAssumption ==
    \A row \in Rows : row.column \in Columns /\ row.wire \in Seq(0..Word-1) /\ Holds(row.column, row.wire)

Init ==
    /\ \/ /\ pc = "normalize" /\ type \in Types
          /\ value \in {x \in Samples : Fits(x, type)}
          /\ wire = <<>> /\ column = "none"
       \/ /\ pc = "row" /\ type = "none" /\ value = 0
          /\ \E row \in Rows : column = row.column /\ wire = row.wire
    /\ v = 0 /\ raw = <<>> /\ quot = <<>> /\ weight = 0
    /\ reader = "none" /\ result = 0 /\ k = 0 /\ answer = <<>>

-----------------------------------------------------------------------------
(* The parameter                                                            *)

(* Seeded fault: unsigned numbers keep their width                          *)
NormalizeInPlace ==
    [int8 |-> "int16", int16 |-> "int16", int32 |-> "int32", int64 |-> "int64",
     uint8 |-> "int16", uint16 |-> "int16", uint32 |-> "int32"]

(* NormalizeIntegral: unsigned numbers go to the next wider signed type     *)
Normalize ==
    [int8 |-> "int16", int16 |-> "int16", int32 |-> "int32", int64 |-> "int64",
     uint8 |-> "int16", uint16 |-> "int32", uint32 |-> "int64"]

(* Big-endian; the least significant word comes last                        *)
Place == <<1, Word, Word * Word, Word * Word * Word>>
EncodeFixed(x, size) == [j \in 1..size |-> (x \div Place[size - j + 1]) % Word]

Width == [int16 |-> 1, int32 |-> 2, int64 |-> 4]

Encoded(w) == wire' = w /\ pc' = "bind"

ToBinaryInteger ==
    /\ pc = "normalize" /\ type \in DOMAIN Normalize
    /\ LET t == Normalize[type]
       IN Encoded(EncodeFixed(Cast(value, t), Width[t]))
    /\ UNCHANGED <<type, value, encoder, column, decoder>>

(* duration_cast drops what is below a microsecond, towards 1970            *)
Microseconds == IF value >= 0 THEN value \div Ticks ELSE -((-value) \div Ticks)

ToBinaryTimestamp ==
    /\ pc = "normalize" /\ type = "timestamp"
    /\ Encoded(EncodeFixed(Cast(Microseconds - Epoch, "int64"), 4))
    /\ UNCHANGED <<type, value, encoder, column, decoder>>

ToBinaryNull ==
    /\ pc = "normalize" /\ type = "nullptr"
    /\ Encoded(<<>>)
    /\ UNCHANGED <<type, value, encoder, column, decoder>>

(* Two chars make a string of length two, not one of eight zeros            *)
EncodeZero ==
    /\ pc = "normalize" /\ type = "uint64" /\ value = 0
    /\ Encoded(<<ZeroWord>>)
    /\ UNCHANGED <<type, value, encoder, column, decoder>>

BeginDigits ==
    /\ pc = "normalize" /\ type = "uint64" /\ value # 0
    /\ v' = value /\ pc' = "split"
    /\ UNCHANGED <<type, value, raw, quot, weight, wire, column, decoder>>

(* Seeded fault: the digit is what is left of v, cut to 16 bits             *)
SplitDigitUncut ==
    /\ pc = "split" /\ v > 0
    /\ raw' = <<v % Word>> \o raw
    /\ quot' = <<v>> \o quot
    /\ v' = v \div Base
    /\ UNCHANGED <<pc, type, value, weight, wire, column, decoder>>

SplitDigit ==
    /\ pc = "split" /\ v > 0
    /\ raw' = <<v % Base>> \o raw
    /\ quot' = <<v>> \o quot
    /\ v' = v \div Base
    /\ UNCHANGED <<pc, type, value, weight, wire, column, decoder>>

SplitEnds ==
    /\ pc = "split" /\ v = 0
    /\ weight' = Cast(Len(raw) - 1, "int16") /\ pc' = "strip"
    /\ UNCHANGED <<type, value, v, raw, quot, wire, column, decoder>>

StripZero ==
    /\ pc = "strip" /\ Len(raw) > 1 /\ raw[Len(raw)] = 0
    /\ raw' = SubSeq(raw, 1, Len(raw) - 1)
    /\ UNCHANGED <<pc, type, value, v, quot, weight, wire, column, decoder>>

Stripped == pc = "strip" /\ ~(Len(raw) > 1 /\ raw[Len(raw)] = 0)

(* Seeded fault: the weight counts the digits that are left                 *)
EncodeNumericUint64Late ==
    /\ Stripped
    /\ Encoded(<<Len(raw) % Word, (Len(raw) - 1) % Word, 0, 0>> \o raw)
    /\ UNCHANGED <<type, value, encoder, column, decoder>>

(* ndigits, weight, sign and dscale in front of the digits                  *)
EncodeNumericUint64 ==
    /\ Stripped
    /\ Encoded(<<Len(raw) % Word, weight % Word, 0, 0>> \o raw)
    /\ UNCHANGED <<type, value, encoder, column, decoder>>

-----------------------------------------------------------------------------
(* The server: it takes a binary parameter for the type of the column that  *)
(* the statement gives it to                                                *)

BindFixed(c) ==
    /\ pc = "bind" /\ Len(wire) = Size[c]
    /\ column' = c /\ pc' = "row"
    /\ UNCHANGED <<type, value, encoder, wire, decoder>>

BindNull(c) ==
    /\ pc = "bind" /\ type = "nullptr"
    /\ column' = c /\ pc' = "row"
    /\ UNCHANGED <<type, value, encoder, wire, decoder>>

(* Without digits a number is zero, whatever its weight and its sign say    *)
BindNumeric ==
    /\ pc = "bind" /\ IsNumeric(wire)
    /\ column' = "Numeric" /\ pc' = "row"
    /\ wire' = IF wire[1] = 0
                 THEN <<0, 0, IF wire[3] < 12 * (Word \div 16) THEN 0 ELSE wire[3], wire[4]>>
                 ELSE wire
    /\ UNCHANGED <<type, value, encoder, decoder>>

Reject(c) ==
    /\ pc = "bind" /\ type # "nullptr"
    /\ IF c = "Numeric" THEN ~IsNumeric(wire) ELSE Len(wire) # Size[c]
    /\ column' = c /\ pc' = "rejected"
    /\ UNCHANGED <<type, value, encoder, wire, decoder>>

-----------------------------------------------------------------------------
(* as<T>                                                                    *)

Sources ==
    [int8 |-> {}, int16 |-> {"Int2"}, int32 |-> {"Int2", "Int4"}, int64 |-> {"Int2", "Int4", "Int8"},
     uint8 |-> {}, uint16 |-> {"Int4"}, uint32 |-> {"Int8"}, uint64 |-> {"Numeric"},
     timestamp |-> {"Timestamp"}]

Positional(b, w) ==
    LET upTo[j \in 0..Len(w)] == IF j = 0 THEN 0 ELSE upTo[j - 1] * b + w[j]
    IN upTo[Len(w)]

ReadBigEndian == Cast(Positional(Word, wire), CASE Len(wire) = 1 -> "int16"
                                                [] Len(wire) = 2 -> "int32"
                                                [] Len(wire) = 4 -> "int64")

IsNull == wire = <<>>
Answered(x) == answer' = x /\ pc' = "done"

AsReads(t) ==
    /\ pc = "row" /\ ~IsNull /\ column \in Sources[t]
    /\ reader' = t
    /\ UNCHANGED <<type, value, encoder, wire, column>>

(* Seeded fault: NULL is read as zero                                       *)
AsNothingZero(t) ==
    /\ pc = "row" /\ (IsNull \/ column \notin Sources[t])
    /\ reader' = t
    /\ Answered(IF IsNull THEN <<0>> ELSE <<>>)
    /\ UNCHANGED <<type, value, encoder, wire, column, result, k>>

AsNothing(t) ==
    /\ pc = "row" /\ (IsNull \/ column \notin Sources[t])
    /\ reader' = t
    /\ Answered(<<>>)
    /\ UNCHANGED <<type, value, encoder, wire, column, result, k>>

AsInteger(t) ==
    /\ AsReads(t) /\ t \notin {"uint64", "timestamp"}
    /\ Answered(<<Cast(ReadBigEndian, t)>>)
    /\ UNCHANGED <<result, k>>

(* A time out of the clock's range is undefined behaviour; it wraps         *)
TimeOf(x) == Cast(Cast(x + Epoch, "int64") * Ticks, "timestamp")

AsTimestamp ==
    /\ AsReads("timestamp")
    /\ Answered(<<TimeOf(ReadBigEndian)>>)
    /\ UNCHANGED <<result, k>>

Ndigits == Cast(wire[1], "int16")
Weight  == Cast(wire[2], "int16")

(* The sign, zero and the length; then the digits                           *)
AsNumeric ==
    /\ AsReads("uint64")
    /\ IF wire[3] # 0 THEN Answered(<<>>)
       ELSE IF Ndigits = 0 THEN Answered(<<0>>)
       ELSE IF Ndigits < 0 \/ Len(wire) < 4 + Ndigits THEN Answered(<<>>)
       ELSE pc' = "digits" /\ UNCHANGED answer
    /\ UNCHANGED <<result, k>>

ReadDigit ==
    /\ pc = "digits" /\ k < Ndigits
    /\ result' = (result * Base + wire[5 + k]) % Wide
    /\ k' = k + 1
    /\ UNCHANGED <<pc, type, value, encoder, wire, column, reader, answer>>

Trailing == Weight - (Ndigits - 1)

(* The digits that were elided; k goes on counting                          *)
ReadElided ==
    /\ pc = "digits" /\ k >= Ndigits /\ k - Ndigits < Trailing
    /\ result' = (result * Base) % Wide
    /\ k' = k + 1
    /\ UNCHANGED <<pc, type, value, encoder, wire, column, reader, answer>>

NumericEnds ==
    /\ pc = "digits" /\ k >= Ndigits /\ k - Ndigits >= Trailing
    /\ Answered(<<result>>)
    /\ UNCHANGED <<type, value, encoder, wire, column, reader, result, k>>

-----------------------------------------------------------------------------
Next ==
    \/ ToBinaryInteger \/ ToBinaryTimestamp \/ ToBinaryNull
    \/ EncodeZero \/ BeginDigits \/ SplitDigit \/ SplitEnds \/ StripZero \/ EncodeNumericUint64
    \/ \E c \in DOMAIN Size : BindFixed(c)
    \/ \E c \in Columns : BindNull(c) \/ Reject(c)
    \/ BindNumeric
    \/ \E t \in DOMAIN Sources : AsNothing(t) \/ AsInteger(t)
    \/ AsTimestamp \/ AsNumeric \/ ReadDigit \/ ReadElided \/ NumericEnds

Spec == Init /\ [][Next]_vars

-----------------------------------------------------------------------------
(* Properties                                                               *)

Done == pc = "done"
Own  == type # "none"

(* Every variable keeps its type; an answer is a value of T.                *)
TypeOK ==
    /\ pc \in {"normalize", "split", "strip", "bind", "row", "digits", "rejected", "done"}
    /\ type \in Types \cup {"none"}
    /\ v \in 0..Wide-1
    /\ \A j \in 1..Len(raw) : raw[j] \in 0..Base-1
    /\ \A j \in 1..Len(wire) : wire[j] \in 0..Word-1
    /\ column \in Columns \cup {"none"}
    /\ reader \in DOMAIN Sources \cup {"none"}
    /\ result \in 0..Wide-1 /\ k \in 0..Word
    /\ answer = <<>> \/ (Len(answer) = 1 /\ Fits(answer[1], reader))

(* The column that the tests and the comments of the source give a type     *)
Home == [int16 |-> "Int2", int32 |-> "Int4", int64 |-> "Int8", uint16 |-> "Int4",
         uint32 |-> "Int8", timestamp |-> "Timestamp"]

(* What is written to the column meant for its type is accepted and reads   *)
(* back as it was, times without what is below a microsecond.               *)
ReadsBack ==
    \A t \in DOMAIN Home :
        type = t /\ column = Home[t] =>
            /\ pc # "rejected"
            /\ Done /\ reader = t =>
                 answer = <<IF t = "timestamp" THEN Microseconds * Ticks ELSE value>>

(* The same of uint64_t in a NUMERIC column: every value but 0 survives the *)
(* way through digits of base 10000 without its trailing zeros.             *)
NumericReadsBack ==
    type = "uint64" /\ column = "Numeric" =>
        /\ pc = "rejected" => value = 0
        /\ Done /\ reader = "uint64" => answer = <<value>>

(* The number in the column if it is an integer; the groups of its digits,  *)
(* those behind the point included, as one number if it is not              *)
Digits  == SubSeq(wire, 5, Len(wire))
Elided  == IF Trailing > 0 THEN [j \in 1..Trailing |-> 0] ELSE <<>>
Integral == column # "Numeric" \/ (wire[3] \in {0, 4 * (Word \div 16)} /\ Trailing >= 0)
Number  == CASE column \in {"Int2", "Int4", "Int8"} -> ReadBigEndian
             [] column = "Timestamp" -> (ReadBigEndian + Epoch) * Ticks
             [] column = "Numeric" -> (IF wire[3] = 0 THEN 1 ELSE -1)
                                        * Positional(Base, Digits \o Elided)

(* A number that the server accepts for a column of numbers is the number   *)
(* that was written, except that eight bytes of an int64_t pass for a       *)
(* NUMERIC without digits, and the two bytes of a uint64_t zero for a       *)
(* SMALLINT.                                                                *)
NothingMisread ==
    pc = "row" /\ type \in DOMAIN Normalize \cup {"uint64"} /\ column # "Timestamp" =>
        \/ Integral /\ Number = value
        \/ column = "Numeric" /\ wire[1] = 0 /\ Normalize[type] = "int64"
        \/ column = "Int2" /\ type = "uint64" /\ value = 0

(* as<T> has a number to return: the column is of its kind, not NULL, and a *)
(* NUMERIC has no sign (NaN and the infinities are signs), nor more digits  *)
(* than an int16_t counts                                                   *)
Readable ==
    /\ ~IsNull /\ column \in Sources[reader]
    /\ column = "Numeric" => wire[3] = 0 /\ Ndigits >= 0

(* as<T> of what any program has stored.  NULL, a column of another kind, a *)
(* negative NUMERIC and NaN are nullopt and nothing else is; an integer     *)
(* that fits T is returned as it is; every other number is cut to the width *)
(* of T, and of a fraction the groups of digits are read on as if they were *)
(* in front of the point.  A time beyond the clock is undefined behaviour,  *)
(* of which only this is said, that there is an answer.                     *)
DecodesExactly ==
    Done =>
        /\ answer # <<>> <=> Readable
        /\ Readable => \/ answer = <<Cast(Number, reader)>>
                       \/ reader = "timestamp" /\ ~Fits(Number, reader)
        /\ ~IsNull /\ column \in Sources[reader] /\ Integral /\ Fits(Number, reader) =>
             answer = <<Number>>

(* A NUMERIC zero is what the comment in EncodeNumericUint64 says it is.    *)
ZeroIsANumeric ==
    pc = "bind" /\ type = "uint64" /\ value = 0 => wire = <<0, 0, 0, 0>>

-----------------------------------------------------------------------------
(* Why a uint64_t survives: the inductive invariant.  quot lists the values *)
(* v went through; a digit is what separates a value from the one before,   *)
(* a stripped digit is zero, and as<uint64_t> climbs through the same       *)
(* values.                                                                  *)

Encoding == pc \in {"normalize", "split", "strip"}
Sent     == ~Encoding /\ type = "uint64"
Power    == <<Base, Base * Base, Base * Base * Base, Base * Base * Base * Base,
              Base * Base * Base * Base * Base>>

Quotients ==
    /\ Len(raw) <= Len(quot) /\ Len(quot) <= 5
    /\ \A j \in 1..Len(quot) :
         /\ quot[j] \in 1..value
         /\ quot[j] = (IF j = 1 THEN v ELSE quot[j - 1]) * Base
                      + (IF j <= Len(raw) THEN raw[j] ELSE 0)
    /\ \A j \in 1..Len(raw) : raw[j] \in 0..Base-1
    /\ quot # <<>> => quot[Len(quot)] = value /\ v * Power[Len(quot)] <= value
    /\ quot = <<>> => v \in {0, value}

Phases ==
    /\ pc = "normalize" \/ type # "uint64" => v = 0 /\ raw = <<>> /\ quot = <<>>
    /\ pc = "split" => value > 0 /\ Len(raw) = Len(quot) /\ (quot = <<>> => v = value)
    /\ pc = "strip" => raw # <<>>
    /\ pc \in {"split", "strip"} => type = "uint64"
    /\ pc # "split" /\ quot # <<>> => v = 0 /\ weight = Len(quot) - 1
    /\ Sent => IF raw # <<>> THEN wire = <<Len(raw), weight, 0, 0>> \o raw
               ELSE value = 0 /\ wire = <<ZeroWord>>
    /\ Encoding \/ pc = "bind" => column = "none"
    /\ Sent /\ column = "Numeric" /\ pc # "rejected" => raw # <<>>

Climbs ==
    /\ pc \in {"bind", "row"} \/ Encoding => result = 0 /\ k = 0
    /\ pc = "digits" => column = "Numeric"
    /\ pc = "digits" /\ Sent =>
         k \in 0..Len(quot) /\ result = IF k = 0 THEN 0 ELSE quot[k]

RoundTripInv ==
    /\ type \in Types \cup {"none"}
    /\ type = "uint64" => value \in 0..Wide-1
    /\ v \in Nat /\ raw \in Seq(Nat) /\ quot \in Seq(Nat)
    /\ Quotients /\ Phases /\ Climbs
    /\ NumericReadsBack

-----------------------------------------------------------------------------
(* What a column holds, and how it got there                                *)

Fixed == DOMAIN Normalize \cup {"timestamp"}
Form  == IF type = "timestamp" THEN "int64" ELSE Normalize[type]
Meant == IF type = "timestamp" THEN Microseconds - Epoch ELSE value

(* The words of a fixed size stay what ToBinary made of the value, unless   *)
(* they passed for a NUMERIC without digits                                 *)
Written ==
    /\ type \in Types => value \in Int /\ Fits(value, type)
    /\ ~Encoding /\ type \in Fixed =>
         IF column = "Numeric" /\ pc # "rejected"
           THEN wire # <<>> /\ wire[1] = 0 /\ Form = "int64"
           ELSE wire = EncodeFixed(Cast(Meant, Form), Width[Form])
    /\ ~Encoding /\ type = "nullptr" => wire = <<>>
    /\ Encoding => wire = <<>>
    /\ Encoding \/ pc = "bind" => Own

Held ==
    /\ wire \in Seq(0..Word-1)
    /\ column \in Columns \cup {"none"}
    /\ pc \in {"row", "digits", "done"} => column \in Columns /\ Holds(column, wire)
    /\ pc = "rejected" /\ column \in DOMAIN Size => Len(wire) # Size[column]

(* The digits of the column up to the k-th, the elided ones included; the   *)
(* result is their number modulo 2^64                                       *)
UpTo(m) == [j \in 1..m |-> IF j <= Ndigits THEN wire[4 + j] ELSE 0]

Decoded ==
    /\ pc \in {"normalize", "split", "strip", "bind", "row", "digits", "rejected", "done"}
    /\ pc \notin {"digits", "done"} => reader = "none" /\ result = 0 /\ k = 0
    /\ pc \in {"digits", "done"} => reader \in DOMAIN Sources
    /\ pc # "done" => answer = <<>>
    /\ result \in 0..Wide-1 /\ k \in 0..Word
    /\ pc = "digits" =>
         /\ reader = "uint64" /\ column = "Numeric" /\ ~IsNull
         /\ wire[3] = 0 /\ Ndigits > 0
         /\ k <= Ndigits \/ k <= Weight + 1
         /\ result = Positional(Base, UpTo(k)) % Wide
    /\ answer = <<>> \/ (Len(answer) = 1 /\ Fits(answer[1], reader))
    /\ Done /\ reader = "timestamp" /\ column = "Timestamp" /\ ~IsNull =>
         answer = <<TimeOf(ReadBigEndian)>>
    /\ DecodesExactly

IInv == RoundTripInv /\ Written /\ Held /\ Decoded

=============================================================================
