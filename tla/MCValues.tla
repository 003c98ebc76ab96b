------------------------------ MODULE MCValues ------------------------------
(***************************************************************************)
(* Numbers and columns at a scale of four values to a byte, sixteen to a   *)
(* word, 65536 to 64 bits, and decimal digits: five of them for 64 bits,   *)
(* as five of base 10000 do for the real ones.                             *)
(***************************************************************************)
EXTENDS Values, FiniteSets

Near(x) == x-3..x+3

(* The small ones, and both sides of the edges of every type                *)
Edges == -70..1300 \cup UNION {Near(x) : x \in {-32768, -128, 4096, 10000, 20000, 32767, 65535}}

(* NUMERICs as the server sends them, with fractions, elided digits, signs, *)
(* NaN, and values below and above 2^64                                     *)
DigitStrings == UNION {[1..j -> {0, 1, 9}] : j \in 0..3}
                \cup {<<6, 5, 5, 3, 5>>, <<6, 5, 5, 3, 6>>, <<9, 9, 9, 9, 9>>, <<1, 0, 0, 0, 0, 1>>}
Trimmed == {d \in DigitStrings : d # <<>> => d[1] # 0 /\ d[Len(d)] # 0}

Numerics ==
    LET number(d, w, sign) ==
          <<Len(d), w % Word, sign, IF w < Len(d) - 1 THEN 1 ELSE 0>> \o d
    IN {number(d, w, sign) : d \in Trimmed \ {<<>>}, w \in -2..6, sign \in {0, 4}}
       \cup {<<0, 0, 0, 0>>, <<0, 0, 12, 0>>}

Stored == {[column |-> "Numeric", wire |-> w] : w \in Numerics}
          \cup UNION {{[column |-> c, wire |-> EncodeFixed(x, Size[c])] : x \in Edges} : c \in DOMAIN Size}
          \cup {[column |-> c, wire |-> <<>>] : c \in Columns}

Zero    == {0}
Nothing == {}

=============================================================================
