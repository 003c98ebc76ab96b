----------------------------- MODULE ValuesReads -----------------------------
(* For every scale, every sample and every content of the columns: what is  *)
(* written to the column meant for its type reads back, what a column of    *)
(* another type takes is the same number, but for what NothingMisread names,*)
(* and what as<T> returns for each content of a column is what              *)
(* DecodesExactly says.                                                     *)
(* Positional values are defined by recursion; what it computes is          *)
(* established by induction on the number of words or digits.               *)
EXTENDS ValuesProofs, Induction

-----------------------------------------------------------------------------
(* Numbers in positional notation                                           *)

(* The recursion behind Positional has a value at each digit.               *)
LEMMA PositionalUnfold ==
    ASSUME NEW b \in Nat, NEW w \in Seq(Nat)
    PROVE  \E f \in [0..Len(w) -> Nat] :
             /\ f[0] = 0 /\ \A j \in 1..Len(w) : f[j] = f[j - 1] * b + w[j]
             /\ Positional(b, w) = f[Len(w)]
<1> DEFINE m == Len(w)
           G == [p \in (1..m) \X Nat |-> p[2] * b + w[p[1]]]
           u == CHOOSE u : u = [j \in 0..m |-> IF j = 0 THEN 0 ELSE u[j - 1] * b + w[j]]
<1>1. m \in Nat /\ \A j \in 1..m : w[j] \in Nat
  BY LenProperties, ElementOfSeq
<1>2. G \in [(1..m) \X Nat -> Nat]
  BY <1>1
<1>3. PICK f \in [0..m -> Nat] : f[0] = 0 /\ \A j \in 1..m : f[j] = G[<<j, f[j - 1]>>]
  <2>1. \E f \in [0..m -> Nat] : f[0] = 0 /\ \A j \in 1..m : f[j] = G[<<j, f[j - 1]>>]
    <3>1. 0 \in Nat /\ m \in Nat
      BY <1>1
    <3>2. Recursion(Nat, 0, m, G) # {}
      <4> HIDE DEF m, G
      <4> QED BY <1>2, <3>1, RecursionExists
    <3> HIDE DEF m, G
    <3> QED BY <3>2 DEF Recursion
  <2> QED BY <2>1
<1>4. \A j \in 1..m, x \in Nat : G[<<j, x>>] = x * b + w[j]
  BY <1>1
<1>5. \A j \in 1..m : j - 1 \in 0..m /\ j \in 0..m
  BY <1>1
<1>6. \A j \in 1..m : f[j] = f[j - 1] * b + w[j]
  <2> HIDE DEF m, G
  <2> QED BY <1>3, <1>4, <1>5
<1>7. f = [j \in 0..m |-> IF j = 0 THEN 0 ELSE f[j - 1] * b + w[j]]
  <2> HIDE DEF m, G
  <2>1. \A j \in 0..m : j = 0 \/ j \in 1..m
    BY <1>1
  <2> QED BY <1>3, <1>6, <2>1
<1>8. u = [j \in 0..m |-> IF j = 0 THEN 0 ELSE u[j - 1] * b + w[j]]
  BY <1>7
<1>9. u[0] = 0 /\ \A j \in 1..m : u[j] = u[j - 1] * b + w[j]
  <2> HIDE DEF m, G, u
  <2> QED BY <1>1, <1>5, <1>8
<1> DEFINE T == {l \in Nat : l <= m => u[l] = f[l]}
<1>10. 0 \in T
  <2> HIDE DEF m, G, u
  <2> QED BY <1>3, <1>9
<1>11. ASSUME NEW l \in Nat, l \in T PROVE l + 1 \in T
  <2>1. ASSUME l + 1 <= m PROVE u[l + 1] = f[l + 1]
    <3>1. l + 1 \in 1..m /\ (l + 1) - 1 = l /\ u[l] = f[l]
      BY <1>1, <1>11, <2>1
    <3> HIDE DEF m, G, u
    <3> QED BY <1>6, <1>9, <3>1
  <2> HIDE DEF m, G, u
  <2> QED BY <2>1
<1>12. Nat \subseteq T
  <2> HIDE DEF T
  <2> QED BY <1>10, <1>11, Induct
<1>13. u[m] = f[m]
  <2> HIDE DEF m, G, u
  <2> QED BY <1>1, <1>12
<1>14. Positional(b, w) = u[m]
  BY DEF Positional
<1> HIDE DEF G, u
<1> QED BY <1>3, <1>6, <1>13, <1>14

(* What takes the steps of the recursion has its value.                     *)
LEMMA PositionalValue ==
    ASSUME NEW b \in Nat, NEW w \in Seq(Nat), NEW g, g[0] = 0,
           \A j \in 1..Len(w) : g[j] = g[j - 1] * b + w[j]
    PROVE  Positional(b, w) = g[Len(w)]
<1>1. PICK f \in [0..Len(w) -> Nat] :
             /\ f[0] = 0 /\ \A j \in 1..Len(w) : f[j] = f[j - 1] * b + w[j]
             /\ Positional(b, w) = f[Len(w)]
  BY PositionalUnfold
<1>2. Len(w) \in Nat
  BY LenProperties
<1> DEFINE T == {l \in Nat : l <= Len(w) => g[l] = f[l]}
<1>3. 0 \in T
  BY <1>1
<1>4. ASSUME NEW l \in Nat, l \in T PROVE l + 1 \in T
  <2>1. ASSUME l + 1 <= Len(w) PROVE g[l + 1] = f[l + 1]
    <3>1. l + 1 \in 1..Len(w) /\ (l + 1) - 1 = l /\ g[l] = f[l]
      BY <1>2, <1>4, <2>1
    <3> QED BY <1>1, <3>1
  <2> QED BY <2>1
<1>5. Nat \subseteq T
  <2> HIDE DEF T
  <2> QED BY <1>3, <1>4, Induct
<1> QED BY <1>1, <1>2, <1>5

(* A number with one more digit.                                            *)
LEMMA PositionalAppend ==
    ASSUME NEW b \in Nat, NEW w \in Seq(Nat), NEW d \in Nat
    PROVE  /\ Positional(b, w) \in Nat
           /\ Positional(b, Append(w, d)) = Positional(b, w) * b + d
<1>1. /\ Len(w) \in Nat /\ Append(w, d) \in Seq(Nat) /\ Len(Append(w, d)) = Len(w) + 1
      /\ \A j \in 1..Len(w) : Append(w, d)[j] = w[j]
      /\ Append(w, d)[Len(w) + 1] = d
  BY LenProperties, AppendProperties
<1>2. PICK f \in [0..Len(w) + 1 -> Nat] :
             /\ f[0] = 0 /\ \A j \in 1..Len(w) + 1 : f[j] = f[j - 1] * b + Append(w, d)[j]
             /\ Positional(b, Append(w, d)) = f[Len(w) + 1]
  <2> DEFINE a == Append(w, d)
  <2>1. \E f \in [0..Len(a) -> Nat] :
          /\ f[0] = 0 /\ \A j \in 1..Len(a) : f[j] = f[j - 1] * b + a[j]
          /\ Positional(b, a) = f[Len(a)]
    <3>1. a \in Seq(Nat)
      BY <1>1
    <3> HIDE DEF a
    <3> QED BY <3>1, PositionalUnfold
  <2> QED BY <1>1, <2>1
<1>3. Len(w) \in 0..Len(w) + 1 /\ Len(w) + 1 \in 1..Len(w) + 1 /\ (Len(w) + 1) - 1 = Len(w)
      /\ \A j \in 1..Len(w) : j \in 1..Len(w) + 1
  BY <1>1
<1>4. \A j \in 1..Len(w) : f[j] = f[j - 1] * b + w[j]
  BY <1>1, <1>2, <1>3
<1>5. Positional(b, w) = f[Len(w)]
  BY <1>2, <1>4, PositionalValue
<1>6. f[Len(w)] \in Nat /\ f[Len(w) + 1] = f[Len(w)] * b + d
  BY <1>1, <1>2, <1>3
<1> QED BY <1>2, <1>5, <1>6

(* No digits make zero.                                                     *)
LEMMA PositionalEmpty ==
    ASSUME NEW b \in Nat
    PROVE  Positional(b, <<>>) = 0
<1>1. <<>> \in Seq(Nat) /\ Len(<<>>) = 0
  BY EmptySeq
<1>2. PICK f \in [0..Len(<<>>) -> Nat] : f[0] = 0 /\ Positional(b, <<>>) = f[Len(<<>>)]
  BY <1>1, PositionalUnfold
<1> QED BY <1>1, <1>2

(* A number is not less than that of its first digits; six digits, the      *)
(* first of them not zero, are more than five.                              *)
LEMMA PositionalGrows ==
    ASSUME NEW b \in Nat \ {0}, NEW w \in Seq(Nat), w # <<>>, w[1] # 0
    PROVE  /\ Positional(b, w) \in Nat \ {0}
           /\ Len(w) > 5 => Positional(b, w) >= b * b * b * b * b
<1>1. PICK f \in [0..Len(w) -> Nat] :
             /\ f[0] = 0 /\ \A j \in 1..Len(w) : f[j] = f[j - 1] * b + w[j]
             /\ Positional(b, w) = f[Len(w)]
  BY PositionalUnfold
<1>2. Len(w) \in Nat \ {0} /\ \A j \in 1..Len(w) : w[j] \in Nat
  BY LenProperties, ElementOfSeq, EmptySeq
<1>3. ASSUME NEW j \in 1..Len(w) PROVE f[j] >= f[j - 1] * b /\ f[j] >= f[j - 1]
  <2>1. j - 1 \in 0..Len(w) /\ w[j] \in Nat
    BY <1>2
  <2>2. f[j - 1] \in Nat /\ f[j] = f[j - 1] * b + w[j]
    BY <1>1, <2>1
  <2>3. f[j - 1] * b \in Nat /\ 1 * f[j - 1] <= b * f[j - 1]
    <3>1. 1 \in Nat /\ b \in Nat /\ 1 <= b
      OBVIOUS
    <3> DEFINE c == f[j - 1]
    <3>2. c \in Nat
      BY <2>2
    <3> HIDE DEF c
    <3>3. c * b \in Nat /\ 1 * c <= b * c
      BY <3>1, <3>2, Monotone
    <3> QED BY <3>3 DEF c
  <2>4. b * f[j - 1] = f[j - 1] * b /\ 1 * f[j - 1] = f[j - 1]
    BY <2>2
  <2> QED BY <2>1, <2>2, <2>3, <2>4
<1>4. ASSUME NEW a \in 1..Len(w), NEW c \in Nat, f[a] >= c PROVE f[Len(w)] >= c
  <2> DEFINE T == {l \in Nat : a + l <= Len(w) => f[a + l] >= c}
  <2>1. 0 \in T
    BY <1>4
  <2>2. ASSUME NEW l \in Nat, l \in T PROVE l + 1 \in T
    <3>1. ASSUME a + (l + 1) <= Len(w) PROVE f[a + (l + 1)] >= c
      <4>1. /\ a + (l + 1) \in 1..Len(w) /\ (a + (l + 1)) - 1 = a + l /\ f[a + l] >= c
            /\ a + l \in 0..Len(w) /\ a + (l + 1) \in 0..Len(w)
        BY <1>2, <2>2, <3>1
      <4>2. f[a + (l + 1)] >= f[a + l]
        BY <1>3, <4>1
      <4>3. f[a + l] \in Nat /\ f[a + (l + 1)] \in Nat
        BY <4>1
      <4> QED BY <4>1, <4>2, <4>3
    <3> QED BY <3>1
  <2>3. Nat \subseteq T
    <3> HIDE DEF T
    <3> QED BY <2>1, <2>2, Induct
  <2>4. Len(w) - a \in Nat /\ a + (Len(w) - a) = Len(w)
    BY <1>2
  <2> QED BY <2>3, <2>4
<1>5. f[1] = w[1] /\ f[1] >= 1 /\ 1 \in 1..Len(w)
  <2>1. 1 \in 1..Len(w) /\ f[1] = f[1 - 1] * b + w[1]
    BY <1>1, <1>2
  <2> QED BY <1>1, <1>2, <2>1
<1>6. f[Len(w)] \in Nat \ {0}
  <2>1. f[Len(w)] \in Nat
    BY <1>1, <1>2
  <2>2. f[Len(w)] >= 1
    BY <1>4, <1>5
  <2> QED BY <2>1, <2>2
<1>7. ASSUME Len(w) > 5 PROVE f[Len(w)] >= b * b * b * b * b
  <2>0. 0..6 \subseteq 0..Len(w) /\ 1..6 \subseteq 1..Len(w)
    BY <1>2, <1>7
  <2>1. \A j \in 0..6 : f[j] \in Nat
    BY <1>1, <2>0
  <2>2. ASSUME NEW j \in 2..6, NEW c \in Nat, f[j - 1] >= c PROVE f[j] >= c * b
    <3>1. j - 1 \in 0..6 /\ j \in 0..6 /\ j \in 1..6
      OBVIOUS
    <3>2. f[j - 1] \in Nat /\ f[j] \in Nat /\ f[j] >= f[j - 1] * b
      BY <1>3, <2>0, <2>1, <3>1
    <3>3. c <= f[j - 1] /\ b \in Nat
      BY <2>2, <3>2
    <3>4. c * b <= f[j - 1] * b
      BY <3>2, <3>3, Monotone
    <3>5. c * b \in Nat /\ f[j - 1] * b \in Nat
      BY <3>2, <3>3
    <3> QED BY <3>2, <3>4, <3>5
  <2>3. f[2] >= 1 * b
    BY <1>5, <2>2
  <2>4. 1 * b = b /\ b * b \in Nat /\ b * b * b \in Nat /\ b * b * b * b \in Nat /\ b * b * b * b * b \in Nat
    OBVIOUS
  <2>5. f[3] >= b * b
    BY <2>2, <2>3, <2>4
  <2>6. f[4] >= b * b * b
    BY <2>2, <2>4, <2>5
  <2>7. f[5] >= b * b * b * b
    BY <2>2, <2>4, <2>6
  <2>8. f[6] >= b * b * b * b * b
    BY <2>2, <2>4, <2>7
  <2> QED BY <1>4, <2>0, <2>4, <2>8
<1> QED BY <1>1, <1>6, <1>7

-----------------------------------------------------------------------------
(* Integers of a fixed size                                                 *)

Signed == {"int16", "int32", "int64"}

(* The place of a word is the product of the places before.                 *)
LEMMA ModProduct ==
    ASSUME NEW x \in Int, NEW a \in Nat \ {0}, NEW b \in Nat \ {0}
    PROVE  /\ x % (a * b) = ((x \div a) % b) * a + (x % a)
           /\ x \div (a * b) = (x \div a) \div b
OBVIOUS

(* Ranges are not empty.                                                    *)
LEMMA SpanFacts ==
    /\ Word \in Nat \ {0} /\ Byte \in Nat \ {0} /\ Word * Word \in Nat \ {0} /\ Wide \in Nat \ {0}
    /\ \A t \in Types : Span[t] \in Nat \ {0} /\ Lowest(t) \in Int
<1>1. Word \in Nat \ {0} /\ Byte \in Nat \ {0}
  BY ScaleFacts, ScaleAssumption
<1>2. Word * Word \in Nat \ {0}
  BY <1>1
<1>3. Wide \in Nat \ {0}
  <2>1. Word * Word * Word \in Nat \ {0}
    BY <1>1, <1>2
  <2> QED BY <1>1, <2>1 DEF Wide
<1>4. \A t \in Types : Span[t] \in {1, Byte, Word, Word * Word, Wide}
  BY DEF Types, Span
<1>5. \A t \in Types : Span[t] \in Nat \ {0}
  BY <1>1, <1>2, <1>3, <1>4
<1>6. \A t \in Types : Lowest(t) \in Int
  BY <1>5 DEF Lowest
<1> QED BY <1>1, <1>2, <1>3, <1>5, <1>6

(* Conversion to a type gives a value of the type, and keeps one.           *)
LEMMA CastFits ==
    ASSUME NEW t \in Types, NEW x \in Int
    PROVE  /\ Cast(x, t) \in Int /\ Fits(Cast(x, t), t)
           /\ Fits(x, t) => Cast(x, t) = x
           /\ Cast(x % Span[t], t) = Cast(x, t)
<1> DEFINE S == Span[t]
           L == Lowest(t)
<1>1. S \in Nat \ {0} /\ L \in Int
  BY SpanFacts
<1>2. ASSUME NEW y \in Int, NEW s \in Nat \ {0}, NEW l \in Int
      PROVE  /\ ((y - l) % s) + l \in Int /\ ((y - l) % s) + l >= l /\ ((y - l) % s) + l < l + s
             /\ y >= l /\ y < l + s => ((y - l) % s) + l = y
  BY <1>2
<1>3. ASSUME NEW y \in Int, NEW s \in Nat \ {0}, NEW l \in Int
      PROVE  ((y % s) - l) % s = (y - l) % s
  <2>1. y = (y \div s) * s + (y % s) /\ y \div s \in Int /\ y % s \in 0..s-1
    BY <1>3
  <2>2. y - l = (y \div s) * s + ((y % s) - l)
    BY <2>1
  <2>3. ASSUME NEW z \in Int, NEW q \in Int PROVE (q * s + z) % s = z % s
    <3>1. z = (z \div s) * s + (z % s) /\ z \div s \in Int /\ z % s \in 0..s-1
      BY <1>3, <2>3
    <3>2. q * s + z = (q + (z \div s)) * s + (z % s)
      BY <2>3, <3>1
    <3>3. ASSUME NEW w \in Int, NEW d \in Int, NEW r \in 0..s-1, w = d * s + r PROVE w % s = r
      BY <1>3, <3>3
    <3> DEFINE w == q * s + z
               d == q + (z \div s)
               r == z % s
    <3>4. w \in Int /\ d \in Int /\ r \in 0..s-1 /\ w = d * s + r
      BY <1>3, <2>3, <3>1, <3>2
    <3> HIDE DEF w, d, r
    <3>5. w % s = r
      BY <3>3, <3>4
    <3> QED BY <3>5 DEF w, r
  <2> DEFINE z == (y % s) - l
             q == y \div s
  <2>4. z \in Int /\ q \in Int /\ y - l = q * s + z
    BY <1>3, <2>1, <2>2
  <2> HIDE DEF z, q
  <2>5. (y - l) % s = z % s
    BY <2>3, <2>4
  <2> QED BY <2>5 DEF z
<1>4. Cast(x, t) = ((x - L) % S) + L
  BY DEF Cast
<1>5. Cast(x % S, t) = (((x % S) - L) % S) + L
  BY DEF Cast
<1>6. Fits(x, t) <=> x >= L /\ x < L + S
  BY DEF Fits
<1>7. Fits(Cast(x, t), t) <=> Cast(x, t) >= L /\ Cast(x, t) < L + S
  BY DEF Fits
<1> HIDE DEF S, L
<1>8. Cast(x, t) \in Int /\ Fits(Cast(x, t), t) /\ (Fits(x, t) => Cast(x, t) = x)
  BY <1>1, <1>2, <1>4, <1>6, <1>7
<1>9. Cast(x % S, t) = Cast(x, t)
  BY <1>1, <1>3, <1>4, <1>5
<1> QED BY <1>8, <1>9 DEF S

(* Types of which each is part of the next.                                 *)
LEMMA FitsWider ==
    ASSUME NEW t \in DOMAIN Normalize, NEW x \in Int, Fits(x, t)
    PROVE  Normalize[t] \in Signed /\ Fits(x, Normalize[t])
<1>1. Byte \in Nat /\ Byte >= 4 /\ Word = Byte * Byte
  BY ScaleAssumption DEF Word
<1>2. Word \in Nat /\ Word >= 4 * Byte
  BY <1>1
<1>3. Word * Word \in Nat /\ Word * Word >= 4 * Word
  BY <1>1, <1>2
<1>4. Wide = (Word * Word) * (Word * Word)
  BY <1>2 DEF Wide
<1> DEFINE D == Word * Word
<1>5. D \in Nat /\ D >= 4 * Word /\ D >= 4 /\ Wide = D * D
  BY <1>1, <1>2, <1>3, <1>4
<1> HIDE DEF D
<1>6. D * D >= 4 * D /\ D * D \in Nat
  BY <1>5
<1>7. /\ Wide \in Nat /\ Wide >= 4 * D
  BY <1>5, <1>6
<1>8. /\ t \in {"int8", "int16", "int32", "int64", "uint8", "uint16", "uint32"}
      /\ Normalize[t] = CASE t \in {"int8", "int16", "uint8"} -> "int16"
                          [] t \in {"int32", "uint16"} -> "int32"
                          [] t \in {"int64", "uint32"} -> "int64"
  BY DEF Normalize
<1>9. /\ Span["int8"] = Byte /\ Span["uint8"] = Byte /\ Span["int16"] = Word /\ Span["uint16"] = Word
      /\ Span["int32"] = D /\ Span["uint32"] = D /\ Span["int64"] = Wide
  BY DEF Span, D
<1>10. /\ Lowest("int8") = -(Byte \div 2) /\ Lowest("int16") = -(Word \div 2) /\ Lowest("int32") = -(D \div 2)
       /\ Lowest("int64") = -(Wide \div 2) /\ Lowest("uint8") = 0 /\ Lowest("uint16") = 0 /\ Lowest("uint32") = 0
  BY <1>9 DEF Lowest
<1>11. /\ Word \div 2 \in Nat /\ Byte \div 2 <= Word \div 2 /\ Byte <= -(Word \div 2) + Word
       /\ -(Byte \div 2) + Byte <= -(Word \div 2) + Word
       /\ D \div 2 \in Nat /\ Word <= -(D \div 2) + D
       /\ Wide \div 2 \in Nat /\ D <= -(Wide \div 2) + Wide
  BY <1>1, <1>2, <1>5, <1>7
<1>12. CASE t \in {"int16", "int32", "int64"}
  BY <1>8, <1>12 DEF Signed
<1>13. CASE t = "int8"
  <2>1. x >= -(Byte \div 2) /\ x < -(Byte \div 2) + Byte
    BY <1>9, <1>10, <1>13 DEF Fits
  <2>2. x >= -(Word \div 2) /\ x < -(Word \div 2) + Word
    BY <1>1, <1>2, <1>11, <2>1
  <2> QED BY <1>8, <1>9, <1>10, <1>13, <2>2 DEF Signed, Fits
<1>14. CASE t = "uint8"
  <2>1. x >= 0 /\ x < Byte
    BY <1>1, <1>9, <1>10, <1>14 DEF Fits
  <2>2. x >= -(Word \div 2) /\ x < -(Word \div 2) + Word
    BY <1>1, <1>2, <1>11, <2>1
  <2> QED BY <1>8, <1>9, <1>10, <1>14, <2>2 DEF Signed, Fits
<1>15. CASE t = "uint16"
  <2>1. x >= 0 /\ x < Word
    BY <1>2, <1>9, <1>10, <1>15 DEF Fits
  <2>2. x >= -(D \div 2) /\ x < -(D \div 2) + D
    BY <1>2, <1>5, <1>11, <2>1
  <2> QED BY <1>8, <1>9, <1>10, <1>15, <2>2 DEF Signed, Fits
<1>16. CASE t = "uint32"
  <2>1. x >= 0 /\ x < D
    BY <1>5, <1>9, <1>10, <1>16 DEF Fits
  <2>2. x >= -(Wide \div 2) /\ x < -(Wide \div 2) + Wide
    BY <1>5, <1>7, <1>11, <2>1
  <2> QED BY <1>8, <1>9, <1>10, <1>16, <2>2 DEF Signed, Fits
<1> QED BY <1>8, <1>12, <1>13, <1>14, <1>15, <1>16

-----------------------------------------------------------------------------
(* Words                                                                    *)

(* One, two and four words as a number.                                     *)
LEMMA Words ==
    ASSUME NEW b \in Nat, NEW w \in Seq(Nat)
    PROVE  /\ Len(w) = 1 => Positional(b, w) = w[1]
           /\ Len(w) = 2 => Positional(b, w) = w[1] * b + w[2]
           /\ Len(w) = 4 => Positional(b, w) = w[1] * (b * b * b) + w[2] * (b * b) + w[3] * b + w[4]
<1>1. PICK f \in [0..Len(w) -> Nat] :
             /\ f[0] = 0 /\ \A j \in 1..Len(w) : f[j] = f[j - 1] * b + w[j]
             /\ Positional(b, w) = f[Len(w)]
  BY PositionalUnfold
<1>2. \A j \in 1..Len(w) : w[j] \in Nat
  BY ElementOfSeq
<1>3. ASSUME 1 \in 1..Len(w) PROVE f[1] = w[1]
  <2>1. f[1] = f[1 - 1] * b + w[1] /\ w[1] \in Nat
    BY <1>1, <1>2, <1>3
  <2> QED BY <1>1, <2>1
<1>4. ASSUME 2 \in 1..Len(w), 1 \in 1..Len(w) PROVE f[2] = w[1] * b + w[2]
  <2>1. f[2] = f[2 - 1] * b + w[2] /\ 2 - 1 = 1
    BY <1>1, <1>4
  <2> QED BY <1>3, <1>4, <2>1
<1>5. ASSUME 1..Len(w) = 1..4 PROVE f[4] = w[1] * (b * b * b) + w[2] * (b * b) + w[3] * b + w[4]
  <2>1. 1 \in 1..Len(w) /\ 2 \in 1..Len(w) /\ 3 \in 1..Len(w) /\ 4 \in 1..Len(w)
    BY <1>5
  <2>2. w[1] \in Nat /\ w[2] \in Nat /\ w[3] \in Nat /\ w[4] \in Nat
    BY <1>2, <2>1
  <2>3. f[3] = f[2] * b + w[3] /\ f[4] = f[3] * b + w[4]
    <3>1. f[3] = f[3 - 1] * b + w[3] /\ f[4] = f[4 - 1] * b + w[4] /\ 3 - 1 = 2 /\ 4 - 1 = 3
      BY <1>1, <2>1
    <3> QED BY <3>1
  <2>4. f[2] = w[1] * b + w[2]
    BY <1>4, <2>1
  <2>5. \A p, q, r, s \in Nat : ((p * b + q) * b + r) * b + s = p * (b * b * b) + q * (b * b) + r * b + s
    OBVIOUS
  <2>6. f[4] = ((w[1] * b + w[2]) * b + w[3]) * b + w[4]
    BY <2>3, <2>4
  <2> DEFINE p == w[1]  q == w[2]  r == w[3]  s == w[4]
  <2>7. f[4] = ((p * b + q) * b + r) * b + s /\ p \in Nat /\ q \in Nat /\ r \in Nat /\ s \in Nat
    BY <2>2, <2>6
  <2> HIDE DEF p, q, r, s
  <2>8. f[4] = p * (b * b * b) + q * (b * b) + r * b + s
    BY <2>5, <2>7
  <2> QED BY <2>8 DEF p, q, r, s
<1>6. Len(w) = 1 => Positional(b, w) = w[1]
  BY <1>1, <1>3
<1>7. Len(w) = 2 => Positional(b, w) = w[1] * b + w[2]
  BY <1>1, <1>4
<1>8. Len(w) = 4 => Positional(b, w) = w[1] * (b * b * b) + w[2] * (b * b) + w[3] * b + w[4]
  BY <1>1, <1>5
<1> QED BY <1>6, <1>7, <1>8

(* The words of a number are the number, modulo what they can hold.         *)
LEMMA WordsEncoded ==
    ASSUME NEW x \in Int
    PROVE  /\ \A n \in 1..4 : /\ EncodeFixed(x, n) \in Seq(Nat) /\ Len(EncodeFixed(x, n)) = n
                              /\ EncodeFixed(x, n) \in Seq(0..Word-1)
           /\ Positional(Word, EncodeFixed(x, 1)) = x % Word
           /\ Positional(Word, EncodeFixed(x, 2)) = x % (Word * Word)
           /\ Positional(Word, EncodeFixed(x, 4)) = x % Wide
<1> DEFINE W == Word
           e == [n \in 1..4 |-> EncodeFixed(x, n)]
<1>1. W \in Nat \ {0} /\ W * W \in Nat \ {0} /\ W * W * W \in Nat \ {0} /\ Wide = (W * W * W) * W
  <2>1. W \in Nat \ {0} /\ W * W \in Nat \ {0}
    BY SpanFacts
  <2>2. W * W * W \in Nat \ {0}
    BY <2>1
  <2> QED BY <2>1, <2>2 DEF Wide
<1>2. Place[1] = 1 /\ Place[2] = W /\ Place[3] = W * W /\ Place[4] = W * W * W
  BY DEF Place
<1>3. \A n \in 1..4 : \A j \in 1..n : n - j + 1 \in 1..4
  OBVIOUS
<1>4. \A j \in 1..4 : Place[j] \in Nat \ {0}
  BY <1>1, <1>2
<1>5. \A n \in 1..4 : \A j \in 1..n : (x \div Place[n - j + 1]) % W \in 0..W-1
  <2>1. ASSUME NEW p \in Nat \ {0} PROVE (x \div p) % W \in 0..W-1
    <3>1. x \div p \in Int
      BY <2>1
    <3> HIDE DEF W
    <3> QED BY <1>1, <3>1
  <2> QED BY <1>3, <1>4, <2>1
<1>6. ASSUME NEW n \in 1..4
      PROVE  /\ EncodeFixed(x, n) \in [1..n -> 0..W-1] /\ DOMAIN EncodeFixed(x, n) = 1..n
             /\ EncodeFixed(x, n) \in Seq(Nat) /\ EncodeFixed(x, n) \in Seq(0..W-1)
             /\ Len(EncodeFixed(x, n)) = n
             /\ \A j \in 1..n : EncodeFixed(x, n)[j] = (x \div Place[n - j + 1]) % W
  <2>1. EncodeFixed(x, n) \in [1..n -> 0..W-1]
    BY <1>5 DEF EncodeFixed
  <2>2. EncodeFixed(x, n) \in [1..n -> Nat] /\ n \in Nat
    BY <1>1, <2>1
  <2>3. EncodeFixed(x, n) \in Seq(Nat) /\ EncodeFixed(x, n) \in Seq(0..W-1)
    BY <2>1, <2>2, SeqDef
  <2>4. \A j \in 1..n : EncodeFixed(x, n)[j] = (x \div Place[n - j + 1]) % W
    BY DEF EncodeFixed
  <2>5. DOMAIN EncodeFixed(x, n) = 1..n
    BY DEF EncodeFixed
  <2>6. Len(EncodeFixed(x, n)) = n
    <3> DEFINE q == EncodeFixed(x, n)
    <3>1. q \in Seq(Nat) /\ DOMAIN q = 1..n /\ n \in Nat
      BY <2>2, <2>3, <2>5
    <3> HIDE DEF q
    <3>2. Len(q) = n
      BY <3>1, LenProperties
    <3> QED BY <3>2 DEF q
  <2> QED BY <2>1, <2>3, <2>4, <2>5, <2>6
<1>7. x \div 1 = x
  OBVIOUS
<1>8. EncodeFixed(x, 1)[1] = x % W
  <2>1. EncodeFixed(x, 1)[1] = (x \div Place[1 - 1 + 1]) % W /\ 1 - 1 + 1 = 1
    BY <1>6
  <2> QED BY <1>2, <1>7, <2>1
<1>9. EncodeFixed(x, 2)[1] = (x \div W) % W /\ EncodeFixed(x, 2)[2] = x % W
  <2>1. /\ EncodeFixed(x, 2)[1] = (x \div Place[2 - 1 + 1]) % W /\ 2 - 1 + 1 = 2
        /\ EncodeFixed(x, 2)[2] = (x \div Place[2 - 2 + 1]) % W /\ 2 - 2 + 1 = 1
    BY <1>6
  <2> QED BY <1>2, <1>7, <2>1
<1>10. /\ EncodeFixed(x, 4)[1] = (x \div (W * W * W)) % W /\ EncodeFixed(x, 4)[2] = (x \div (W * W)) % W
       /\ EncodeFixed(x, 4)[3] = (x \div W) % W /\ EncodeFixed(x, 4)[4] = x % W
  <2>1. /\ EncodeFixed(x, 4)[1] = (x \div Place[4 - 1 + 1]) % W /\ 4 - 1 + 1 = 4
        /\ EncodeFixed(x, 4)[2] = (x \div Place[4 - 2 + 1]) % W /\ 4 - 2 + 1 = 3
    BY <1>6
  <2>2. /\ EncodeFixed(x, 4)[3] = (x \div Place[4 - 3 + 1]) % W /\ 4 - 3 + 1 = 2
        /\ EncodeFixed(x, 4)[4] = (x \div Place[4 - 4 + 1]) % W /\ 4 - 4 + 1 = 1
    BY <1>6
  <2> QED BY <1>2, <1>7, <2>1, <2>2
<1>11. Positional(W, EncodeFixed(x, 1)) = EncodeFixed(x, 1)[1]
  <2> DEFINE q == EncodeFixed(x, 1)
  <2>1. q \in Seq(Nat) /\ Len(q) = 1 /\ W \in Nat
    BY <1>1, <1>6
  <2> HIDE DEF q, W
  <2>2. Positional(W, q) = q[1]
    BY <2>1, Words
  <2> QED BY <2>2 DEF q
<1>12. Positional(W, EncodeFixed(x, 2)) = EncodeFixed(x, 2)[1] * W + EncodeFixed(x, 2)[2]
  <2> DEFINE q == EncodeFixed(x, 2)
  <2>1. q \in Seq(Nat) /\ Len(q) = 2 /\ W \in Nat
    BY <1>1, <1>6
  <2> HIDE DEF q, W
  <2>2. Positional(W, q) = q[1] * W + q[2]
    BY <2>1, Words
  <2> QED BY <2>2 DEF q
<1>13. Positional(W, EncodeFixed(x, 4)) = EncodeFixed(x, 4)[1] * (W * W * W) + EncodeFixed(x, 4)[2] * (W * W)
                                          + EncodeFixed(x, 4)[3] * W + EncodeFixed(x, 4)[4]
  <2> DEFINE q == EncodeFixed(x, 4)
  <2>1. q \in Seq(Nat) /\ Len(q) = 4 /\ W \in Nat
    BY <1>1, <1>6
  <2> HIDE DEF q, W
  <2>2. Positional(W, q) = q[1] * (W * W * W) + q[2] * (W * W) + q[3] * W + q[4]
    BY <2>1, Words
  <2> QED BY <2>2 DEF q
<1>14. x % (W * W) = ((x \div W) % W) * W + (x % W)
  <2> HIDE DEF W
  <2> QED BY <1>1, ModProduct
<1>15. /\ x % ((W * W) * W) = ((x \div (W * W)) % W) * (W * W) + (x % (W * W))
       /\ x % ((W * W * W) * W) = ((x \div (W * W * W)) % W) * (W * W * W) + (x % ((W * W) * W))
  <2> HIDE DEF W
  <2> DEFINE a == W * W  c == W * W * W
  <2>1. a \in Nat \ {0} /\ c \in Nat \ {0} /\ c = a * W
    BY <1>1
  <2> HIDE DEF a, c
  <2>2. x % (a * W) = ((x \div a) % W) * a + (x % a)
    BY <1>1, <2>1, ModProduct
  <2>3. x % (c * W) = ((x \div c) % W) * c + (x % c)
    BY <1>1, <2>1, ModProduct
  <2>4. x % (c * W) = ((x \div c) % W) * c + (x % (a * W))
    BY <2>1, <2>3
  <2> QED BY <2>2, <2>4 DEF a, c
<1>16. Positional(W, EncodeFixed(x, 4)) = x % Wide
  <2> DEFINE p == ((x \div (W * W * W)) % W) * (W * W * W)
             q == ((x \div (W * W)) % W) * (W * W)
             r == ((x \div W) % W) * W
             s == x % W
  <2>1. p \in Int /\ q \in Int /\ r \in Int /\ s \in Int
    <3>1. \A d \in Nat \ {0} : ((x \div d) % W) * d \in Int
      <4> TAKE d \in Nat \ {0}
      <4>1. x \div d \in Int
        OBVIOUS
      <4>2. (x \div d) % W \in Int
        <5> HIDE DEF W
        <5> QED BY <1>1, <4>1
      <4> QED BY <4>2
    <3>2. s \in Int
      <4> HIDE DEF W
      <4> QED BY <1>1
    <3> HIDE DEF W
    <3> QED BY <1>1, <3>1, <3>2
  <2>2. Positional(W, EncodeFixed(x, 4)) = p + q + r + s
    <3> HIDE DEF W
    <3> QED BY <1>10, <1>13
  <2>3. x % Wide = p + (q + (r + s))
    <3> HIDE DEF W
    <3> QED BY <1>1, <1>14, <1>15
  <2> HIDE DEF p, q, r, s
  <2> QED BY <2>1, <2>2, <2>3
<1>17. Positional(W, EncodeFixed(x, 1)) = x % W /\ Positional(W, EncodeFixed(x, 2)) = x % (W * W)
  <2> HIDE DEF W
  <2> QED BY <1>8, <1>9, <1>11, <1>12, <1>14
<1> HIDE DEF e
<1> QED BY <1>6, <1>16, <1>17

(* A signed type is part of the next.                                       *)
LEMMA SignedChain ==
    ASSUME NEW x \in Int
    PROVE  /\ Fits(x, "int16") => Fits(x, "int32")
           /\ Fits(x, "int32") => Fits(x, "int64")
<1> DEFINE D == Word * Word
<1>1. Word \in Nat /\ Word >= 16
  BY ScaleFacts
<1>2. D \in Nat /\ D >= 16 * Word
  BY <1>1
<1>3. Wide = D * D
  BY <1>1 DEF Wide
<1>4. Span["int16"] = Word /\ Span["int32"] = D /\ Span["int64"] = Wide
  BY DEF Span
<1> HIDE DEF D
<1>5. Wide \in Nat /\ Wide >= 16 * D
  BY <1>1, <1>2, <1>3
<1>6. /\ Lowest("int16") = -(Word \div 2) /\ Lowest("int32") = -(D \div 2)
      /\ Lowest("int64") = -(Wide \div 2)
  BY <1>4 DEF Lowest
<1>7. ASSUME NEW a \in Nat, NEW b \in Nat, a >= 16, b >= 16 * a, x >= -(a \div 2), x < -(a \div 2) + a
      PROVE  x >= -(b \div 2) /\ x < -(b \div 2) + b
  BY <1>7
<1>8. D >= 16
  BY <1>1, <1>2
<1>9. Fits(x, "int16") => Fits(x, "int32")
  <2> SUFFICES ASSUME Fits(x, "int16") PROVE Fits(x, "int32")
    OBVIOUS
  <2>1. x >= -(Word \div 2) /\ x < -(Word \div 2) + Word
    BY <1>4, <1>6 DEF Fits
  <2>2. x >= -(D \div 2) /\ x < -(D \div 2) + D
    BY <1>1, <1>2, <1>7, <2>1
  <2> QED BY <1>4, <1>6, <2>2 DEF Fits
<1>10. Fits(x, "int32") => Fits(x, "int64")
  <2> SUFFICES ASSUME Fits(x, "int32") PROVE Fits(x, "int64")
    OBVIOUS
  <2>1. x >= -(D \div 2) /\ x < -(D \div 2) + D
    BY <1>4, <1>6 DEF Fits
  <2>2. x >= -(Wide \div 2) /\ x < -(Wide \div 2) + Wide
    BY <1>2, <1>5, <1>7, <1>8, <2>1
  <2> QED BY <1>4, <1>6, <2>2 DEF Fits
<1> QED BY <1>9, <1>10

(* What is read from one, two or four words has the type of the size.       *)
LEMMA ReadsFixed ==
    ASSUME wire \in Seq(0..Word-1), Len(wire) \in {1, 2, 4}
    PROVE  /\ Positional(Word, wire) \in Nat /\ ReadBigEndian \in Int
           /\ Len(wire) = 1 => /\ ReadBigEndian = Cast(Positional(Word, wire), "int16")
                               /\ Fits(ReadBigEndian, "int16")
           /\ Len(wire) = 2 => /\ ReadBigEndian = Cast(Positional(Word, wire), "int32")
                               /\ Fits(ReadBigEndian, "int32")
           /\ Len(wire) = 4 => /\ ReadBigEndian = Cast(Positional(Word, wire), "int64")
                               /\ Fits(ReadBigEndian, "int64")
<1> DEFINE P == Positional(Word, wire)
<1>1. wire \in Seq(Nat) /\ Word \in Nat
  BY ScaleFacts, SeqMonotonic
<1>2. PICK f \in [0..Len(wire) -> Nat] : Positional(Word, wire) = f[Len(wire)]
  BY <1>1, PositionalUnfold
<1>3. P \in Nat
  BY <1>1, <1>2, LenProperties
<1>4. /\ Len(wire) = 1 => ReadBigEndian = Cast(P, "int16")
      /\ Len(wire) = 2 => ReadBigEndian = Cast(P, "int32")
      /\ Len(wire) = 4 => ReadBigEndian = Cast(P, "int64")
  BY DEF ReadBigEndian
<1>5. "int16" \in Types /\ "int32" \in Types /\ "int64" \in Types
  BY DEF Types, Span
<1> HIDE DEF P
<1>6. P \in Int
  BY <1>3
<1>7. ASSUME NEW t \in {"int16", "int32", "int64"} PROVE Cast(P, t) \in Int /\ Fits(Cast(P, t), t)
  <2>1. t \in Types
    BY <1>5
  <2> QED BY <1>6, <2>1, CastFits
<1> QED BY <1>3, <1>4, <1>7 DEF P

(* What ToBinary wrote is read as it was.                                   *)
LEMMA ReadsWritten ==
    ASSUME NEW t \in Signed, NEW x \in Int, wire = EncodeFixed(x, Width[t])
    PROVE  /\ wire \in Seq(0..Word-1) /\ Len(wire) = Width[t]
           /\ ReadBigEndian = Cast(x, t)
<1>1. Width["int16"] = 1 /\ Width["int32"] = 2 /\ Width["int64"] = 4
  BY DEF Width
<1>2. Span["int16"] = Word /\ Span["int32"] = Word * Word /\ Span["int64"] = Wide
  BY DEF Span
<1>3. t \in Types /\ t \in {"int16", "int32", "int64"}
  BY DEF Signed, Types, Span
<1>4. wire \in Seq(0..Word-1) /\ Len(wire) = Width[t] /\ Len(wire) \in {1, 2, 4}
  <2>1. Width[t] \in 1..4 /\ Width[t] \in {1, 2, 4}
    BY <1>1, <1>3
  <2>2. \A n \in 1..4 : EncodeFixed(x, n) \in Seq(0..Word-1) /\ Len(EncodeFixed(x, n)) = n
    BY WordsEncoded
  <2> QED BY <2>1, <2>2
<1>5. Cast(x % Span[t], t) = Cast(x, t)
  BY <1>3, CastFits
<1>6. Positional(Word, wire) = x % Span[t]
  BY <1>1, <1>2, <1>3, WordsEncoded
<1>7. ReadBigEndian = Cast(Positional(Word, wire), t)
  BY <1>1, <1>3, <1>4, ReadsFixed
<1> QED BY <1>4, <1>5, <1>6, <1>7

(* A conversion on the way does not matter for a sum.                       *)
LEMMA CastShift ==
    ASSUME NEW t \in Types, NEW x \in Int, NEW e \in Int
    PROVE  Cast(Cast(x, t) + e, t) = Cast(x + e, t)
<1> DEFINE S == Span[t]
           L == Lowest(t)
<1>1. S \in Nat \ {0} /\ L \in Int
  BY SpanFacts
<1>2. ASSUME NEW y \in Int, NEW s \in Nat \ {0}, NEW l \in Int, NEW d \in Int
      PROVE  ((((y - l) % s) + l + d) - l) % s = ((y + d) - l) % s
  <2> DEFINE q == (y - l) \div s
             r == (y - l) % s
             z == r + d
             w == (y + d) - l
  <2>1. y - l = q * s + r /\ q \in Int /\ r \in 0..s-1
    <3>1. ASSUME NEW a \in Int PROVE a = (a \div s) * s + (a % s) /\ a \div s \in Int /\ a % s \in 0..s-1
      BY <1>2, <3>1
    <3>2. y - l \in Int
      BY <1>2
    <3> DEFINE a == y - l
    <3>3. a \in Int
      BY <3>2
    <3> HIDE DEF a
    <3>4. a = (a \div s) * s + (a % s) /\ a \div s \in Int /\ a % s \in 0..s-1
      BY <3>1, <3>3
    <3> QED BY <3>4 DEF a
  <2> HIDE DEF q, r
  <2>2. w = q * s + z /\ z \in Int /\ w \in Int
    BY <1>2, <2>1
  <2>3. (r + l + d) - l = z
    BY <1>2, <2>1
  <2> HIDE DEF w, z
  <2>4. z = (z \div s) * s + (z % s) /\ z \div s \in Int /\ z % s \in 0..s-1
    BY <1>2, <2>2
  <2>5. w = (q + (z \div s)) * s + (z % s)
    BY <1>2, <2>1, <2>2, <2>4
  <2>6. ASSUME NEW a \in Int, NEW b \in Int, NEW c \in 0..s-1, a = b * s + c PROVE a % s = c
    BY <1>2, <2>6
  <2> DEFINE b == q + (z \div s)
             c == z % s
  <2>7. b \in Int /\ c \in 0..s-1 /\ w = b * s + c
    BY <2>1, <2>4, <2>5
  <2> HIDE DEF b, c
  <2>8. w % s = c
    BY <2>2, <2>6, <2>7
  <2> QED BY <2>3, <2>8 DEF w, c, r
<1>3. Cast(x, t) = ((x - L) % S) + L
  BY DEF Cast
<1>4. Cast(Cast(x, t) + e, t) = (((((x - L) % S) + L + e) - L) % S) + L
  BY <1>3 DEF Cast
<1>5. Cast(x + e, t) = (((x + e) - L) % S) + L
  BY DEF Cast
<1> HIDE DEF S, L
<1> QED BY <1>1, <1>2, <1>4, <1>5

(* A time loses what is below a microsecond on its way, and no more: what   *)
(* is left is still a time.                                                 *)
LEMMA Truncated ==
    ASSUME value \in Int, Fits(value, "timestamp")
    PROVE  /\ Microseconds \in Int /\ Fits(Microseconds, "int64")
           /\ Microseconds * Ticks \in Int /\ Fits(Microseconds * Ticks, "timestamp")
<1>1. Ticks \in Nat \ {0}
  BY ScaleAssumption
<1>2. Wide \in Nat \ {0}
  BY SpanFacts
<1>3. Span["timestamp"] = Wide /\ Span["int64"] = Wide
  BY DEF Span
<1>4. Lowest("timestamp") = -(Wide \div 2) /\ Lowest("int64") = -(Wide \div 2)
  BY <1>3 DEF Lowest
<1>5. value >= -(Wide \div 2) /\ value < -(Wide \div 2) + Wide
  BY <1>3, <1>4 DEF Fits
<1>6. ASSUME NEW a \in Nat
      PROVE  a \div Ticks \in Nat /\ a \div Ticks <= (a \div Ticks) * Ticks /\ (a \div Ticks) * Ticks <= a
             /\ (a \div Ticks) * Ticks \in Nat
  BY <1>1, <1>6
<1> DEFINE M == Microseconds
           P == Microseconds * Ticks
<1>7. CASE value >= 0
  <2>1. M = value \div Ticks /\ value \in Nat
    BY <1>7 DEF Microseconds
  <2>2. M \in Nat /\ M <= P /\ P <= value /\ P \in Nat
    BY <1>6, <2>1
  <2> HIDE DEF M, P
  <2>3. /\ M >= -(Wide \div 2) /\ M < -(Wide \div 2) + Wide
        /\ P >= -(Wide \div 2) /\ P < -(Wide \div 2) + Wide
    BY <1>2, <1>5, <2>1, <2>2
  <2> QED BY <1>3, <1>4, <2>2, <2>3 DEF M, P, Fits
<1>8. CASE value < 0
  <2> DEFINE q == (-value) \div Ticks
             r == q * Ticks
  <2>1. M = -q /\ -value \in Nat
    BY <1>8 DEF Microseconds
  <2>2. q \in Nat /\ q <= r /\ r <= -value /\ r \in Nat
    <3> DEFINE a == -value
    <3>1. a \in Nat
      BY <2>1
    <3> HIDE DEF a
    <3>2. a \div Ticks \in Nat /\ a \div Ticks <= (a \div Ticks) * Ticks /\ (a \div Ticks) * Ticks <= a
          /\ (a \div Ticks) * Ticks \in Nat
      BY <1>6, <3>1
    <3> QED BY <3>2 DEF a
  <2> HIDE DEF q
  <2>3. P = -r
    BY <1>1, <2>1, <2>2
  <2> HIDE DEF M, P, r
  <2>4. /\ M >= -(Wide \div 2) /\ M < -(Wide \div 2) + Wide
        /\ P >= -(Wide \div 2) /\ P < -(Wide \div 2) + Wide
        /\ M \in Int /\ P \in Int
    BY <1>2, <1>5, <1>8, <2>1, <2>2, <2>3
  <2> QED BY <1>3, <1>4, <2>4 DEF M, P, Fits
<1> QED BY <1>7, <1>8

(* as<timestamp> multiplies what it read without harm if the clock reaches  *)
(* that far.                                                                *)
LEMMA ClockReaches ==
    ASSUME NEW x \in Int, Fits(x * Ticks, "timestamp")
    PROVE  Cast(Cast(x, "int64") * Ticks, "timestamp") = x * Ticks
<1>1. Ticks \in Nat \ {0}
  BY ScaleAssumption
<1>2. Wide \in Nat \ {0}
  BY SpanFacts
<1>3. Span["timestamp"] = Wide /\ Span["int64"] = Wide
  BY DEF Span
<1>4. Lowest("timestamp") = -(Wide \div 2) /\ Lowest("int64") = -(Wide \div 2)
  BY <1>3 DEF Lowest
<1> DEFINE P == x * Ticks
<1>5. P \in Int /\ P >= -(Wide \div 2) /\ P < -(Wide \div 2) + Wide
  BY <1>1, <1>3, <1>4 DEF Fits
<1>6. IF x >= 0 THEN x <= P ELSE P <= x
  BY <1>1
<1>7. x >= -(Wide \div 2) /\ x < -(Wide \div 2) + Wide
  <2> HIDE DEF P
  <2> QED BY <1>2, <1>5, <1>6
<1>8. Fits(x, "int64")
  BY <1>3, <1>4, <1>7 DEF Fits
<1>9. "int64" \in Types /\ "timestamp" \in Types
  BY DEF Types, Span
<1>10. Cast(x, "int64") = x
  BY <1>8, <1>9, CastFits
<1> QED BY <1>5, <1>9, <1>10, CastFits

-----------------------------------------------------------------------------
(* The parameter and the column                                             *)

(* The types of a parameter, by what ToBinary does with them.               *)
LEMMA Kinds ==
    /\ Types = Fixed \cup {"nullptr", "uint64"}
    /\ Fixed = DOMAIN Normalize \cup {"timestamp"}
    /\ "timestamp" \notin DOMAIN Normalize /\ "uint64" \notin Fixed /\ "nullptr" \notin Fixed
    /\ "none" \notin Types
BY DEF Types, Span, Fixed, Normalize

(* The size of a parameter of a fixed size.                                 *)
LEMMA FormFacts ==
    ASSUME type \in Fixed, value \in Int
    PROVE  /\ Form \in Signed /\ Width[Form] \in {1, 2, 4} /\ (Width[Form] = 4 => Form = "int64")
           /\ Meant \in Int /\ Cast(Meant, Form) \in Int /\ Form \in Types
           /\ LET w == EncodeFixed(Cast(Meant, Form), Width[Form])
              IN w \in Seq(0..Word-1) /\ Len(w) = Width[Form]
<1>1. Form \in Signed
  <2>1. CASE type = "timestamp"
    BY <2>1 DEF Form, Signed
  <2>2. CASE type # "timestamp"
    BY <2>2 DEF Form, Signed, Fixed, Normalize
  <2> QED BY <2>1, <2>2
<1>2. Width[Form] \in {1, 2, 4} /\ (Width[Form] = 4 => Form = "int64") /\ Form \in Types
  BY <1>1 DEF Signed, Width, Types, Span
<1>3. Meant \in Int
  <2>1. Ticks \in Nat \ {0} /\ Epoch \in Int
    BY ScaleAssumption
  <2>2. Microseconds \in Int
    BY <2>1 DEF Microseconds
  <2> QED BY <2>1, <2>2 DEF Meant
<1>4. Cast(Meant, Form) \in Int
  BY <1>2, <1>3, CastFits
<1>5. \A n \in 1..4 : EncodeFixed(Cast(Meant, Form), n) \in Seq(0..Word-1)
                      /\ Len(EncodeFixed(Cast(Meant, Form), n)) = n
  <2> DEFINE x == Cast(Meant, Form)
  <2>1. x \in Int
    BY <1>4
  <2> HIDE DEF x
  <2>2. \A n \in 1..4 : EncodeFixed(x, n) \in Seq(0..Word-1) /\ Len(EncodeFixed(x, n)) = n
    BY <2>1, WordsEncoded
  <2> QED BY <2>2 DEF x
<1>6. Width[Form] \in 1..4
  BY <1>2
<1> QED BY <1>1, <1>2, <1>3, <1>4, <1>5, <1>6

(* What the server takes for a NUMERIC has four words, if a fixed size.     *)
LEMMA FixedForNumeric ==
    ASSUME Written, type \in Fixed, pc = "bind", column = "none", IsNumeric(wire)
    PROVE  Form = "int64" /\ wire[1] = 0
<1>1. value \in Int
  BY Kinds DEF Written
<1>2. wire = EncodeFixed(Cast(Meant, Form), Width[Form])
  BY DEF Written, Encoding
<1>3. Len(wire) = Width[Form] /\ Width[Form] \in {1, 2, 4} /\ (Width[Form] = 4 => Form = "int64")
  BY <1>1, <1>2, FormFacts
<1>4. Len(wire) >= 4 /\ Len(wire) = 4 + wire[1]
  BY DEF IsNumeric
<1>5. wire[1] \in Int
  <2>1. wire \in Seq(0..Word-1)
    BY <1>1, <1>2, FormFacts
  <2>2. 1 \in 1..Len(wire)
    BY <1>3, <1>4
  <2>3. wire[1] \in 0..Word-1
    BY <2>1, <2>2, ElementOfSeq
  <2> QED BY <2>3
<1> QED BY <1>3, <1>4, <1>5

(* The parameter as it is written.                                          *)
LEMMA WrittenInit == Init => Written
<1> SUFFICES ASSUME Init PROVE Written
  OBVIOUS
<1>1. CASE pc = "normalize"
  <2>1. type \in Types /\ value \in Int /\ Fits(value, type) /\ wire = <<>>
    BY <1>1, SamplesAssumption DEF Init
  <2> QED BY <1>1, <2>1, Kinds DEF Written, Encoding, Own
<1>2. CASE pc = "row"
  <2>1. type = "none"
    BY <1>2 DEF Init
  <2> QED BY <1>2, <2>1, Kinds DEF Written, Encoding, Own
<1> QED BY <1>1, <1>2 DEF Init

(* A step that neither binds nor encodes a parameter.                       *)
LEMMA WrittenStays ==
    ASSUME Written, UNCHANGED <<type, value, wire>>,
           \/ pc \in {"normalize", "split", "strip"} /\ pc' \in {"normalize", "split", "strip"}
           \/ pc \in {"row", "digits"} /\ pc' \in {"row", "digits", "done"} /\ column' = column
    PROVE  Written'
<1>1. (Meant' = Meant) /\ (Form' = Form) /\ (Fixed' = Fixed)
  BY DEF Meant, Form, Fixed, Microseconds
<1> QED BY <1>1 DEF Written, Encoding, Own

(* The steps of the program and of the server on a parameter.               *)
LEMMA WrittenKept == IInv /\ [Next]_vars => Written'
<1> SUFFICES ASSUME IInv, [Next]_vars PROVE Written'
  OBVIOUS
<1>0. RoundTripInv /\ Written /\ Held
  BY DEF IInv
<1>1. /\ type \in Types \cup {"none"} /\ (Encoding \/ pc = "bind" => column = "none")
      /\ (pc \in {"split", "strip"} => type = "uint64")
  BY <1>0 DEF RoundTripInv, Phases
<1>2. type \in Types => value \in Int /\ Fits(value, type)
  BY <1>0 DEF Written
<1> HIDE DEF IInv
<1>3. ASSUME UNCHANGED <<type, value>> PROVE Meant' = Meant /\ Form' = Form
  BY <1>3 DEF Meant, Form, Microseconds
<1>4. CASE ToBinaryInteger
  <2>1. /\ UNCHANGED <<type, value, column>> /\ pc = "normalize" /\ pc' = "bind"
        /\ type \in DOMAIN Normalize
        /\ wire' = EncodeFixed(Cast(value, Normalize[type]), Width[Normalize[type]])
    BY <1>4 DEF ToBinaryInteger, Encoded
  <2>2. Form = Normalize[type] /\ Meant = value /\ type \in Types /\ column = "none" /\ type # "nullptr"
    BY <1>1, <2>1, Kinds DEF Form, Meant, Encoding
  <2>3. wire' = EncodeFixed(Cast(Meant', Form'), Width[Form'])
    BY <1>3, <2>1, <2>2
  <2> QED BY <1>2, <2>1, <2>2, <2>3, Kinds DEF Written, Encoding, Own
<1>5. CASE ToBinaryTimestamp
  <2>1. /\ UNCHANGED <<type, value, column>> /\ pc = "normalize" /\ pc' = "bind" /\ type = "timestamp"
        /\ wire' = EncodeFixed(Cast(Microseconds - Epoch, "int64"), 4)
    BY <1>5 DEF ToBinaryTimestamp, Encoded
  <2>2. Form = "int64" /\ Meant = Microseconds - Epoch /\ column = "none" /\ Width["int64"] = 4
    BY <1>1, <2>1 DEF Form, Meant, Encoding, Width
  <2>3. wire' = EncodeFixed(Cast(Meant', Form'), Width[Form'])
    BY <1>3, <2>1, <2>2
  <2> QED BY <1>2, <2>1, <2>2, <2>3, Kinds DEF Written, Encoding, Own
<1>6. CASE ToBinaryNull
  <2>1. /\ UNCHANGED <<type, value, column>> /\ pc' = "bind" /\ type = "nullptr" /\ wire' = <<>>
    BY <1>6 DEF ToBinaryNull, Encoded
  <2> QED BY <1>2, <2>1, Kinds DEF Written, Encoding, Own
<1>7. CASE EncodeZero \/ EncodeNumericUint64
  <2>1. /\ UNCHANGED <<type, value, column>> /\ pc' = "bind" /\ type = "uint64"
    BY <1>1, <1>7 DEF EncodeZero, EncodeNumericUint64, Stripped, Encoded
  <2> QED BY <1>2, <2>1, Kinds DEF Written, Encoding, Own
<1>8. CASE BeginDigits \/ SplitDigit \/ SplitEnds \/ StripZero
  <2>1. /\ UNCHANGED <<type, value, wire>>
        /\ pc \in {"normalize", "split", "strip"} /\ pc' \in {"normalize", "split", "strip"}
    BY <1>8 DEF BeginDigits, SplitDigit, SplitEnds, StripZero
  <2> QED BY <1>0, <2>1, WrittenStays
<1>9. ASSUME NEW c \in DOMAIN Size, BindFixed(c) PROVE Written'
  <2>1. /\ UNCHANGED <<type, value, wire>> /\ pc = "bind" /\ pc' = "row" /\ column' = c /\ c # "Numeric"
    BY <1>9 DEF BindFixed, Size
  <2>2. ~Encoding /\ column = "none"
    BY <1>1, <2>1 DEF Encoding
  <2> QED BY <1>0, <1>3, <2>1, <2>2, Kinds DEF Written, Encoding, Own
<1>10. ASSUME NEW c \in Columns, BindNull(c) PROVE Written'
  <2>1. /\ UNCHANGED <<type, value, wire>> /\ pc = "bind" /\ pc' = "row" /\ type = "nullptr"
    BY <1>10 DEF BindNull
  <2> QED BY <1>0, <2>1, Kinds DEF Written, Encoding, Own
<1>11. ASSUME NEW c \in Columns, Reject(c) PROVE Written'
  <2>1. /\ UNCHANGED <<type, value, wire>> /\ pc = "bind" /\ pc' = "rejected"
    BY <1>11 DEF Reject
  <2>2. ~Encoding /\ column = "none"
    BY <1>1, <2>1 DEF Encoding
  <2> QED BY <1>0, <1>3, <2>1, <2>2, Kinds DEF Written, Encoding, Own
<1>12. CASE BindNumeric
  <2>1. /\ UNCHANGED <<type, value>> /\ pc = "bind" /\ pc' = "row" /\ column' = "Numeric" /\ IsNumeric(wire)
        /\ wire[1] = 0 => wire' # <<>> /\ wire'[1] = 0
    BY <1>12 DEF BindNumeric
  <2>2. ~Encoding /\ column = "none"
    BY <1>1, <2>1 DEF Encoding
  <2>3. type \in Fixed => wire' # <<>> /\ wire'[1] = 0 /\ Form' = "int64"
    BY <1>0, <1>3, <2>1, <2>2, FixedForNumeric
  <2>4. type # "nullptr"
    <3> SUFFICES ASSUME type = "nullptr" PROVE FALSE
      OBVIOUS
    <3>1. wire = <<>>
      BY <1>0, <2>2 DEF Written
    <3> QED BY <2>1, <3>1 DEF IsNumeric
  <2> QED BY <1>0, <2>1, <2>3, <2>4, Kinds DEF Written, Encoding, Own
<1>13. ASSUME NEW t \in DOMAIN Sources, AsNothing(t) \/ AsInteger(t) PROVE Written'
  <2>1. UNCHANGED <<type, value, wire, column>> /\ pc = "row" /\ pc' = "done"
    BY <1>13 DEF AsNothing, AsInteger, AsReads, Answered
  <2> QED BY <1>0, <2>1, WrittenStays
<1>14. CASE AsTimestamp \/ AsNumeric
  <2>1. UNCHANGED <<type, value, wire, column>> /\ pc = "row" /\ pc' \in {"digits", "done"}
    BY <1>14 DEF AsTimestamp, AsNumeric, AsReads, Answered
  <2> QED BY <1>0, <2>1, WrittenStays
<1>15. CASE ReadDigit \/ ReadElided \/ NumericEnds
  <2>1. UNCHANGED <<type, value, wire, column>> /\ pc = "digits" /\ pc' \in {"digits", "done"}
    BY <1>15 DEF ReadDigit, ReadElided, NumericEnds, Answered
  <2> QED BY <1>0, <2>1, WrittenStays
<1>16. CASE UNCHANGED vars
  <2>1. UNCHANGED <<type, value, wire, column, pc>>
    BY <1>16 DEF vars
  <2> QED BY <1>0, <1>3, <2>1 DEF Written, Encoding, Own, Fixed
<1> QED BY <1>4, <1>5, <1>6, <1>7, <1>8, <1>9, <1>10, <1>11, <1>12, <1>13, <1>14, <1>15, <1>16 DEF Next

-----------------------------------------------------------------------------
(* The columns at the beginning.                                            *)
LEMMA HeldInit == Init => Held
<1> SUFFICES ASSUME Init PROVE Held
  OBVIOUS
<1>1. CASE pc = "normalize"
  <2>1. wire = <<>> /\ column = "none"
    BY <1>1 DEF Init
  <2>2. <<>> \in Seq(0..Word-1) /\ "none" \notin DOMAIN Size
    BY DEF Size
  <2> QED BY <1>1, <2>1, <2>2 DEF Held
<1>2. CASE pc = "row"
  <2>1. PICK row \in Rows : column = row.column /\ wire = row.wire
    BY <1>2 DEF Init
  <2>2. row.column \in Columns /\ row.wire \in Seq(0..Word-1) /\ Holds(row.column, row.wire)
    BY RowsAssumption
  <2> QED BY <1>2, <2>1, <2>2 DEF Held
<1> QED BY <1>1, <1>2 DEF Init

(* The first digit of a uint64_t is not zero.                               *)
LEMMA FirstDigit ==
    ASSUME RoundTripInv, Sent, raw # <<>>
    PROVE  wire[1] # 0 /\ wire[5] # 0 /\ wire \in Seq(0..Word-1)
<1>1. /\ Len(raw) \in 1..5 /\ wire[1] = Len(raw) /\ \A j \in 1..Len(raw) : wire[4 + j] = raw[j]
      /\ v = 0 /\ quot # <<>> /\ weight = Len(quot) - 1 /\ Len(quot) \in 1..5
  BY SentWire
<1>2. /\ \A j \in 1..Len(quot) :
           /\ quot[j] \in 1..value
           /\ quot[j] = (IF j = 1 THEN v ELSE quot[j - 1]) * Base
                        + (IF j <= Len(raw) THEN raw[j] ELSE 0)
      /\ \A j \in 1..Len(raw) : raw[j] \in 0..Base-1
      /\ raw \in Seq(Nat)
  BY DEF RoundTripInv, Quotients
<1>3. wire[5] # 0
  <2>1. 1 \in 1..Len(quot) /\ 1 \in 1..Len(raw) /\ 1 <= Len(raw)
    BY <1>1
  <2>2. quot[1] \in 1..value /\ quot[1] = v * Base + raw[1]
    BY <1>2, <2>1
  <2>3. raw[1] # 0
    <3>1. raw[1] \in 0..Base-1
      BY <1>2, <2>1
    <3>2. v * Base = 0
      BY <1>1, ScaleFacts
    <3> QED BY <2>2, <3>1, <3>2, ScaleFacts
  <2>4. wire[4 + 1] = raw[1]
    BY <1>1, <2>1
  <2> QED BY <2>3, <2>4
<1>4. wire \in Seq(0..Word-1)
  <2> DEFINE h == <<Len(raw), weight, 0, 0>>
  <2>1. wire = h \o raw
    BY DEF RoundTripInv, Phases
  <2>2. \A x \in 0..5 : x \in 0..Word-1
    BY ScaleFacts
  <2>3. Len(raw) \in 0..5 /\ weight \in 0..5 /\ 0 \in 0..5
    BY <1>1
  <2>4. h \in Seq(0..Word-1)
    <3>1. Len(raw) \in 0..Word-1 /\ weight \in 0..Word-1 /\ 0 \in 0..Word-1
      BY <2>2, <2>3
    <3> QED BY <3>1
  <2>5. raw \in Seq(0..Word-1)
    <3>1. \A j \in 1..Len(raw) : raw[j] \in 0..Word-1
      BY <1>2, ScaleFacts
    <3>2. raw \in [1..Len(raw) -> 0..Word-1] /\ Len(raw) \in Nat
      BY <1>2, <3>1, LenProperties
    <3> QED BY <3>2, SeqDef
  <2> HIDE DEF h
  <2> QED BY <2>1, <2>4, <2>5, ConcatProperties
<1> QED BY <1>1, <1>3, <1>4

(* The same of the words in the next state.                                 *)
LEMMA FirstDigitNext == (RoundTripInv /\ Sent /\ raw # <<>> => wire \in Seq(0..Word-1))'
<1>1. RoundTripInv /\ Sent /\ raw # <<>> => wire \in Seq(0..Word-1)
  BY FirstDigit
<1> QED BY <1>1, PTL

(* What the server keeps of a NUMERIC.                                      *)
LEMMA NumericKept ==
    ASSUME IInv, BindNumeric
    PROVE  wire' \in Seq(0..Word-1) /\ Holds("Numeric", wire')
<1>0. RoundTripInv /\ Written /\ Held
  BY DEF IInv
<1>1. /\ pc = "bind" /\ IsNumeric(wire)
      /\ wire' = IF wire[1] = 0
                   THEN <<0, 0, IF wire[3] < 12 * (Word \div 16) THEN 0 ELSE wire[3], wire[4]>>
                   ELSE wire
  BY DEF BindNumeric
<1>2. Word \in Nat /\ Word >= 16 /\ Word \div 16 \in Nat /\ Word \div 16 >= 1
  BY ScaleFacts
<1>3. wire \in Seq(0..Word-1) /\ Len(wire) >= 4
  BY <1>0, <1>1 DEF Held, IsNumeric
<1>4. wire[3] \in 0..Word-1 /\ wire[4] \in 0..Word-1
  <2>1. 3 \in 1..Len(wire) /\ 4 \in 1..Len(wire)
    BY <1>3, LenProperties
  <2> QED BY <1>3, <2>1, ElementOfSeq
<1>5. CASE wire[1] = 0
  <2> DEFINE s == IF wire[3] < 12 * (Word \div 16) THEN 0 ELSE wire[3]
             w == <<0, 0, s, wire[4]>>
  <2>1. s \in 0..Word-1 /\ 0 \in 0..Word-1 /\ s # 4 * (Word \div 16)
    BY <1>2, <1>4
  <2>2. 0 \in Signs
    <3>1. 0 * (Word \div 16) = 0
      BY <1>2
    <3> QED BY <3>1 DEF Signs
  <2>3. s \in Signs /\ wire[4] < Word \div 4
    BY <1>1, <2>2 DEF IsNumeric
  <2>4. wire' = w
    BY <1>1, <1>5
  <2> HIDE DEF s
  <2>5. w \in Seq(0..Word-1) /\ Len(w) = 4 /\ w[1] = 0 /\ w[3] = s /\ w[4] = wire[4] /\ w # <<>>
    BY <1>4, <2>1
  <2> HIDE DEF w
  <2>6. IsNumeric(w)
    BY <2>3, <2>5 DEF IsNumeric
  <2>7. Holds("Numeric", w)
    BY <2>1, <2>5, <2>6 DEF Holds
  <2> QED BY <2>4, <2>5, <2>7
<1>6. CASE wire[1] # 0
  <2>1. ~Encoding /\ column = "none"
    BY <1>0, <1>1 DEF Encoding, RoundTripInv, Phases
  <2>2. type \notin Fixed
    BY <1>0, <1>1, <1>6, <2>1, FixedForNumeric
  <2>3. type # "nullptr"
    <3> SUFFICES ASSUME type = "nullptr" PROVE FALSE
      OBVIOUS
    <3>1. wire = <<>>
      BY <1>0, <2>1 DEF Written
    <3> QED BY <1>3, <3>1
  <2>4. type = "uint64"
    <3>1. type # "none"
      BY <1>0, <1>1 DEF Written, Own
    <3>2. type \in Types
      BY <1>0, <3>1 DEF RoundTripInv
    <3> QED BY <2>2, <2>3, <3>2, Kinds
  <2>5. Sent /\ raw # <<>>
    <3>1. Sent
      BY <2>1, <2>4 DEF Sent
    <3>2. ASSUME raw = <<>> PROVE FALSE
      <4>1. wire = <<ZeroWord>>
        BY <1>0, <3>1, <3>2 DEF RoundTripInv, Phases
      <4>2. Len(<<ZeroWord>>) = 1
        OBVIOUS
      <4> QED BY <1>3, <4>1, <4>2
    <3> QED BY <3>1, <3>2
  <2>6. wire[5] # 0
    BY <1>0, <2>5, FirstDigit
  <2>7. wire' = wire
    BY <1>1, <1>6
  <2>8. Holds("Numeric", wire)
    BY <1>1, <1>6, <2>6 DEF Holds
  <2>9. Holds("Numeric", wire')
    BY <2>7, <2>8
  <2> QED BY <1>3, <2>7, <2>9
<1> QED BY <1>5, <1>6

(* A column changes when it is written only.                                *)
LEMMA HeldStays ==
    ASSUME Held, UNCHANGED <<wire, column>>,
           \/ pc \in {"normalize", "split", "strip"} /\ pc' \in {"normalize", "split", "strip"}
           \/ pc \in {"row", "digits"} /\ pc' \in {"row", "digits", "done"}
    PROVE  Held'
<1>1. Holds(column, wire)' = Holds(column, wire)
  BY DEF Holds, IsNumeric
<1> QED BY <1>1 DEF Held

(* The steps of the program and of the server on a column.                  *)
LEMMA HeldKept == IInv /\ RoundTripInv' /\ [Next]_vars => Held'
<1> SUFFICES ASSUME IInv, RoundTripInv', [Next]_vars PROVE Held'
  OBVIOUS
<1>0. RoundTripInv /\ Written /\ Held
  BY DEF IInv
<1>1. /\ (Encoding \/ pc = "bind" => column = "none") /\ (pc = "strip" => type = "uint64")
      /\ (pc = "strip" => raw # <<>>)
  BY <1>0 DEF RoundTripInv, Phases
<1>2. /\ wire \in Seq(0..Word-1) /\ "none" \notin DOMAIN Size /\ "Numeric" \notin DOMAIN Size
      /\ Columns = DOMAIN Size \cup {"Numeric"}
  BY <1>0 DEF Held, Size, Columns
<1>3. ASSUME column' = "none", wire' \in Seq(0..Word-1), pc' \notin {"row", "digits", "done"} PROVE Held'
  BY <1>2, <1>3 DEF Held
<1>4. ASSUME column' \in Columns, wire' \in Seq(0..Word-1), pc' = "row", Holds(column', wire') PROVE Held'
  BY <1>4 DEF Held
<1> HIDE DEF IInv
<1>5. CASE ToBinaryInteger \/ ToBinaryTimestamp \/ ToBinaryNull
  <2>1. /\ pc = "normalize" /\ pc' = "bind" /\ column' = column /\ UNCHANGED <<type, value>>
    BY <1>5 DEF ToBinaryInteger, ToBinaryTimestamp, ToBinaryNull, Encoded
  <2>2. Written'
    BY WrittenKept, <1>5 DEF Next, IInv
  <2>3. column = "none" /\ type \in Fixed \cup {"nullptr"}
    BY <1>1, <1>5, <2>1, Kinds DEF Encoding, ToBinaryInteger, ToBinaryTimestamp, ToBinaryNull
  <2>4. wire' \in Seq(0..Word-1)
    <3>1. CASE type = "nullptr"
      <4>1. wire' = <<>>
        BY <2>1, <2>2, <3>1 DEF Written, Encoding
      <4> QED BY <4>1
    <3>2. CASE type \in Fixed
      <4>1. value \in Int
        BY <1>0, <3>2, Kinds DEF Written
      <4>2. wire' = EncodeFixed(Cast(Meant', Form'), Width[Form'])
        BY <2>1, <2>2, <2>3, <3>2 DEF Written, Encoding, Fixed
      <4>3. Meant' = Meant /\ Form' = Form
        BY <2>1 DEF Meant, Form, Microseconds
      <4>4. EncodeFixed(Cast(Meant, Form), Width[Form]) \in Seq(0..Word-1)
        BY <3>2, <4>1, FormFacts
      <4> QED BY <4>2, <4>3, <4>4
    <3> QED BY <2>3, <3>1, <3>2
  <2> QED BY <1>3, <2>1, <2>3, <2>4
<1>6. CASE EncodeZero
  <2>1. /\ pc = "normalize" /\ pc' = "bind" /\ column' = column /\ wire' = <<ZeroWord>>
    BY <1>6 DEF EncodeZero, Encoded
  <2>2. wire' \in Seq(0..Word-1)
    BY <2>1, ScaleAssumption
  <2>3. column = "none"
    BY <1>1, <2>1 DEF Encoding
  <2> QED BY <1>3, <2>1, <2>2, <2>3
<1>7. CASE EncodeNumericUint64
  <2>1. pc = "strip" /\ pc' = "bind" /\ UNCHANGED <<type, column, raw>>
    BY <1>7 DEF EncodeNumericUint64, Stripped, Encoded, encoder
  <2>2. column = "none" /\ Sent' /\ raw' # <<>>
    BY <1>1, <2>1 DEF Encoding, Sent
  <2>3. (wire \in Seq(0..Word-1))'
    BY <2>2, FirstDigitNext
  <2> QED BY <1>3, <2>1, <2>2, <2>3
<1>8. CASE BeginDigits \/ SplitDigit \/ SplitEnds \/ StripZero
  <2>1. /\ UNCHANGED <<wire, column>>
        /\ pc \in {"normalize", "split", "strip"} /\ pc' \in {"normalize", "split", "strip"}
    BY <1>8 DEF BeginDigits, SplitDigit, SplitEnds, StripZero
  <2> QED BY <1>0, <2>1, HeldStays
<1>9. ASSUME NEW c \in DOMAIN Size, BindFixed(c) PROVE Held'
  <2>1. wire' = wire /\ pc' = "row" /\ column' = c /\ Len(wire) = Size[c]
    BY <1>9 DEF BindFixed
  <2>2. Holds(c, wire)
    BY <2>1 DEF Holds
  <2> QED BY <1>2, <1>4, <2>1, <2>2
<1>10. ASSUME NEW c \in Columns, BindNull(c) PROVE Held'
  <2>1. wire' = wire /\ pc = "bind" /\ pc' = "row" /\ column' = c /\ type = "nullptr"
    BY <1>10 DEF BindNull
  <2>2. wire = <<>>
    BY <1>0, <2>1 DEF Written, Encoding
  <2>3. Holds(c, wire)
    BY <2>2 DEF Holds
  <2> QED BY <1>2, <1>4, <2>1, <2>3
<1>11. ASSUME NEW c \in Columns, Reject(c) PROVE Held'
  <2>1. /\ wire' = wire /\ pc' = "rejected" /\ column' = c
        /\ c # "Numeric" => Len(wire) # Size[c]
    BY <1>11 DEF Reject
  <2> QED BY <1>2, <2>1 DEF Held
<1>12. CASE BindNumeric
  <2>1. wire' \in Seq(0..Word-1) /\ Holds("Numeric", wire') /\ pc' = "row" /\ column' = "Numeric"
    BY <1>12, NumericKept DEF BindNumeric
  <2> QED BY <1>2, <1>4, <2>1
<1>13. ASSUME NEW t \in DOMAIN Sources, AsNothing(t) \/ AsInteger(t) PROVE Held'
  <2>1. UNCHANGED <<wire, column>> /\ pc = "row" /\ pc' = "done"
    BY <1>13 DEF AsNothing, AsInteger, AsReads, Answered
  <2> QED BY <1>0, <2>1, HeldStays
<1>14. CASE AsTimestamp \/ AsNumeric
  <2>1. UNCHANGED <<wire, column>> /\ pc = "row" /\ pc' \in {"digits", "done"}
    BY <1>14 DEF AsTimestamp, AsNumeric, AsReads, Answered
  <2> QED BY <1>0, <2>1, HeldStays
<1>15. CASE ReadDigit \/ ReadElided \/ NumericEnds
  <2>1. UNCHANGED <<wire, column>> /\ pc = "digits" /\ pc' \in {"digits", "done"}
    BY <1>15 DEF ReadDigit, ReadElided, NumericEnds, Answered
  <2> QED BY <1>0, <2>1, HeldStays
<1>16. CASE UNCHANGED vars
  <2>1. UNCHANGED <<wire, column, pc>>
    BY <1>16 DEF vars
  <2>2. Holds(column, wire)' = Holds(column, wire)
    BY <2>1 DEF Holds, IsNumeric
  <2> QED BY <1>0, <2>1, <2>2 DEF Held
<1> QED BY <1>5, <1>6, <1>7, <1>8, <1>9, <1>10, <1>11, <1>12, <1>13, <1>14, <1>15, <1>16 DEF Next

-----------------------------------------------------------------------------
(* A NUMERIC column                                                         *)

(* A column that is read as a NUMERIC.                                      *)
NumericHeld == column = "Numeric" /\ wire # <<>> /\ wire \in Seq(0..Word-1) /\ Holds(column, wire)

(* The remainder of a number between one and two moduli.                    *)
LEMMA LargeMod ==
    ASSUME NEW x \in Nat, NEW m \in Nat \ {0}, m <= x, x < 2 * m
    PROVE  x % m = x - m
OBVIOUS

(* Its counts as the code reads them.  A count of digits that turns         *)
(* negative as a signed word is one of more than five digits.               *)
LEMMA NumericCounts ==
    ASSUME NumericHeld
    PROVE  /\ Len(wire) = 4 + wire[1] /\ wire[1] \in 0..Word-1 /\ wire[3] \in 0..Word-1
           /\ wire[3] \in Signs
           /\ IF wire[1] = 0 THEN wire[3] # 4 * (Word \div 16) ELSE wire[5] # 0
           /\ Ndigits \in Int /\ Ndigits < Word /\ Weight \in Int /\ Weight + 1 <= Word
           /\ Trailing \in Int /\ Trailing = Weight + 1 - Ndigits
           /\ Ndigits >= 0 => Ndigits = wire[1]
           /\ Ndigits < 0 => wire[1] > 5
           /\ Ndigits = 0 <=> wire[1] = 0
<1>1. /\ Word \in Nat /\ Word >= 16
  BY ScaleFacts
<1>2. IsNumeric(wire) /\ IF wire[1] = 0 THEN wire[3] # 4 * (Word \div 16) ELSE wire[5] # 0
  BY DEF NumericHeld, Holds, Size
<1>3. Len(wire) = 4 + wire[1] /\ Len(wire) >= 4 /\ wire \in Seq(0..Word-1) /\ wire[3] \in Signs
  BY <1>2 DEF NumericHeld, IsNumeric
<1>4. wire[1] \in 0..Word-1 /\ wire[2] \in 0..Word-1 /\ wire[3] \in 0..Word-1
  <2>1. 1 \in 1..Len(wire) /\ 2 \in 1..Len(wire) /\ 3 \in 1..Len(wire)
    BY <1>3, LenProperties
  <2> QED BY <1>3, <2>1, ElementOfSeq
<1>5. Span["int16"] = Word
  BY DEF Span
<1>6. Lowest("int16") = -(Word \div 2)
  BY <1>5 DEF Lowest
<1>7. ASSUME NEW x \in 0..Word-1
      PROVE  /\ Cast(x, "int16") \in Int /\ Cast(x, "int16") < -(Word \div 2) + Word
             /\ x < -(Word \div 2) + Word => Cast(x, "int16") = x
             /\ x >= -(Word \div 2) + Word => Cast(x, "int16") < 0
  <2> DEFINE H == Word \div 2
  <2>1. H \in Nat /\ H >= 8 /\ Word - H >= 8 /\ Word - H \in Nat
    BY <1>1
  <2>2. Cast(x, "int16") = ((x - (-H)) % Word) + (-H)
    BY <1>5, <1>6 DEF Cast
  <2> HIDE DEF H
  <2>3. x - (-H) = x + H /\ x + H \in Nat
    BY <1>1, <2>1
  <2>4. CASE x < -H + Word
    <3>1. x + H < Word
      BY <1>1, <2>1, <2>4
    <3>2. (x + H) % Word = x + H
      BY <1>1, <2>3, <3>1, SmallMod
    <3>3. Cast(x, "int16") = x
      BY <2>1, <2>2, <2>3, <3>2
    <3> QED BY <1>1, <2>1, <2>4, <3>3 DEF H
  <2>5. CASE x >= -H + Word
    <3>1. Word <= x + H /\ x + H < 2 * Word /\ Word \in Nat \ {0}
      BY <1>1, <2>1, <2>5
    <3>2. (x + H) % Word = (x + H) - Word
      BY <2>3, <3>1, LargeMod
    <3>3. Cast(x, "int16") = x - Word
      BY <1>1, <2>1, <2>2, <2>3, <3>2
    <3> QED BY <1>1, <2>1, <2>5, <3>3 DEF H
  <2> QED BY <1>1, <2>1, <2>4, <2>5 DEF H
<1>8. Ndigits \in Int /\ Ndigits < -(Word \div 2) + Word /\ Weight \in Int /\ Weight < -(Word \div 2) + Word
  BY <1>4, <1>7 DEF Ndigits, Weight
<1>9. /\ wire[1] < -(Word \div 2) + Word => Ndigits = wire[1]
      /\ wire[1] >= -(Word \div 2) + Word => Ndigits < 0
  BY <1>4, <1>7 DEF Ndigits
<1>10. -(Word \div 2) + Word \in Nat /\ -(Word \div 2) + Word >= 8 /\ -(Word \div 2) + Word <= Word - 8
  BY <1>1
<1>11. Trailing \in Int /\ Trailing = Weight + 1 - Ndigits
  BY <1>8 DEF Trailing
<1>12. Ndigits < Word /\ Weight + 1 <= Word
  BY <1>1, <1>8, <1>10
<1> QED BY <1>2, <1>3, <1>4, <1>8, <1>9, <1>10, <1>11, <1>12

(* The digits it holds, and with the elided ones the digits of its integer. *)
LEMMA NumericDigits ==
    ASSUME NumericHeld
    PROVE  /\ \A j \in 1..wire[1] : wire[4 + j] \in Nat
           /\ Digits \in Seq(Nat) /\ Len(Digits) = wire[1]
           /\ \A j \in 1..wire[1] : Digits[j] = wire[4 + j]
           /\ Trailing >= 0 =>
                /\ Digits \o Elided \in Seq(Nat) /\ Len(Digits \o Elided) = wire[1] + Trailing
                /\ \A j \in 1..wire[1] + Trailing :
                     (Digits \o Elided)[j] = IF j <= wire[1] THEN wire[4 + j] ELSE 0
<1>1. Len(wire) = 4 + wire[1] /\ wire[1] \in Nat /\ Trailing \in Int
  BY NumericCounts
<1>2. wire \in Seq(0..Word-1)
  BY DEF NumericHeld
<1>3. wire \in Seq(Nat)
  <2>1. 0..Word-1 \subseteq Nat
    BY ScaleFacts
  <2> QED BY <1>2, <2>1, SeqMonotonic
<1>4. \A j \in 1..wire[1] : wire[4 + j] \in Nat
  <2>1. \A j \in 1..wire[1] : 4 + j \in 1..Len(wire)
    BY <1>1
  <2> QED BY <1>3, <2>1, ElementOfSeq
<1>5. /\ Digits \in Seq(Nat) /\ Len(Digits) = wire[1]
      /\ \A j \in 1..wire[1] : Digits[j] = wire[4 + j]
  <2>1. 5..Len(wire) \subseteq 1..Len(wire)
    OBVIOUS
  <2>2. \A j \in 5..Len(wire) : wire[j] \in Nat
    BY <1>3, <2>1, ElementOfSeq
  <2>3. Digits = [j \in 1..wire[1] |-> wire[4 + j]]
    <3>1. Digits = [j \in 1..(Len(wire) - 5 + 1) |-> wire[j + 5 - 1]]
      BY <1>1, <1>3 DEF Digits
    <3>2. Len(wire) - 5 + 1 = wire[1] /\ \A j \in 1..wire[1] : j + 5 - 1 = 4 + j
      BY <1>1
    <3> QED BY <3>1, <3>2
  <2>4. Digits \in [1..wire[1] -> Nat] /\ DOMAIN Digits = 1..wire[1]
    BY <1>4, <2>3
  <2>5. Digits \in Seq(Nat)
    BY <1>1, <2>4, SeqDef
  <2>6. Len(Digits) = wire[1]
    <3> DEFINE d == Digits
    <3>1. d \in Seq(Nat) /\ DOMAIN d = 1..wire[1]
      BY <2>4, <2>5
    <3> HIDE DEF d
    <3>2. Len(d) = wire[1]
      BY <1>1, <3>1, LenProperties
    <3> QED BY <3>2 DEF d
  <2> QED BY <2>3, <2>5, <2>6
<1>6. ASSUME Trailing >= 0
      PROVE  Elided \in Seq(Nat) /\ Len(Elided) = Trailing /\ \A j \in 1..Trailing : Elided[j] = 0
  <2>1. Trailing \in Nat
    BY <1>1, <1>6
  <2>2. Elided = [j \in 1..Trailing |-> 0]
    <3>1. CASE Trailing > 0
      BY <3>1 DEF Elided
    <3>2. CASE ~(Trailing > 0)
      <4>1. 1..Trailing = {}
        BY <2>1, <3>2
      <4> QED BY <3>2, <4>1 DEF Elided
    <3> QED BY <3>1, <3>2
  <2> DEFINE e == Elided
  <2>3. e \in [1..Trailing -> Nat] /\ DOMAIN e = 1..Trailing /\ \A j \in 1..Trailing : e[j] = 0
    BY <2>2
  <2> HIDE DEF e
  <2>4. e \in Seq(Nat)
    BY <2>1, <2>3, SeqDef
  <2>5. Len(e) = Trailing
    BY <2>1, <2>3, <2>4, LenProperties
  <2> QED BY <2>3, <2>4, <2>5 DEF e
<1>7. ASSUME Trailing >= 0
      PROVE  /\ Digits \o Elided \in Seq(Nat) /\ Len(Digits \o Elided) = wire[1] + Trailing
             /\ \A j \in 1..wire[1] + Trailing :
                  (Digits \o Elided)[j] = IF j <= wire[1] THEN wire[4 + j] ELSE 0
  <2> DEFINE d == Digits  e == Elided  both == d \o e
  <2>1. /\ d \in Seq(Nat) /\ e \in Seq(Nat) /\ Len(d) = wire[1] /\ Len(e) = Trailing
        /\ \A j \in 1..wire[1] : d[j] = wire[4 + j]
        /\ \A j \in 1..Trailing : e[j] = 0
    BY <1>5, <1>6, <1>7
  <2> HIDE DEF d, e
  <2>2. /\ both \in Seq(Nat) /\ Len(both) = wire[1] + Trailing
        /\ \A j \in 1..wire[1] + Trailing : both[j] = IF j <= wire[1] THEN d[j] ELSE e[j - wire[1]]
    <3>1. /\ both \in Seq(Nat) /\ Len(both) = Len(d) + Len(e)
          /\ \A j \in 1..Len(d) + Len(e) : both[j] = IF j <= Len(d) THEN d[j] ELSE e[j - Len(d)]
      BY <2>1, ConcatProperties
    <3> HIDE DEF both
    <3> QED BY <2>1, <3>1
  <2>3. ASSUME NEW j \in 1..wire[1] + Trailing
        PROVE  both[j] = IF j <= wire[1] THEN wire[4 + j] ELSE 0
    <3>1. j <= wire[1] => j \in 1..wire[1]
      BY <1>1
    <3>2. j > wire[1] => j - wire[1] \in 1..Trailing
      BY <1>1
    <3>3. both[j] = IF j <= wire[1] THEN d[j] ELSE e[j - wire[1]]
      BY <2>2
    <3>4. CASE j <= wire[1]
      BY <2>1, <3>1, <3>3, <3>4
    <3>5. CASE j > wire[1]
      <4>1. ~(j <= wire[1])
        BY <1>1, <3>5
      <4> QED BY <2>1, <3>2, <3>3, <3>5, <4>1
    <3>6. j <= wire[1] \/ j > wire[1]
      BY <1>1
    <3> QED BY <3>4, <3>5, <3>6
  <2> HIDE DEF both
  <2> QED BY <2>2, <2>3 DEF both, d, e
<1> QED BY <1>4, <1>5, <1>7

(* The digits up to one of them.                                            *)
LEMMA UpToFacts ==
    ASSUME NumericHeld, Ndigits > 0, NEW m \in Nat
    PROVE  /\ UpTo(m) \in Seq(Nat) /\ Len(UpTo(m)) = m /\ Positional(Base, UpTo(m)) \in Nat
           /\ UpTo(0) = <<>>
           /\ LET d == IF m < Ndigits THEN wire[5 + m] ELSE 0
              IN d \in Nat /\ UpTo(m + 1) = Append(UpTo(m), d)
<1>1. Ndigits = wire[1] /\ wire[1] \in Nat /\ Ndigits \in Nat
  BY NumericCounts
<1>2. \A j \in 1..Ndigits : wire[4 + j] \in Nat
  BY <1>1, NumericDigits
<1>3. ASSUME NEW n \in Nat
      PROVE  /\ UpTo(n) \in Seq(Nat) /\ Len(UpTo(n)) = n /\ DOMAIN UpTo(n) = 1..n
             /\ \A j \in 1..n : UpTo(n)[j] = IF j <= Ndigits THEN wire[4 + j] ELSE 0
  <2> DEFINE u == UpTo(n)
  <2>1. u = [j \in 1..n |-> IF j <= Ndigits THEN wire[4 + j] ELSE 0]
    BY DEF UpTo
  <2>2. \A j \in 1..n : (IF j <= Ndigits THEN wire[4 + j] ELSE 0) \in Nat
    BY <1>1, <1>2
  <2> HIDE DEF u
  <2>3. u \in [1..n -> Nat] /\ DOMAIN u = 1..n /\ \A j \in 1..n : u[j] = IF j <= Ndigits THEN wire[4 + j] ELSE 0
    BY <2>1, <2>2
  <2>4. u \in Seq(Nat)
    BY <2>3, SeqDef
  <2>5. Len(u) = n
    BY <2>3, <2>4, LenProperties
  <2> QED BY <2>3, <2>4, <2>5 DEF u
<1>4. UpTo(0) = <<>>
  <2> DEFINE u == UpTo(0)
  <2>1. u \in Seq(Nat) /\ Len(u) = 0
    BY <1>3
  <2> HIDE DEF u
  <2>2. u = <<>>
    BY <2>1, EmptySeq
  <2> QED BY <2>2 DEF u
<1> DEFINE d == IF m < Ndigits THEN wire[5 + m] ELSE 0
           u == UpTo(m)
           w == UpTo(m + 1)
<1>5. d \in Nat
  <2>1. m < Ndigits => m + 1 \in 1..Ndigits /\ 4 + (m + 1) = 5 + m
    BY <1>1
  <2> QED BY <1>2, <2>1
<1>6. w = Append(u, d)
  <2>1. /\ u \in Seq(Nat) /\ Len(u) = m /\ w \in Seq(Nat) /\ Len(w) = m + 1
        /\ \A j \in 1..m : u[j] = IF j <= Ndigits THEN wire[4 + j] ELSE 0
        /\ \A j \in 1..m + 1 : w[j] = IF j <= Ndigits THEN wire[4 + j] ELSE 0
    BY <1>3
  <2>2. w[m + 1] = d
    <3>1. m + 1 \in 1..m + 1 /\ (m + 1 <= Ndigits <=> m < Ndigits) /\ 4 + (m + 1) = 5 + m
      BY <1>1
    <3> QED BY <2>1, <3>1
  <2> HIDE DEF d, u, w
  <2> DEFINE a == Append(u, d)
  <2>3. /\ a \in Seq(Nat) /\ Len(a) = m + 1 /\ \A j \in 1..m : a[j] = u[j]
        /\ a[m + 1] = d
    BY <1>5, <2>1, AppendProperties
  <2> HIDE DEF a
  <2>4. \A j \in 1..m + 1 : a[j] = w[j]
    <3>1. \A j \in 1..m + 1 : j \in 1..m \/ j = m + 1
      OBVIOUS
    <3>2. \A j \in 1..m : j \in 1..m + 1
      OBVIOUS
    <3> QED BY <2>1, <2>2, <2>3, <3>1, <3>2
  <2>5. a = w
    BY <2>1, <2>3, <2>4, SeqEqual
  <2> QED BY <2>5 DEF a
<1>7. Positional(Base, UpTo(m)) \in Nat
  <2>1. u \in Seq(Nat) /\ Base \in Nat
    BY <1>3, ScaleFacts
  <2> HIDE DEF u
  <2>2. Positional(Base, u) \in Nat
    BY <2>1, PositionalAppend
  <2> QED BY <2>2 DEF u
<1> QED BY <1>3, <1>4, <1>5, <1>6, <1>7

(* Zeros make zero.                                                         *)
LEMMA PositionalZeros ==
    ASSUME NEW b \in Nat, NEW w \in Seq(Nat), \A j \in 1..Len(w) : w[j] = 0
    PROVE  Positional(b, w) = 0
<1> DEFINE g == [j \in 0..Len(w) |-> 0]
<1>1. Len(w) \in Nat
  BY LenProperties
<1>2. g[0] = 0 /\ g[Len(w)] = 0
  BY <1>1
<1>3. \A j \in 1..Len(w) : g[j] = g[j - 1] * b + w[j]
  <2> TAKE j \in 1..Len(w)
  <2>1. j \in 0..Len(w) /\ j - 1 \in 0..Len(w) /\ w[j] = 0
    BY <1>1
  <2>2. g[j] = 0 /\ g[j - 1] = 0
    BY <2>1
  <2>3. 0 * b + 0 = 0
    OBVIOUS
  <2> HIDE DEF g
  <2> QED BY <2>1, <2>2, <2>3
<1>4. Positional(b, w) = g[Len(w)]
  <2> HIDE DEF g
  <2> QED BY <1>2, <1>3, PositionalValue
<1> QED BY <1>2, <1>4

(* The integer in a NUMERIC column.                                         *)
LEMMA NumericNumber ==
    ASSUME NumericHeld, Integral
    PROVE  /\ Trailing >= 0 /\ Number \in Int
           /\ wire[3] = 0 /\ Ndigits > 0 => Number = Positional(Base, UpTo(Weight + 1)) /\ Number \in Nat
           /\ Ndigits = 0 => Number = 0 /\ wire[3] = 0
           /\ wire[3] = 0 /\ Ndigits < 0 => Number >= Wide
           /\ wire[3] # 0 => Number < 0
<1> DEFINE d == Digits \o Elided
           P == Positional(Base, d)
<1>1. /\ wire[1] \in 0..Word-1
      /\ IF wire[1] = 0 THEN wire[3] # 4 * (Word \div 16) ELSE wire[5] # 0
      /\ Ndigits \in Int /\ Weight \in Int /\ Trailing \in Int /\ Trailing = Weight + 1 - Ndigits
      /\ Ndigits >= 0 => Ndigits = wire[1]
      /\ Ndigits < 0 => wire[1] > 5
      /\ Ndigits = 0 <=> wire[1] = 0
  BY NumericCounts
<1>2. Trailing >= 0 /\ wire[3] \in {0, 4 * (Word \div 16)} /\ column = "Numeric"
  BY DEF Integral, NumericHeld
<1>3. /\ d \in Seq(Nat) /\ Len(d) = wire[1] + Trailing /\ wire[1] + Trailing \in Nat
      /\ \A j \in 1..wire[1] + Trailing : d[j] = IF j <= wire[1] THEN wire[4 + j] ELSE 0
  BY <1>1, <1>2, NumericDigits
<1>4. Number = (IF wire[3] = 0 THEN 1 ELSE -1) * P
  BY <1>2 DEF Number
<1>5. Base \in Nat \ {0} /\ Base \in Nat
  BY ScaleFacts
<1>6. P \in Nat
  <2> HIDE DEF d
  <2>1. P \in Nat
    BY <1>3, <1>5, PositionalAppend
  <2> QED BY <2>1
<1>7. wire[3] = 0 => Number = P
  <2> HIDE DEF P
  <2> QED BY <1>4, <1>6
<1>8. wire[3] # 0 => Number = -P
  <2> HIDE DEF P
  <2> QED BY <1>4, <1>6
<1>9. ASSUME wire[1] # 0 PROVE P >= 1 /\ (wire[1] > 5 => P >= Wide)
  <2>1. 1 \in 1..wire[1] + Trailing /\ 1 <= wire[1] /\ wire[4 + 1] # 0
    BY <1>1, <1>2, <1>9
  <2> HIDE DEF d
  <2>2. d[1] # 0 /\ Len(d) # 0 /\ (wire[1] > 5 => Len(d) > 5)
    <3>1. d[1] = wire[4 + 1]
      BY <1>3, <2>1
    <3>2. Len(d) # 0 /\ (wire[1] > 5 => Len(d) > 5)
      BY <1>1, <1>2, <1>3, <1>9
    <3> QED BY <2>1, <3>1, <3>2
  <2>3. d # <<>>
    BY <1>3, <2>2, EmptySeq
  <2>4. Positional(Base, d) \in Nat \ {0}
        /\ (Len(d) > 5 => Positional(Base, d) >= Base * Base * Base * Base * Base)
    BY <1>3, <1>5, <2>2, <2>3, PositionalGrows
  <2>5. Base * Base * Base * Base * Base \in Nat /\ Wide \in Nat /\ Base * Base * Base * Base * Base >= Wide
    <3>1. Power[5] = Base * Base * Base * Base * Base
      BY DEF Power
    <3> QED BY <3>1, PowerFacts, ScaleFacts
  <2> DEFINE p == Positional(Base, d)  b5 == Base * Base * Base * Base * Base
  <2>6. p \in Nat \ {0} /\ (wire[1] > 5 => p >= b5) /\ b5 \in Nat /\ b5 >= Wide /\ Wide \in Nat
    BY <2>2, <2>4, <2>5
  <2> HIDE DEF p, b5
  <2>7. p >= 1 /\ (wire[1] > 5 => p >= Wide)
    BY <2>6
  <2> QED BY <2>7 DEF p
<1>10. ASSUME wire[1] = 0 PROVE P = 0 /\ wire[3] = 0
  <2>1. \A j \in 1..Len(d) : d[j] = 0
    <3> HIDE DEF d
    <3>1. \A j \in 1..wire[1] + Trailing : ~(j <= wire[1])
      BY <1>1, <1>2, <1>10
    <3> QED BY <1>3, <3>1
  <2>2. P = 0
    <3> HIDE DEF d
    <3> QED BY <1>3, <1>5, <2>1, PositionalZeros
  <2> QED BY <1>1, <1>2, <1>10, <2>2
<1>11. ASSUME Ndigits > 0 PROVE P = Positional(Base, UpTo(Weight + 1))
  <2> DEFINE u == UpTo(Weight + 1)
  <2>1. Ndigits = wire[1] /\ Weight + 1 = wire[1] + Trailing /\ Weight + 1 \in Nat
    BY <1>1, <1>2, <1>11
  <2>2. u \in Seq(Nat) /\ Len(u) = Weight + 1
    BY <1>11, <2>1, UpToFacts
  <2>3. \A j \in 1..Weight + 1 : u[j] = IF j <= wire[1] THEN wire[4 + j] ELSE 0
    BY <2>1 DEF UpTo
  <2> HIDE DEF u, d
  <2>4. u = d
    BY <1>3, <2>1, <2>2, <2>3, SeqEqual
  <2> QED BY <2>4 DEF u
<1> HIDE DEF P
<1>12. Number \in Int
  BY <1>4, <1>6
<1>13. wire[3] # 0 => Number < 0
  BY <1>6, <1>8, <1>9, <1>10
<1>14. wire[3] = 0 /\ Ndigits < 0 => Number >= Wide
  BY <1>1, <1>7, <1>9
<1>15. Ndigits = 0 => Number = 0 /\ wire[3] = 0
  BY <1>1, <1>7, <1>10
<1> QED BY <1>2, <1>6, <1>7, <1>11, <1>12, <1>13, <1>14, <1>15

(* The digits of a NUMERIC without a sign, those of a fraction included.    *)
LEMMA NumericGroups ==
    ASSUME NumericHeld, wire[3] = 0, Ndigits >= 0
    PROVE  /\ Number \in Nat
           /\ Ndigits = 0 => Number = 0
           /\ Ndigits > 0 =>
                Number = Positional(Base, UpTo(IF Trailing >= 0 THEN Weight + 1 ELSE Ndigits))
<1>1. /\ wire[1] \in Nat /\ Ndigits = wire[1] /\ Ndigits \in Nat /\ Trailing \in Int
      /\ column = "Numeric"
  BY NumericCounts DEF NumericHeld
<1>2. CASE Trailing >= 0
  <2>1. Integral
    BY <1>2 DEF Integral
  <2>2. Ndigits = 0 \/ Ndigits > 0
    BY <1>1
  <2> QED BY <1>2, <2>1, <2>2, NumericNumber
<1>3. CASE ~(Trailing >= 0)
  <2> DEFINE d == Digits
             p == Positional(Base, d)
             u == UpTo(Ndigits)
  <2>1. Elided = <<>>
    <3>1. ~(Trailing > 0)
      BY <1>1, <1>3
    <3> QED BY <3>1 DEF Elided
  <2>2. d \in Seq(Nat) /\ Len(d) = wire[1] /\ \A j \in 1..wire[1] : d[j] = wire[4 + j]
    BY NumericDigits
  <2>3. Digits \o Elided = d
    BY <2>1, <2>2, ConcatEmptySeq
  <2>4. Base \in Nat
    BY ScaleFacts
  <2>5. p \in Nat
    <3> HIDE DEF d
    <3> QED BY <2>2, <2>4, PositionalAppend
  <2>6. Number = p
    <3>1. Number = 1 * p
      BY <1>1, <2>3 DEF Number
    <3> HIDE DEF p
    <3> QED BY <2>5, <3>1
  <2>7. ASSUME Ndigits = 0 PROVE p = 0
    <3> HIDE DEF d
    <3>1. \A j \in 1..Len(d) : d[j] = 0
      BY <1>1, <2>2, <2>7
    <3> QED BY <2>2, <2>4, <3>1, PositionalZeros
  <2>8. ASSUME Ndigits > 0 PROVE p = Positional(Base, u)
    <3>1. u \in Seq(Nat) /\ Len(u) = Ndigits
      BY <1>1, <2>8, UpToFacts
    <3>2. \A j \in 1..Ndigits : u[j] = wire[4 + j]
      BY <1>1 DEF UpTo
    <3> HIDE DEF u, d
    <3>3. u = d
      BY <1>1, <2>2, <3>1, <3>2, SeqEqual
    <3> QED BY <3>3
  <2> QED BY <1>3, <2>5, <2>6, <2>7, <2>8
<1> QED BY <1>2, <1>3

-----------------------------------------------------------------------------
(* The answers                                                              *)

(* The natural numbers are closed under multiplication and addition.        *)
LEMMA Closed ==
    ASSUME NEW a \in Nat, NEW b \in Nat, NEW d \in Nat
    PROVE  a * b \in Nat /\ a * b + d \in Nat
OBVIOUS

(* Multiplication by the base, one digit and the rest at a time.            *)
LEMMA Distributes ==
    ASSUME NEW q \in Nat, NEW s \in Nat, NEW r \in Nat, NEW b \in Nat, NEW d \in Nat
    PROVE  (q * s + r) * b + d = (q * b) * s + (r * b + d)
OBVIOUS

(* Multiples of the modulus do not matter.                                  *)
LEMMA ModPlus ==
    ASSUME NEW s \in Nat \ {0}, NEW z \in Int, NEW q \in Int
    PROVE  (q * s + z) % s = z % s
<1> DEFINE w == q * s + z
           d == q + (z \div s)
           r == z % s
<1>1. z = (z \div s) * s + (z % s) /\ z \div s \in Int /\ z % s \in 0..s-1
  OBVIOUS
<1>2. q * s + z = (q + (z \div s)) * s + (z % s)
  BY <1>1
<1>3. ASSUME NEW x \in Int, NEW e \in Int, NEW f \in 0..s-1, x = e * s + f PROVE x % s = f
  BY <1>3
<1>4. w \in Int /\ d \in Int /\ r \in 0..s-1 /\ w = d * s + r
  BY <1>1, <1>2
<1> HIDE DEF w, d, r
<1>5. w % s = r
  BY <1>3, <1>4
<1> QED BY <1>5 DEF w, r

(* What as<T> of the fixed sizes reads.                                     *)
LEMMA IntegerRead ==
    ASSUME Held, pc = "row", wire # <<>>,
           NEW t \in DOMAIN Sources \ {"uint64", "timestamp"}, column \in Sources[t]
    PROVE  /\ t \in Types /\ ReadBigEndian \in Int /\ Number = ReadBigEndian
           /\ Fits(ReadBigEndian, t) \/ t \in {"uint16", "uint32"}
<1>1. t \in {"int16", "int32", "int64", "uint16", "uint32"} /\ t \in Types
  BY DEF Sources, Types, Span
<1>2. /\ t = "int16" => column = "Int2"
      /\ t = "int32" => column \in {"Int2", "Int4"}
      /\ t = "int64" => column \in {"Int2", "Int4", "Int8"}
      /\ column \in {"Int2", "Int4", "Int8"}
  BY <1>1 DEF Sources
<1>3. wire \in Seq(0..Word-1) /\ Len(wire) = Size[column]
  BY <1>2 DEF Held, Holds, Size
<1>4. Size["Int2"] = 1 /\ Size["Int4"] = 2 /\ Size["Int8"] = 4
  BY DEF Size
<1>5. Number = ReadBigEndian
  BY <1>2 DEF Number
<1>6. /\ ReadBigEndian \in Int
      /\ column = "Int2" => Fits(ReadBigEndian, "int16")
      /\ column = "Int4" => Fits(ReadBigEndian, "int32")
      /\ column = "Int8" => Fits(ReadBigEndian, "int64")
  BY <1>2, <1>3, <1>4, ReadsFixed
<1>7. /\ Fits(ReadBigEndian, "int16") => Fits(ReadBigEndian, "int32")
      /\ Fits(ReadBigEndian, "int32") => Fits(ReadBigEndian, "int64")
  BY <1>6, SignedChain
<1> QED BY <1>1, <1>2, <1>5, <1>6, <1>7

(* What as<timestamp> makes of what it reads.                               *)
LEMMA TimeRead ==
    ASSUME Held, pc = "row", wire # <<>>, column = "Timestamp"
    PROVE  /\ Fits(TimeOf(ReadBigEndian), "timestamp") /\ Number \in Int
           /\ Fits(Number, "timestamp") => TimeOf(ReadBigEndian) = Number
<1> DEFINE y == ReadBigEndian + Epoch
<1>1. wire \in Seq(0..Word-1) /\ Len(wire) = 4
  BY DEF Held, Holds, Size
<1>2. ReadBigEndian \in Int /\ Epoch \in Int /\ Ticks \in Int
  BY <1>1, ReadsFixed, ScaleAssumption
<1>3. y \in Int /\ Number = y * Ticks
  BY <1>2 DEF Number
<1>4. "int64" \in Types /\ "timestamp" \in Types
  BY DEF Types, Span
<1> HIDE DEF y
<1>5. Cast(y, "int64") \in Int
  BY <1>3, <1>4, CastFits
<1>6. Cast(y, "int64") * Ticks \in Int
  BY <1>2, <1>5
<1>7. Fits(Cast(Cast(y, "int64") * Ticks, "timestamp"), "timestamp")
  <2> DEFINE z == Cast(y, "int64") * Ticks
  <2>1. z \in Int
    BY <1>6
  <2> HIDE DEF z
  <2>2. Fits(Cast(z, "timestamp"), "timestamp")
    BY <1>4, <2>1, CastFits
  <2> QED BY <2>2 DEF z
<1>8. Fits(Number, "timestamp") => Cast(Cast(y, "int64") * Ticks, "timestamp") = Number
  BY <1>3, ClockReaches
<1>9. Number \in Int
  BY <1>2, <1>3
<1> QED BY <1>7, <1>8, <1>9 DEF y, TimeOf

(* The columns stay while they are read.                                    *)
LEMMA ColumnStays ==
    ASSUME UNCHANGED <<wire, column>>
    PROVE  /\ Number' = Number /\ Integral' = Integral /\ IsNull' = IsNull
           /\ Ndigits' = Ndigits /\ Weight' = Weight /\ ReadBigEndian' = ReadBigEndian
<1>1. Ndigits' = Ndigits /\ Weight' = Weight
  BY DEF Ndigits, Weight
<1>2. Trailing' = Trailing
  BY <1>1 DEF Trailing
<1>3. Integral' = Integral /\ IsNull' = IsNull
  BY <1>2 DEF Integral, IsNull
<1>4. Elided' = Elided /\ Digits' = Digits
  BY <1>2 DEF Elided, Digits
<1>5. ReadBigEndian' = ReadBigEndian
  BY DEF ReadBigEndian
<1>6. Number' = Number
  BY <1>4, <1>5 DEF Number
<1> QED BY <1>1, <1>3, <1>5, <1>6

(* Before it is read there is no answer.                                    *)
LEMMA DecodedInit == Init => Decoded
<1> SUFFICES ASSUME Init PROVE Decoded
  OBVIOUS
<1>1. /\ pc \in {"normalize", "row"} /\ reader = "none" /\ result = 0 /\ k = 0 /\ answer = <<>>
  BY DEF Init
<1>2. 0 \in 0..Wide-1 /\ 0 \in 0..Word
  BY ScaleFacts
<1> QED BY <1>1, <1>2 DEF Decoded, DecodesExactly, Done

(* A step in front of as<T> leaves the decoder as it is.                    *)
LEMMA DecodedBefore ==
    ASSUME Decoded, UNCHANGED <<reader, result, k, answer>>, pc \notin {"digits", "done"},
           pc' \in {"normalize", "split", "strip", "bind", "row", "rejected"}
    PROVE  Decoded'
BY DEF Decoded, DecodesExactly, Done

(* as<T> has a number to return, of the type t.                             *)
Legible(t) ==
    /\ ~IsNull /\ column \in Sources[t]
    /\ column = "Numeric" => wire[3] = 0 /\ Ndigits >= 0

(* An answer is one of the type, and exact.                                 *)
LEMMA DecodedAnswer ==
    ASSUME Decoded, UNCHANGED <<wire, column, result, k>>, pc' = "done",
           NEW t \in DOMAIN Sources, reader' = t,
           answer' = <<>> \/ \E x : answer' = <<x>> /\ Fits(x, t),
           answer' # <<>> <=> Legible(t),
           Legible(t) => \/ answer' = <<Cast(Number, t)>>
                         \/ t = "timestamp" /\ ~Fits(Number, t),
           ~IsNull /\ column \in Sources[t] /\ Integral /\ Fits(Number, t) => answer' = <<Number>>,
           t = "timestamp" /\ column = "Timestamp" /\ ~IsNull => answer' = <<TimeOf(ReadBigEndian)>>
    PROVE  Decoded'
<1>1. /\ Number' = Number /\ Integral' = Integral /\ IsNull' = IsNull
      /\ ReadBigEndian' = ReadBigEndian /\ Ndigits' = Ndigits
  BY ColumnStays
<1>2. Readable' = Legible(t)
  BY <1>1 DEF Readable, Legible
<1>3. DecodesExactly'
  BY <1>1, <1>2 DEF DecodesExactly
<1>4. answer' = <<>> \/ (Len(answer') = 1 /\ Fits(answer'[1], reader'))
  OBVIOUS
<1>5. (Done /\ reader = "timestamp" /\ column = "Timestamp" /\ ~IsNull => answer = <<TimeOf(ReadBigEndian)>>)'
  BY <1>1 DEF TimeOf
<1> QED BY <1>3, <1>4, <1>5 DEF Decoded

(* as<uint64_t> has read the digits up to the k-th.                         *)
LEMMA DigitsDecoded ==
    ASSUME Decoded, Held, pc = "digits"
    PROVE  /\ NumericHeld /\ wire[3] = 0 /\ Ndigits > 0 /\ reader = "uint64" /\ answer = <<>>
           /\ k \in Nat /\ (k <= Ndigits \/ k <= Weight + 1)
           /\ Ndigits \in Int /\ Weight \in Int
           /\ UpTo(k) \in Seq(Nat) /\ Positional(Base, UpTo(k)) \in Nat
           /\ result = Positional(Base, UpTo(k)) % Wide
<1>1. /\ reader = "uint64" /\ column = "Numeric" /\ ~IsNull /\ wire[3] = 0 /\ Ndigits > 0 /\ answer = <<>>
      /\ k <= Ndigits \/ k <= Weight + 1
      /\ result = Positional(Base, UpTo(k)) % Wide /\ k \in 0..Word
  BY DEF Decoded
<1>2. NumericHeld
  BY <1>1 DEF Held, NumericHeld, IsNull
<1>3. k \in Nat
  BY <1>1, ScaleFacts
<1>4. Ndigits \in Int /\ Weight \in Int
  BY <1>2, NumericCounts
<1>5. UpTo(k) \in Seq(Nat) /\ Positional(Base, UpTo(k)) \in Nat
  BY <1>1, <1>2, <1>3, UpToFacts
<1> QED BY <1>1, <1>2, <1>3, <1>4, <1>5

(* One more digit, modulo 2^64.                                             *)
LEMMA DigitAdded ==
    ASSUME NEW u \in Seq(Nat), NEW d \in Nat, NEW r \in Int, r = Positional(Base, u) % Wide
    PROVE  LET x == (r * Base + d) % Wide
           IN x = Positional(Base, Append(u, d)) % Wide /\ x \in 0..Wide-1
<1> DEFINE p == Positional(Base, u)
           y == p * Base + d
           q == p \div Wide
           c == q * Base
           z == r * Base + d
<1>1. Base \in Nat /\ Wide \in Nat \ {0}
  BY ScaleFacts, SpanFacts
<1>2. p \in Nat /\ Positional(Base, Append(u, d)) = y
  BY <1>1, PositionalAppend
<1>3. r = p % Wide
  OBVIOUS
<1> HIDE DEF p
<1>4. p = q * Wide + r /\ q \in Nat /\ r \in Nat
  <2>1. Wide >= 2 /\ Wide \in Nat
    BY ScaleFacts
  <2>2. q \in Nat /\ p % Wide \in 0..Wide-1 /\ p = q * Wide + (p % Wide)
    BY <1>2, <2>1, DivMod
  <2> HIDE DEF q
  <2> QED BY <1>3, <2>2
<1> HIDE DEF q
<1>5. y = c * Wide + z /\ c \in Int /\ z \in Int /\ y \in Nat
  <2>1. c \in Int /\ z \in Int /\ y \in Nat
    <3>1. c \in Nat
      BY <1>1, <1>4, Closed
    <3>2. z \in Nat
      BY <1>1, <1>4, Closed
    <3>3. y \in Nat
      BY <1>1, <1>2, Closed
    <3> QED BY <3>1, <3>2, <3>3
  <2>2. (q * Wide + r) * Base + d = (q * Base) * Wide + (r * Base + d)
    BY <1>1, <1>4, Distributes
  <2> QED BY <1>4, <2>1, <2>2
<1>6. z = r * Base + d
  OBVIOUS
<1> HIDE DEF c, z
<1>7. (c * Wide + z) % Wide = z % Wide
  BY <1>1, <1>5, ModPlus
<1> HIDE DEF y
<1>8. y % Wide \in 0..Wide-1 /\ y % Wide = z % Wide
  BY <1>1, <1>5, <1>7
<1> QED BY <1>2, <1>6, <1>8

(* One more digit.                                                          *)
LEMMA DigitDecoded ==
    ASSUME Decoded, Held, pc = "digits", pc' = "digits", UNCHANGED <<wire, column, reader, answer>>,
           k' = k + 1, k + 1 <= Ndigits \/ k + 1 <= Weight + 1,
           result' = (result * Base + (IF k < Ndigits THEN wire[5 + k] ELSE 0)) % Wide
    PROVE  Decoded'
<1> DEFINE d == IF k < Ndigits THEN wire[5 + k] ELSE 0
           u == UpTo(k)
           w == UpTo(k + 1)
<1>1. /\ NumericHeld /\ wire[3] = 0 /\ Ndigits > 0 /\ reader = "uint64" /\ answer = <<>> /\ k \in Nat
      /\ result = Positional(Base, u) % Wide
  BY DigitsDecoded
<1>2. u \in Seq(Nat) /\ d \in Nat /\ w = Append(u, d)
  BY <1>1, UpToFacts
<1>3. Base \in Nat /\ Wide \in Nat \ {0}
  BY ScaleFacts, SpanFacts
<1>4. result' = (result * Base + d) % Wide
  OBVIOUS
<1>5. UNCHANGED <<Ndigits, Weight>> /\ IsNull' = IsNull
  BY ColumnStays
<1>6. UpTo(k)' = w
  BY <1>5 DEF UpTo
<1> HIDE DEF d, u, w
<1>7. result \in Int
  BY <1>3 DEF Decoded
<1>8. result' = Positional(Base, w) % Wide /\ result' \in 0..Wide-1
  BY <1>1, <1>2, <1>4, <1>7, DigitAdded
<1>9. result' = (Positional(Base, UpTo(k)) % Wide)'
  BY <1>6, <1>8
<1>10. k' \in 0..Word
  <2>1. Ndigits \in Int /\ Ndigits < Word /\ Weight \in Int /\ Weight + 1 <= Word
    BY <1>1, NumericCounts
  <2>2. k + 1 <= Word
    BY <1>1, <2>1, ScaleFacts
  <2> QED BY <1>1, <2>2, ScaleFacts
<1> QED BY <1>1, <1>5, <1>8, <1>9, <1>10 DEF Decoded, DecodesExactly, Done, NumericHeld, IsNull

(* The end of the digits is the number, unless it takes more than 64 bits.  *)
LEMMA NumberDecoded ==
    ASSUME Decoded, Held, NumericEnds
    PROVE  Decoded'
<1>1. /\ UNCHANGED <<wire, column, result, k>> /\ pc = "digits" /\ pc' = "done" /\ reader' = reader
      /\ answer' = <<result>> /\ k >= Ndigits /\ k - Ndigits >= Trailing
  BY DEF NumericEnds, Answered
<1>2. /\ NumericHeld /\ wire[3] = 0 /\ Ndigits > 0 /\ reader = "uint64" /\ k \in Nat
      /\ k <= Ndigits \/ k <= Weight + 1
      /\ Positional(Base, UpTo(k)) \in Nat /\ result = Positional(Base, UpTo(k)) % Wide
  BY <1>1, DigitsDecoded
<1>3. Ndigits \in Int /\ Weight \in Int /\ Trailing \in Int /\ Trailing = Weight + 1 - Ndigits
  BY <1>2, NumericCounts
<1>4. Lowest("uint64") = 0 /\ Span["uint64"] = Wide /\ "uint64" \in DOMAIN Sources
  BY DEF Lowest, Span, Sources
<1>5. Wide \in Nat \ {0} /\ Wide \in Nat
  BY SpanFacts
<1>6. result \in 0..Wide-1 /\ Fits(result, "uint64")
  <2>1. result \in 0..Wide-1
    BY DEF Decoded
  <2> QED BY <1>4, <1>5, <2>1 DEF Fits
<1>7. Number \in Nat /\ result = Number % Wide
  <2>1. Number \in Nat /\ Number = Positional(Base, UpTo(IF Trailing >= 0 THEN Weight + 1 ELSE Ndigits))
    BY <1>2, <1>3, NumericGroups
  <2>2. k = IF Trailing >= 0 THEN Weight + 1 ELSE Ndigits
    BY <1>1, <1>2, <1>3
  <2> QED BY <1>2, <2>1, <2>2
<1>8. result = Cast(Number, "uint64")
  <2> DEFINE x == Number
  <2>1. x \in Nat /\ result = x % Wide
    BY <1>7
  <2> HIDE DEF x
  <2>2. Cast(x, "uint64") = x % Wide
    <3>1. Cast(x, "uint64") = ((x - 0) % Wide) + 0
      BY <1>4 DEF Cast
    <3>2. x - 0 = x /\ x % Wide \in Int
      BY <1>5, <2>1
    <3> QED BY <3>1, <3>2
  <2> QED BY <2>1, <2>2 DEF x
<1>9. Fits(Number, "uint64") => result = Number
  <2>1. Number \in Int /\ "uint64" \in Types
    BY <1>7 DEF Types, Span
  <2> QED BY <1>8, <2>1, CastFits
<1>10. Legible("uint64")
  <2>1. ~IsNull /\ column \in Sources["uint64"] /\ Ndigits >= 0
    BY <1>2, <1>3 DEF NumericHeld, IsNull, Sources
  <2> QED BY <1>2, <2>1 DEF Legible
<1> QED BY <1>1, <1>2, <1>4, <1>6, <1>8, <1>9, <1>10, DecodedAnswer

(* The sign, zero and the length of a NUMERIC.                              *)
LEMMA NumericDecoded ==
    ASSUME Decoded, Held, AsNumeric
    PROVE  Decoded'
<1>1. /\ UNCHANGED <<wire, column, result, k>> /\ pc = "row" /\ reader' = "uint64"
      /\ ~IsNull /\ column = "Numeric"
  BY DEF AsNumeric, AsReads, Sources
<1>2. NumericHeld
  BY <1>1 DEF Held, NumericHeld, IsNull
<1>3. /\ Ndigits \in Int /\ wire[1] \in 0..Word-1 /\ Len(wire) = 4 + wire[1] /\ Weight \in Int
      /\ Ndigits >= 0 => Ndigits = wire[1]
  BY <1>2, NumericCounts
<1>4. answer = <<>> /\ result = 0 /\ k = 0
  BY <1>1 DEF Decoded
<1>5. Lowest("uint64") = 0 /\ Span["uint64"] = Wide /\ "uint64" \in DOMAIN Sources /\ Wide \in Nat \ {0}
  BY SpanFacts DEF Lowest, Span, Sources
<1>6. Fits(0, "uint64") /\ \A x \in Int : x < 0 \/ x >= Wide => ~Fits(x, "uint64")
  BY <1>5 DEF Fits
<1>7. CASE wire[3] # 0
  <2>1. answer' = <<>> /\ pc' = "done"
    BY <1>7 DEF AsNumeric, Answered
  <2>2. Integral => ~Fits(Number, "uint64")
    BY <1>2, <1>6, <1>7, NumericNumber
  <2>3. ~Legible("uint64")
    BY <1>1, <1>7 DEF Legible
  <2> QED BY <1>1, <1>5, <2>1, <2>2, <2>3, DecodedAnswer
<1>8. CASE wire[3] = 0 /\ Ndigits = 0
  <2>1. answer' = <<0>> /\ pc' = "done"
    BY <1>8 DEF AsNumeric, Answered
  <2>2. Number = 0
    BY <1>2, <1>3, <1>8, NumericGroups
  <2>3. Legible("uint64")
    BY <1>1, <1>3, <1>8 DEF Legible, Sources
  <2>4. Cast(0, "uint64") = 0
    BY <1>5, <1>6, CastFits DEF Types, Span
  <2> QED BY <1>1, <1>5, <1>6, <2>1, <2>2, <2>3, <2>4, DecodedAnswer
<1>9. CASE wire[3] = 0 /\ Ndigits < 0
  <2>1. answer' = <<>> /\ pc' = "done"
    BY <1>3, <1>9 DEF AsNumeric, Answered
  <2>2. Integral => ~Fits(Number, "uint64")
    BY <1>2, <1>6, <1>9, NumericNumber
  <2>3. ~Legible("uint64")
    BY <1>1, <1>3, <1>9 DEF Legible
  <2> QED BY <1>1, <1>5, <2>1, <2>2, <2>3, DecodedAnswer
<1>10. CASE wire[3] = 0 /\ Ndigits > 0
  <2>1. pc' = "digits" /\ answer' = <<>>
    <3>1. ~(Ndigits < 0 \/ Len(wire) < 4 + Ndigits) /\ Ndigits # 0
      BY <1>3, <1>10
    <3> QED BY <1>4, <1>10, <3>1 DEF AsNumeric
  <2>2. UNCHANGED <<Ndigits, Weight>> /\ IsNull' = IsNull
    BY <1>1, ColumnStays
  <2>3. UpTo(k)' = <<>>
    <3>1. UpTo(k)' = UpTo(0)
      BY <1>1, <1>4, <2>2 DEF UpTo
    <3>2. UpTo(0) = <<>>
      BY <1>2, <1>10, UpToFacts
    <3> QED BY <3>1, <3>2
  <2>4. (result = Positional(Base, UpTo(k)) % Wide)'
    <3>1. Positional(Base, <<>>) = 0
      BY PositionalEmpty, ScaleFacts
    <3>2. 0 % Wide = 0
      BY <1>5
    <3> QED BY <1>1, <1>4, <2>3, <3>1, <3>2
  <2>5. 0 \in 0..Wide-1 /\ 0 \in 0..Word
    BY ScaleFacts
  <2>6. k' <= Ndigits'
    BY <1>1, <1>3, <1>4, <1>10, <2>2
  <2> QED BY <1>1, <1>4, <1>5, <1>10, <2>1, <2>2, <2>4, <2>5, <2>6 DEF Decoded, DecodesExactly, Done
<1> QED BY <1>3, <1>7, <1>8, <1>9, <1>10

(* The steps of the program and of the server on an answer.                 *)
LEMMA DecodedKept == IInv /\ [Next]_vars => Decoded'
<1> SUFFICES ASSUME IInv, [Next]_vars PROVE Decoded'
  OBVIOUS
<1>0. Decoded /\ Held
  BY DEF IInv
<1> HIDE DEF IInv
<1>1. CASE \/ ToBinaryInteger \/ ToBinaryTimestamp \/ ToBinaryNull \/ EncodeZero \/ EncodeNumericUint64
           \/ BindNumeric \/ \E c \in DOMAIN Size : BindFixed(c)
           \/ \E c \in Columns : BindNull(c) \/ Reject(c)
  <2>1. /\ UNCHANGED <<reader, result, k, answer>> /\ pc \notin {"digits", "done"}
        /\ pc' \in {"normalize", "split", "strip", "bind", "row", "rejected"}
    BY <1>1 DEF ToBinaryInteger, ToBinaryTimestamp, ToBinaryNull, EncodeZero, EncodeNumericUint64,
                Stripped, Encoded, BindNumeric, BindFixed, BindNull, Reject, decoder
  <2> QED BY <1>0, <2>1, DecodedBefore
<1>2. CASE BeginDigits \/ SplitDigit \/ SplitEnds \/ StripZero
  <2>1. /\ UNCHANGED <<reader, result, k, answer>> /\ pc \notin {"digits", "done"}
        /\ pc' \in {"normalize", "split", "strip", "bind", "row", "rejected"}
    BY <1>2 DEF BeginDigits, SplitDigit, SplitEnds, StripZero, decoder
  <2> QED BY <1>0, <2>1, DecodedBefore
<1>3. ASSUME NEW t \in DOMAIN Sources, AsNothing(t) PROVE Decoded'
  <2>1. /\ UNCHANGED <<wire, column, result, k>> /\ pc' = "done" /\ reader' = t /\ answer' = <<>>
        /\ IsNull \/ column \notin Sources[t]
    BY <1>3 DEF AsNothing, Answered
  <2>2. Sources["timestamp"] = {"Timestamp"}
    BY DEF Sources
  <2>3. ~Legible(t)
    BY <2>1 DEF Legible
  <2> QED BY <1>0, <2>1, <2>2, <2>3, DecodedAnswer
<1>4. ASSUME NEW t \in DOMAIN Sources, AsInteger(t) PROVE Decoded'
  <2>1. /\ UNCHANGED <<wire, column, result, k>> /\ pc = "row" /\ pc' = "done" /\ reader' = t
        /\ answer' = <<Cast(ReadBigEndian, t)>> /\ ~IsNull /\ column \in Sources[t]
        /\ t \in DOMAIN Sources \ {"uint64", "timestamp"}
    BY <1>4 DEF AsInteger, AsReads, Answered
  <2>2. /\ t \in Types /\ ReadBigEndian \in Int /\ Number = ReadBigEndian
        /\ Fits(ReadBigEndian, t) \/ t \in {"uint16", "uint32"}
    BY <1>0, <2>1, IntegerRead DEF IsNull
  <2>3. /\ Fits(Cast(ReadBigEndian, t), t)
        /\ Fits(ReadBigEndian, t) => Cast(ReadBigEndian, t) = ReadBigEndian
    BY <2>2, CastFits
  <2>4. Legible(t)
    BY <2>1 DEF Legible, Sources
  <2> QED BY <1>0, <2>1, <2>2, <2>3, <2>4, DecodedAnswer
<1>5. CASE AsTimestamp
  <2>1. /\ UNCHANGED <<wire, column, result, k>> /\ pc = "row" /\ pc' = "done" /\ reader' = "timestamp"
        /\ answer' = <<TimeOf(ReadBigEndian)>> /\ ~IsNull /\ column = "Timestamp"
    BY <1>5 DEF AsTimestamp, AsReads, Answered, Sources
  <2>2. /\ Fits(TimeOf(ReadBigEndian), "timestamp") /\ Number \in Int
        /\ Fits(Number, "timestamp") => TimeOf(ReadBigEndian) = Number
    BY <1>0, <2>1, TimeRead DEF IsNull
  <2>3. "timestamp" \in DOMAIN Sources /\ "timestamp" \in Types
    BY DEF Sources, Types, Span
  <2>4. Legible("timestamp")
    BY <2>1 DEF Legible, Sources
  <2>5. Fits(Number, "timestamp") => Cast(Number, "timestamp") = Number
    BY <2>2, <2>3, CastFits
  <2> QED BY <1>0, <2>1, <2>2, <2>3, <2>4, <2>5, DecodedAnswer
<1>6. CASE AsNumeric
  BY <1>0, <1>6, NumericDecoded
<1>7. CASE ReadDigit
  <2>1. /\ UNCHANGED <<wire, column, reader, answer>> /\ pc = "digits" /\ pc' = "digits"
        /\ k < Ndigits /\ k' = k + 1 /\ result' = (result * Base + wire[5 + k]) % Wide
    BY <1>7 DEF ReadDigit
  <2>2. k \in Nat /\ Ndigits \in Int
    BY <1>0, <2>1, DigitsDecoded
  <2>3. k + 1 <= Ndigits
    BY <2>1, <2>2
  <2>4. result' = (result * Base + (IF k < Ndigits THEN wire[5 + k] ELSE 0)) % Wide
    BY <2>1
  <2> QED BY <1>0, <2>1, <2>3, <2>4, DigitDecoded
<1>8. CASE ReadElided
  <2>1. /\ UNCHANGED <<wire, column, reader, answer>> /\ pc = "digits" /\ pc' = "digits"
        /\ k >= Ndigits /\ k - Ndigits < Trailing /\ k' = k + 1 /\ result' = (result * Base) % Wide
    BY <1>8 DEF ReadElided
  <2>2. k \in Nat /\ NumericHeld
    BY <1>0, <2>1, DigitsDecoded
  <2>3. Ndigits \in Int /\ Weight \in Int /\ Trailing \in Int /\ Trailing = Weight + 1 - Ndigits
    BY <2>2, NumericCounts
  <2>4. k + 1 <= Weight + 1 /\ ~(k < Ndigits)
    BY <2>1, <2>2, <2>3
  <2>5. result * Base + 0 = result * Base
    <3>1. result \in Nat
      BY <1>0, SpanFacts DEF Decoded
    <3> QED BY <3>1, ScaleFacts
  <2>6. result' = (result * Base + (IF k < Ndigits THEN wire[5 + k] ELSE 0)) % Wide
    BY <2>1, <2>4, <2>5
  <2> QED BY <1>0, <2>1, <2>4, <2>6, DigitDecoded
<1>9. CASE NumericEnds
  BY <1>0, <1>9, NumberDecoded
<1>10. CASE UNCHANGED vars
  <2>1. UNCHANGED <<wire, column, pc, reader, result, k, answer>>
    BY <1>10 DEF vars, decoder
  <2>2. /\ Number' = Number /\ Integral' = Integral /\ IsNull' = IsNull /\ ReadBigEndian' = ReadBigEndian
        /\ Ndigits' = Ndigits /\ Weight' = Weight
    BY <2>1, ColumnStays
  <2>3. DecodesExactly' = DecodesExactly /\ UpTo(k)' = UpTo(k) /\ TimeOf(ReadBigEndian)' = TimeOf(ReadBigEndian)
    BY <2>1, <2>2 DEF DecodesExactly, Readable, Done, UpTo, TimeOf
  <2> QED BY <1>0, <2>1, <2>2, <2>3 DEF Decoded, Done
<1> QED BY <1>1, <1>2, <1>3, <1>4, <1>5, <1>6, <1>7, <1>8, <1>9, <1>10 DEF Next

-----------------------------------------------------------------------------
(* The inductive invariant of the whole way of a value.                     *)
THEOREM ValuesInvariance == Spec => []IInv
<1>1. Init => IInv
  BY InitInvariant, WrittenInit, HeldInit, DecodedInit DEF IInv
<1>2. IInv /\ [Next]_vars => IInv'
  <2>1. IInv /\ [Next]_vars => RoundTripInv'
    BY StepKeeps DEF IInv
  <2>2. IInv /\ [Next]_vars => Written' /\ Decoded'
    BY WrittenKept, DecodedKept
  <2>3. IInv /\ [Next]_vars => Held'
    BY HeldKept, <2>1
  <2> QED BY <2>1, <2>2, <2>3 DEF IInv
<1> QED BY <1>1, <1>2, PTL DEF Spec

(* Every variable keeps its type.                                           *)
LEMMA TypesHold == IInv => TypeOK
<1> SUFFICES ASSUME IInv PROVE TypeOK
  OBVIOUS
<1>0. RoundTripInv /\ Written /\ Held /\ Decoded
  BY DEF IInv
<1> HIDE DEF IInv
<1>1. v \in 0..Wide-1
  <2>1. v \in Nat /\ raw \in Seq(Nat) /\ quot \in Seq(Nat) /\ Quotients /\ Wide \in Nat /\ Wide >= 16
    BY <1>0, ScaleFacts DEF RoundTripInv
  <2>2. CASE type # "uint64"
    <3>1. v = 0
      BY <1>0, <2>2 DEF RoundTripInv, Phases
    <3> QED BY <2>1, <3>1
  <2>3. CASE type = "uint64"
    <3>1. value \in 0..Wide-1
      BY <1>0, <2>3 DEF RoundTripInv
    <3>2. CASE quot = <<>>
      BY <2>1, <3>1, <3>2 DEF Quotients
    <3>3. CASE quot # <<>>
      <4>1. Len(quot) \in 1..5
        <5> DEFINE l == Len(quot)
        <5>1. l \in Nat /\ l # 0
          BY <2>1, <3>3, EmptySeq, LenProperties
        <5>2. l <= 5
          BY <2>1 DEF Quotients
        <5> HIDE DEF l
        <5>3. l \in 1..5
          BY <5>1, <5>2
        <5> QED BY <5>3 DEF l
      <4> DEFINE p == Power[Len(quot)]
      <4>2. p \in Nat /\ 1 <= p /\ v * p <= value
        BY <2>1, <3>3, <4>1, PowerFacts DEF Quotients
      <4> HIDE DEF p
      <4>3. v * p >= v /\ v * p \in Nat
        <5>1. 1 * v <= p * v
          BY <2>1, <4>2, Monotone
        <5> QED BY <2>1, <4>2, <5>1
      <4> QED BY <2>1, <3>1, <4>2, <4>3
    <3> QED BY <3>2, <3>3
  <2> QED BY <2>2, <2>3
<1>2. \A j \in 1..Len(raw) : raw[j] \in 0..Base-1
  BY <1>0 DEF RoundTripInv, Quotients
<1>3. \A j \in 1..Len(wire) : wire[j] \in 0..Word-1
  BY <1>0, ElementOfSeq DEF Held
<1>4. type \in Types \cup {"none"} /\ column \in Columns \cup {"none"}
  BY <1>0 DEF RoundTripInv, Held
<1>5. /\ pc \in {"normalize", "split", "strip", "bind", "row", "digits", "rejected", "done"}
      /\ reader \in DOMAIN Sources \cup {"none"}
      /\ result \in 0..Wide-1 /\ k \in 0..Word
      /\ answer = <<>> \/ (Len(answer) = 1 /\ Fits(answer[1], reader))
  BY <1>0 DEF Decoded
<1> QED BY <1>1, <1>2, <1>3, <1>4, <1>5 DEF TypeOK

(* The number that the words of a fixed size stand for.                     *)
LEMMA WrittenNumber ==
    ASSUME Written, ~Encoding, type \in Fixed, column # "Numeric" \/ pc = "rejected"
    PROVE  /\ Len(wire) = Width[Form] /\ ReadBigEndian = Cast(Meant, Form)
           /\ type # "timestamp" => ReadBigEndian = value
<1>1. value \in Int /\ Fits(value, type)
  BY Kinds DEF Written
<1>2. Form \in Signed /\ Form \in Types /\ Meant \in Int /\ Cast(Meant, Form) \in Int
  BY <1>1, FormFacts
<1>3. wire = EncodeFixed(Cast(Meant, Form), Width[Form])
  BY DEF Written
<1>4. Len(wire) = Width[Form] /\ ReadBigEndian = Cast(Cast(Meant, Form), Form)
  <2> DEFINE x == Cast(Meant, Form)
  <2>1. x \in Int /\ wire = EncodeFixed(x, Width[Form])
    BY <1>2, <1>3
  <2> HIDE DEF x
  <2>2. Len(wire) = Width[Form] /\ ReadBigEndian = Cast(x, Form)
    BY <1>2, <2>1, ReadsWritten
  <2> QED BY <2>2 DEF x
<1>5. Cast(Cast(Meant, Form), Form) = Cast(Meant, Form)
  <2> DEFINE x == Cast(Meant, Form)
  <2>1. x \in Int /\ Fits(x, Form)
    BY <1>2, CastFits
  <2> HIDE DEF x
  <2>2. Cast(x, Form) = x
    BY <1>2, <2>1, CastFits
  <2> QED BY <2>2 DEF x
<1>6. type # "timestamp" => Cast(Meant, Form) = value
  <2> SUFFICES ASSUME type # "timestamp" PROVE Cast(Meant, Form) = value
    OBVIOUS
  <2>1. type \in DOMAIN Normalize /\ Form = Normalize[type] /\ Meant = value
    BY Kinds DEF Form, Meant
  <2>2. Fits(value, Form)
    BY <1>1, <2>1, FitsWider
  <2> QED BY <1>1, <1>2, <2>1, <2>2, CastFits
<1> QED BY <1>4, <1>5, <1>6

(* A time on its way back.                                                  *)
LEMMA WrittenTime ==
    ASSUME Written, ~Encoding, type = "timestamp", column # "Numeric"
    PROVE  TimeOf(ReadBigEndian) = Microseconds * Ticks
<1>1. value \in Int /\ Fits(value, "timestamp") /\ type \in Fixed
  BY Kinds DEF Written
<1>2. Microseconds \in Int /\ Fits(Microseconds, "int64") /\ Microseconds * Ticks \in Int
      /\ Fits(Microseconds * Ticks, "timestamp")
  BY <1>1, Truncated
<1>3. ReadBigEndian = Cast(Microseconds - Epoch, "int64")
  <2>1. ReadBigEndian = Cast(Meant, Form)
    BY <1>1, WrittenNumber
  <2> QED BY <2>1 DEF Meant, Form
<1>4. "int64" \in Types /\ "timestamp" \in Types /\ Epoch \in Int
  BY ScaleAssumption DEF Types, Span
<1> DEFINE m == Microseconds
           x == m - Epoch
<1>5. x \in Int /\ x + Epoch = m /\ m \in Int
  BY <1>2, <1>4
<1>6. Cast(Cast(x, "int64") + Epoch, "int64") = m
  <2>1. Cast(m, "int64") = m
    BY <1>2, <1>4, CastFits
  <2> HIDE DEF x, m
  <2>2. Cast(Cast(x, "int64") + Epoch, "int64") = Cast(x + Epoch, "int64")
    BY <1>4, <1>5, CastShift
  <2> QED BY <1>5, <2>1, <2>2
<1>7. Cast(m * Ticks, "timestamp") = m * Ticks
  BY <1>2, <1>4, CastFits
<1> QED BY <1>3, <1>6, <1>7 DEF TimeOf

(* What is written to the column of its type reads back.                    *)
LEMMA HomeReadsBack == IInv => ReadsBack
<1> SUFFICES ASSUME IInv, NEW t \in DOMAIN Home, type = t, column = Home[t]
             PROVE  /\ pc # "rejected"
                    /\ Done /\ reader = t =>
                         answer = <<IF t = "timestamp" THEN Microseconds * Ticks ELSE value>>
  BY DEF ReadsBack
<1>0. RoundTripInv /\ Written /\ Held /\ Decoded
  BY DEF IInv
<1> HIDE DEF IInv
<1>1. /\ t \in {"int16", "int32", "int64", "uint16", "uint32", "timestamp"} /\ type \in Fixed
      /\ column \in {"Int2", "Int4", "Int8", "Timestamp"} /\ column # "none" /\ column # "Numeric"
      /\ t = "timestamp" <=> column = "Timestamp"
      /\ column \in Sources[t]
  BY DEF Home, Fixed, Normalize, Sources
<1>2. ~Encoding
  BY <1>0, <1>1 DEF RoundTripInv, Phases
<1>3. Len(wire) = Width[Form] /\ (t # "timestamp" => ReadBigEndian = value)
  BY <1>0, <1>1, <1>2, WrittenNumber
<1>4. Width[Form] = Size[column] /\ column \in DOMAIN Size /\ Size[column] \in {1, 2, 4}
  <2>1. CASE t = "timestamp"
    BY <2>1 DEF Form, Width, Size, Home
  <2>2. CASE t # "timestamp"
    BY <1>1, <2>2 DEF Form, Width, Size, Home, Normalize
  <2> QED BY <2>1, <2>2
<1>5. pc # "rejected"
  BY <1>0, <1>3, <1>4 DEF Held
<1>6. ~IsNull
  <2> SUFFICES ASSUME wire = <<>> PROVE FALSE
    BY DEF IsNull
  <2>1. Len(<<>>) = 0
    OBVIOUS
  <2> QED BY <1>3, <1>4, <2>1
<1>7. ASSUME Done, reader = t
      PROVE  answer = <<IF t = "timestamp" THEN Microseconds * Ticks ELSE value>>
  <2>1. CASE t = "timestamp"
    <3>1. answer = <<TimeOf(ReadBigEndian)>>
      BY <1>0, <1>1, <1>6, <1>7, <2>1 DEF Decoded
    <3>2. TimeOf(ReadBigEndian) = Microseconds * Ticks
      BY <1>0, <1>1, <1>2, <2>1, WrittenTime
    <3> QED BY <2>1, <3>1, <3>2
  <2>2. CASE t # "timestamp"
    <3>1. Integral
      BY <1>1 DEF Integral
    <3>2. Number = value
      BY <1>1, <1>3, <2>2 DEF Number
    <3>3. Fits(value, t)
      BY <1>0, <1>1, Kinds DEF Written
    <3>4. Fits(Number, t) => answer = <<Number>>
      BY <1>0, <1>1, <1>6, <1>7, <3>1 DEF Decoded, DecodesExactly
    <3> QED BY <2>2, <3>2, <3>3, <3>4
  <2> QED BY <2>1, <2>2
<1> QED BY <1>5, <1>7

(* A uint64_t in a NUMERIC column is the number in it.                      *)
LEMMA SentNumber ==
    ASSUME RoundTripInv, Sent, raw # <<>>, NumericHeld
    PROVE  Integral /\ Number = value
<1>1. /\ Len(raw) \in 1..5 /\ wire[1] = Len(raw) /\ wire[3] = 0
      /\ \A j \in 1..Len(raw) : wire[4 + j] = raw[j]
      /\ v = 0 /\ quot # <<>> /\ weight = Len(quot) - 1 /\ Len(quot) \in 1..5
  BY SentWire
<1>2. Ndigits = Len(raw) /\ Trailing = Len(quot) - Len(raw)
  BY SentCounts
<1>3. /\ Len(raw) <= Len(quot) /\ quot[Len(quot)] = value
      /\ \A j \in 1..Len(quot) :
           /\ quot[j] \in 1..value
           /\ quot[j] = (IF j = 1 THEN v ELSE quot[j - 1]) * Base
                        + (IF j <= Len(raw) THEN raw[j] ELSE 0)
  BY <1>1 DEF RoundTripInv, Quotients
<1>4. Integral
  <2>1. Trailing >= 0
    BY <1>1, <1>2, <1>3
  <2> QED BY <1>1, <2>1 DEF Integral
<1>5. Weight + 1 = Len(quot) /\ Ndigits > 0
  <2>1. Trailing = Weight + 1 - Ndigits /\ Weight \in Int
    BY NumericCounts
  <2> QED BY <1>1, <1>2, <2>1
<1>6. Number = Positional(Base, UpTo(Len(quot)))
  BY <1>1, <1>4, <1>5, NumericNumber
<1> DEFINE u == UpTo(Len(quot))
           n == Len(quot)
           g == [j \in 0..n |-> IF j = 0 THEN 0 ELSE quot[j]]
<1>7. u \in Seq(Nat) /\ Len(u) = n /\ n \in 1..5
  <2>1. n \in Nat
    BY <1>1
  <2>2. UpTo(n) \in Seq(Nat) /\ Len(UpTo(n)) = n
    <3> HIDE DEF n
    <3> QED BY <1>5, <2>1, UpToFacts
  <2> QED BY <1>1, <2>2
<1>8. \A j \in 1..n : u[j] = IF j <= Len(raw) THEN raw[j] ELSE 0
  <2> TAKE j \in 1..n
  <2>1. u[j] = IF j <= Ndigits THEN wire[4 + j] ELSE 0
    BY DEF UpTo
  <2>2. j <= Len(raw) => j \in 1..Len(raw)
    BY <1>1
  <2> QED BY <1>1, <1>2, <2>1, <2>2
<1>9. g[0] = 0 /\ \A j \in 1..n : g[j] = quot[j]
  BY <1>7
<1> HIDE DEF u, g
<1>10. \A j \in 1..n : g[j] = g[j - 1] * Base + u[j]
  <2> TAKE j \in 1..n
  <2>1. quot[j] = (IF j = 1 THEN 0 ELSE quot[j - 1]) * Base + u[j]
    BY <1>1, <1>3, <1>8
  <2>2. g[j - 1] = IF j = 1 THEN 0 ELSE quot[j - 1]
    <3>1. CASE j = 1
      <4>1. j - 1 = 0
        BY <3>1
      <4> QED BY <1>9, <3>1, <4>1
    <3>2. CASE j # 1
      <4>1. j - 1 \in 1..n
        BY <1>7, <3>2
      <4> QED BY <1>9, <3>2, <4>1
    <3> QED BY <3>1, <3>2
  <2> QED BY <1>9, <2>1, <2>2
<1>11. Positional(Base, u) = g[n]
  <2> HIDE DEF n
  <2>1. Base \in Nat
    BY ScaleFacts
  <2> QED BY <1>7, <1>9, <1>10, <2>1, PositionalValue
<1>12. g[n] = value
  BY <1>3, <1>7, <1>9
<1> QED BY <1>4, <1>6, <1>11, <1>12 DEF u

(* What the server accepts is what was written.                             *)
LEMMA NumberWritten == IInv => NothingMisread
<1> SUFFICES ASSUME IInv, pc = "row", type \in DOMAIN Normalize \cup {"uint64"}, column # "Timestamp"
             PROVE  \/ Integral /\ Number = value
                    \/ column = "Numeric" /\ wire[1] = 0 /\ Normalize[type] = "int64"
                    \/ column = "Int2" /\ type = "uint64" /\ value = 0
  BY DEF NothingMisread
<1>0. RoundTripInv /\ Written /\ Held
  BY DEF IInv
<1> HIDE DEF IInv
<1>1. ~Encoding
  BY DEF Encoding
<1>2. column \in {"Int2", "Int4", "Int8", "Numeric"} /\ Holds(column, wire) /\ wire \in Seq(0..Word-1)
  BY <1>0 DEF Held, Columns, Size
<1>3. CASE type \in DOMAIN Normalize
  <2>1. type \in Fixed /\ type # "timestamp"
    BY <1>3, Kinds
  <2>2. CASE column = "Numeric"
    BY <1>0, <1>1, <2>1, <2>2 DEF Written, Form
  <2>3. CASE column # "Numeric"
    <3>1. ReadBigEndian = value
      BY <1>0, <1>1, <2>1, <2>3, WrittenNumber
    <3> QED BY <1>2, <2>3, <3>1 DEF Integral, Number
  <2> QED BY <2>2, <2>3
<1>4. CASE type = "uint64"
  <2>1. Sent
    BY <1>1, <1>4 DEF Sent
  <2>2. CASE raw # <<>>
    <3>1. Len(raw) \in 1..5 /\ Len(wire) = 4 + Len(raw)
      BY <1>0, <2>1, <2>2, SentWire
    <3>2. Len(<<>>) = 0
      OBVIOUS
    <3> DEFINE l == Len(raw)
    <3>a. l \in 1..5 /\ Len(wire) = 4 + l
      BY <3>1
    <3> HIDE DEF l
    <3>3. wire # <<>> /\ Len(wire) > 4
      BY <3>2, <3>a
    <3>4. column = "Numeric"
      BY <1>2, <3>3 DEF Holds, Size
    <3>5. NumericHeld
      BY <1>2, <3>3, <3>4 DEF NumericHeld
    <3> QED BY <1>0, <2>1, <2>2, <3>5, SentNumber
  <2>3. CASE raw = <<>>
    <3>1. value = 0 /\ wire = <<ZeroWord>> /\ column # "Numeric"
      BY <1>0, <2>1, <2>3 DEF RoundTripInv, Phases
    <3>2. Len(wire) = 1 /\ wire # <<>>
      BY <3>1
    <3>3. column = "Int2"
      BY <1>2, <3>1, <3>2 DEF Holds, Size
    <3> QED BY <1>4, <3>1, <3>3
  <2> QED BY <2>2, <2>3
<1> QED BY <1>3, <1>4

-----------------------------------------------------------------------------
(* Every variable keeps its type, and an answer is a value of T.            *)
THEOREM TypeCorrect == Spec => []TypeOK
<1> QED BY ValuesInvariance, TypesHold, PTL

(* A value written to the column meant for its type is accepted and as<T>   *)
(* of its type returns it; a time loses what is below a microsecond.        *)
THEOREM ReadsBackCorrect == Spec => []ReadsBack
<1> QED BY ValuesInvariance, HomeReadsBack, PTL

(* The server never takes a number for another one, but for the two cases   *)
(* that the property names.                                                 *)
THEOREM NothingMisreadCorrect == Spec => []NothingMisread
<1> QED BY ValuesInvariance, NumberWritten, PTL

(* as<T> answers nullopt for NULL, for columns of another kind and for a    *)
(* NUMERIC with a sign, and for nothing else; otherwise the number in the   *)
(* column, modulo 2^width: exactly the number if it is an integer of T.     *)
THEOREM DecodesExactlyCorrect == Spec => []DecodesExactly
<1>1. IInv => DecodesExactly
  BY DEF IInv, Decoded
<1> QED BY ValuesInvariance, <1>1, PTL

=============================================================================
