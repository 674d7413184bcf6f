------------------------- MODULE JpegDecoder_proofs -------------------------
(***************************************************************************)
(* What JpegEncoder writes is what the decoder of JpegDecoder reads, for   *)
(* pictures of every size, every quality and all blocks the transform can  *)
(* give.  The argument, from the bits upwards:                             *)
(*                                                                         *)
(*  - the decoder reads a number where its bits stand, and its tables give *)
(*    each symbol of the four code tables back, whatever follows;          *)
(*  - so it reads a block where the bit strings of a block stand;          *)
(*  - stuffing and the bits kept between two calls lose nothing: with      *)
(*    every block the stream grows by its codes (the invariant ScanInv);   *)
(*  - so it reads the scan; and the header, of which every segment is      *)
(*    found by the lengths of those before it, gives it the tables.        *)
(***************************************************************************)
EXTENDS JpegDecoder, JpegEncoder_proofs

-----------------------------------------------------------------------------
(* What stands where in a sequence *)

\* The elements of t from position p on are s.
Stands(t, p, s) ==
    /\ p + Len(s) <= Len(t) + 1
    /\ \A i \in 1 .. Len(s) : t[p + i - 1] = s[i]

\* Two sequences stand in a third, one behind the other, if they do together.
LEMMA StandsConcat ==
    ASSUME NEW T, NEW t \in Seq(T), NEW p \in Nat \ {0},
           NEW s \in Seq(T), NEW u \in Seq(T), Stands(t, p, s \o u)
    PROVE  Stands(t, p, s) /\ Stands(t, p + Len(s), u)
  <1> DEFINE m == Len(s)
             n == Len(u)
             w == s \o u
             L == Len(t)
  <1>1. m \in Nat /\ n \in Nat /\ L \in Nat
    BY LenProperties
  <1>2. Len(w) = m + n
    BY ConcatProperties
  <1>3. \A i \in 1 .. m : w[i] = s[i]
    BY ConcatProperties
  <1>4. \A i \in 1 .. n : w[m + i] = u[i]
    BY ConcatProperties
  <1>5. p + (m + n) <= L + 1 /\ \A i \in 1 .. m + n : t[p + i - 1] = w[i]
    BY <1>2 DEF Stands
  <1> HIDE DEF w
  <1>6. Stands(t, p, s)
    <2> HIDE DEF m, n, L
    <2>1. p + m <= L + 1
      BY <1>1, <1>5
    <2>2. ASSUME NEW i \in 1 .. m PROVE t[p + i - 1] = s[i]
      <3>1. i \in 1 .. m + n
        BY <1>1
      <3> QED
        BY <1>3, <1>5, <3>1
    <2> QED
      BY <2>1, <2>2 DEF Stands, m, L
  <1>7. Stands(t, p + m, u)
    <2> HIDE DEF m, n, L
    <2>1. (p + m) + n <= L + 1
      BY <1>1, <1>5
    <2>2. ASSUME NEW i \in 1 .. n PROVE t[(p + m) + i - 1] = u[i]
      <3>1. m + i \in 1 .. m + n /\ p + (m + i) - 1 = (p + m) + i - 1
        BY <1>1
      <3>2. t[p + (m + i) - 1] = w[m + i]
        BY <1>5, <3>1
      <3> QED
        BY <1>4, <3>1, <3>2
    <2> QED
      BY <2>1, <2>2 DEF Stands, n, L
  <1> QED
    BY <1>6, <1>7 DEF m

-----------------------------------------------------------------------------
(* Numbers in the bit stream *)

\* Half of what is left of a number without its last bits.
LEMMA Halved ==
    ASSUME NEW v \in Nat, NEW q \in 0 .. 15
    PROVE  v \div 2 ^ (q + 1) = (v \div 2 ^ q) \div 2
  <1>1. \/ q = 0 /\ q + 1 = 1
        \/ q = 1 /\ q + 1 = 2
        \/ q = 2 /\ q + 1 = 3
        \/ q = 3 /\ q + 1 = 4
        \/ q = 4 /\ q + 1 = 5
        \/ q = 5 /\ q + 1 = 6
        \/ q = 6 /\ q + 1 = 7
        \/ q = 7 /\ q + 1 = 8
        \/ q = 8 /\ q + 1 = 9
        \/ q = 9 /\ q + 1 = 10
        \/ q = 10 /\ q + 1 = 11
        \/ q = 11 /\ q + 1 = 12
        \/ q = 12 /\ q + 1 = 13
        \/ q = 13 /\ q + 1 = 14
        \/ q = 14 /\ q + 1 = 15
        \/ q = 15 /\ q + 1 = 16
    OBVIOUS
  <1>2. /\ v \div 2 ^ 1 = (v \div 2 ^ 0) \div 2
        /\ v \div 2 ^ 2 = (v \div 2 ^ 1) \div 2
        /\ v \div 2 ^ 3 = (v \div 2 ^ 2) \div 2
        /\ v \div 2 ^ 4 = (v \div 2 ^ 3) \div 2
        /\ v \div 2 ^ 5 = (v \div 2 ^ 4) \div 2
        /\ v \div 2 ^ 6 = (v \div 2 ^ 5) \div 2
        /\ v \div 2 ^ 7 = (v \div 2 ^ 6) \div 2
        /\ v \div 2 ^ 8 = (v \div 2 ^ 7) \div 2
    OBVIOUS
  <1>3. /\ v \div 2 ^ 9 = (v \div 2 ^ 8) \div 2
        /\ v \div 2 ^ 10 = (v \div 2 ^ 9) \div 2
        /\ v \div 2 ^ 11 = (v \div 2 ^ 10) \div 2
        /\ v \div 2 ^ 12 = (v \div 2 ^ 11) \div 2
        /\ v \div 2 ^ 13 = (v \div 2 ^ 12) \div 2
        /\ v \div 2 ^ 14 = (v \div 2 ^ 13) \div 2
        /\ v \div 2 ^ 15 = (v \div 2 ^ 14) \div 2
        /\ v \div 2 ^ 16 = (v \div 2 ^ 15) \div 2
    OBVIOUS
  <1> QED
    BY <1>1, <1>2, <1>3, Zenon

\* A number without its last q bits is at least x, if it is at least x of 2 ^ q.
LEMMA DivAtLeast ==
    ASSUME NEW v \in Nat, NEW X \in Nat, NEW q \in 0 .. 15, v >= 2 ^ q * X
    PROVE  v \div 2 ^ q >= X
  <1>1. /\ v >= 2 ^ 0 * X => v \div 2 ^ 0 >= X
        /\ v >= 2 ^ 1 * X => v \div 2 ^ 1 >= X
        /\ v >= 2 ^ 2 * X => v \div 2 ^ 2 >= X
        /\ v >= 2 ^ 3 * X => v \div 2 ^ 3 >= X
        /\ v >= 2 ^ 4 * X => v \div 2 ^ 4 >= X
        /\ v >= 2 ^ 5 * X => v \div 2 ^ 5 >= X
        /\ v >= 2 ^ 6 * X => v \div 2 ^ 6 >= X
        /\ v >= 2 ^ 7 * X => v \div 2 ^ 7 >= X
    OBVIOUS
  <1>2. /\ v >= 2 ^ 8 * X => v \div 2 ^ 8 >= X
        /\ v >= 2 ^ 9 * X => v \div 2 ^ 9 >= X
        /\ v >= 2 ^ 10 * X => v \div 2 ^ 10 >= X
        /\ v >= 2 ^ 11 * X => v \div 2 ^ 11 >= X
        /\ v >= 2 ^ 12 * X => v \div 2 ^ 12 >= X
        /\ v >= 2 ^ 13 * X => v \div 2 ^ 13 >= X
        /\ v >= 2 ^ 14 * X => v \div 2 ^ 14 >= X
        /\ v >= 2 ^ 15 * X => v \div 2 ^ 15 >= X
    OBVIOUS
  <1>3. ASSUME q \in 0 .. 3 PROVE v >= 2 ^ q * X => v \div 2 ^ q >= X
    <2>1. q = 0 \/ q = 1 \/ q = 2 \/ q = 3
      BY <1>3
    <2> QED
      BY <1>1, <2>1, Zenon
  <1>4. ASSUME q \in 4 .. 7 PROVE v >= 2 ^ q * X => v \div 2 ^ q >= X
    <2>1. q = 4 \/ q = 5 \/ q = 6 \/ q = 7
      BY <1>4
    <2> QED
      BY <1>1, <2>1, Zenon
  <1>5. ASSUME q \in 8 .. 11 PROVE v >= 2 ^ q * X => v \div 2 ^ q >= X
    <2>1. q = 8 \/ q = 9 \/ q = 10 \/ q = 11
      BY <1>5
    <2> QED
      BY <1>2, <2>1, Zenon
  <1>6. ASSUME q \in 12 .. 15 PROVE v >= 2 ^ q * X => v \div 2 ^ q >= X
    <2>1. q = 12 \/ q = 13 \/ q = 14 \/ q = 15
      BY <1>6
    <2> QED
      BY <1>2, <2>1, Zenon
  <1>7. q \in 0 .. 3 \/ q \in 4 .. 7 \/ q \in 8 .. 11 \/ q \in 12 .. 15
    OBVIOUS
  <1> QED
    BY <1>3, <1>4, <1>5, <1>6, <1>7, Zenon

\* A number of at most bs.length bits.
Numeral(bs) == bs \in BitStrings /\ bs.value >= 0 /\ bs.value < 2 ^ bs.length

\* What is read in the first j bits of a numeral: the numeral without the rest.
LEMMA NumberRead ==
    ASSUME NEW bits \in Bits, NEW p \in Nat \ {0}, NEW bs, Numeral(bs),
           Stands(bits, p, BitsOf(bs)), NEW j \in 0 .. bs.length
    PROVE  Number(bits, p, j) = bs.value \div 2 ^ (bs.length - j)
  <1> DEFINE l == bs.length
             v == bs.value
  <1>1. l \in 0 .. 16 /\ v \in Nat /\ v < 2 ^ l
    BY DEF Numeral, BitStrings
  <1>2. BitsOf(bs) = [i \in 1 .. l |-> (v \div 2 ^ (l - i)) % 2]
    BY DEF BitsOf
  <1>3. /\ p + l <= Len(bits) + 1
        /\ \A i \in 1 .. l : bits[p + i - 1] = (v \div 2 ^ (l - i)) % 2
    <2> DEFINE b == BitsOf(bs)
    <2>1. DOMAIN b = 1 .. l /\ \A i \in 1 .. l : b[i] = (v \div 2 ^ (l - i)) % 2
      BY <1>2
    <2> HIDE DEF b
    <2>2. Len(b) = l
      <3>1. b \in Bits
        BY BitsOfType DEF Numeral, b
      <3>2. b \in Seq({0, 1})
        BY <3>1 DEF Bits
      <3>3. DOMAIN b = 1 .. Len(b) /\ Len(b) \in Nat
        BY <3>2, LenProperties
      <3> HIDE DEF l
      <3> QED
        BY <1>1, <2>1, <3>3
    <2>3. Stands(bits, p, b)
      BY DEF b
    <2> QED
      BY <2>1, <2>2, <2>3 DEF Stands
  <1> HIDE DEF l, v
  <1>4. j \in 0 .. l /\ j \in Nat
    BY <1>1 DEF l
  <1>5. Len(bits) \in Nat
    BY LenProperties DEF Bits
  <1> DEFINE q(i) == v \div 2 ^ (l - (i - 1))
             Step(c) == [i \in 1 .. j + 1 |->
                           IF i = 1 THEN 0 ELSE 2 * c[i - 1] + Bit(bits, p + i - 2)]
             g == [i \in 1 .. j + 1 |-> q(i)]
  <1>6. q(1) = 0
    <2> DEFINE d == 2 ^ l
    <2>1. d \in Nat /\ v < d
      BY <1>1, PowerIsPositive
    <2>2. l - (1 - 1) = l
      BY <1>1
    <2> HIDE DEF d
    <2>3. v \div d = 0
      BY <1>1, <2>1
    <2> QED
      BY <2>2, <2>3 DEF d
  <1>7. ASSUME NEW i \in 2 .. j + 1
        PROVE  q(i) = 2 * q(i - 1) + Bit(bits, p + i - 2)
    <2> DEFINE r == l - (i - 1)
               high == v \div 2 ^ r
    <2>1. r \in 0 .. 15 /\ r + 1 = l - ((i - 1) - 1) /\ i - 1 \in 1 .. l
      BY <1>1, <1>4
    <2>2. Bit(bits, p + i - 2) = high % 2
      <3>1. p + (i - 1) - 1 = p + i - 2 /\ p + i - 2 <= Len(bits)
        BY <1>1, <1>3, <1>4, <1>5
      <3>2. bits[p + (i - 1) - 1] = high % 2
        BY <1>3, <2>1
      <3> QED
        BY <3>1, <3>2 DEF Bit
    <2>3. q(i - 1) = v \div 2 ^ (r + 1)
      BY <2>1
    <2> HIDE DEF r
    <2>4. v \div 2 ^ (r + 1) = high \div 2
      BY <1>1, <2>1, Halved
    <2>5. high \in Nat
      <3> DEFINE d == 2 ^ r
      <3>0. r \in 0 .. 16
        BY <2>1
      <3>1. d \in Nat /\ d > 0
        BY <3>0, PowerIsPositive
      <3> HIDE DEF d
      <3>2. v \div d \in Nat
        BY <1>1, <3>1
      <3> QED
        BY <3>2 DEF d
    <2> HIDE DEF high
    <2>6. high = 2 * (high \div 2) + (high % 2)
      BY <2>5
    <2>7. q(i) = high
      BY DEF high, r
    <2> HIDE DEF q
    <2> QED
      BY <2>2, <2>3, <2>4, <2>6, <2>7
  <1> HIDE DEF q
  <1>8. g = Step(g)
    <2>1. ASSUME NEW i \in 1 .. j + 1
          PROVE  g[i] = IF i = 1 THEN 0 ELSE 2 * g[i - 1] + Bit(bits, p + i - 2)
      <3>1. CASE i = 1
        BY <1>6, <3>1
      <3>2. CASE i # 1
        <4>1. i \in 2 .. j + 1 /\ i - 1 \in 1 .. j + 1
          BY <1>4, <3>2
        <4>2. g[i] = q(i) /\ g[i - 1] = q(i - 1)
          BY <4>1
        <4> QED
          BY <1>7, <3>2, <4>1, <4>2
      <3> QED
        BY <3>1, <3>2
    <2> HIDE DEF g
    <2>2. g = [i \in 1 .. j + 1 |-> g[i]]
      BY DEF g
    <2> QED
      BY <2>1, <2>2
  <1> DEFINE number == CHOOSE c : c = Step(c)
  <1>9. number = Step(number)
    <2> HIDE DEF Step
    <2> QED
      BY <1>8
  <1>10. Number(bits, p, j) = number[j + 1]
    BY DEF Number
  <1> HIDE DEF number
  <1> DEFINE Good == {i \in 1 .. j + 1 : number[i] = q(i)}
  <1>11. 1 \in Good
    BY <1>4, <1>6, <1>9
  <1>12. ASSUME NEW i \in 1 .. (j + 1) - 1, i \in Good PROVE i + 1 \in Good
    <2> DEFINE m == i + 1
    <2>1. m \in 2 .. j + 1 /\ m \in 1 .. j + 1 /\ m # 1 /\ m - 1 = i
      BY <1>4
    <2>2. number[m - 1] = q(m - 1)
      BY <1>12, <2>1
    <2> HIDE DEF m
    <2>3. number[m] = 2 * number[m - 1] + Bit(bits, p + m - 2)
      BY <1>9, <2>1
    <2>4. number[m] = q(m)
      BY <1>7, <2>1, <2>2, <2>3
    <2>5. m \in Good
      BY <2>1, <2>4
    <2> QED
      BY <2>5 DEF m
  <1> HIDE DEF Good
  <1>13. j + 1 \in Nat /\ j + 1 \in 1 .. j + 1
    BY <1>4
  <1>14. j + 1 \in Good
    BY <1>11, <1>12, <1>13, Induction
  <1>15. number[j + 1] = q(j + 1)
    BY <1>14 DEF Good
  <1>16. (j + 1) - 1 = j
    BY <1>4
  <1> QED
    BY <1>10, <1>15, <1>16 DEF q, l, v

\* All bits of a numeral give it back.
LEMMA NumeralRead ==
    ASSUME NEW bits \in Bits, NEW p \in Nat \ {0}, NEW bs, Numeral(bs),
           Stands(bits, p, BitsOf(bs))
    PROVE  Number(bits, p, bs.length) = bs.value
  <1> DEFINE l == bs.length
             v == bs.value
  <1>1. l \in 0 .. 16 /\ v \in Int
    BY DEF Numeral, BitStrings
  <1>2. l \in 0 .. l /\ l - l = 0
    BY <1>1
  <1>3. Number(bits, p, l) = v \div 2 ^ (l - l)
    BY <1>2, NumberRead
  <1> HIDE DEF l, v
  <1>4. v \div 2 ^ 0 = v
    BY <1>1
  <1> QED
    BY <1>2, <1>3, <1>4 DEF l, v

-----------------------------------------------------------------------------
(* The decoder's tables *)

\* Sums of counts, times m at every step.
Sums(g, n, nr, m) ==
    /\ g \in [1 .. n -> Nat] /\ g[1] = 0
    /\ \A k \in 2 .. n : g[k] = m * (g[k - 1] + nr[k - 1])

\* There are such sums.
LEMMA SumsExist ==
    ASSUME NEW n \in Nat \ {0}, NEW nr \in [1 .. n -> Nat], NEW m \in Nat
    PROVE  \E g : Sums(g, n, nr, m)
  <1> DEFINE next(k, c) == m * (c + nr[k - 1])
             G == [k \in 2 .. n |-> [c \in Nat |-> next(k, c)]]
  <1>1. ASSUME NEW k \in 2 .. n, NEW c \in Nat PROVE next(k, c) \in Nat
    <2> DEFINE a == c + nr[k - 1]
    <2>1. k - 1 \in 1 .. n
      OBVIOUS
    <2>2. a \in Nat
      BY <2>1
    <2> HIDE DEF a
    <2>3. m * a \in Nat
      BY <2>2
    <2> QED
      BY <2>3 DEF a
  <1> HIDE DEF next
  <1>2. G \in [2 .. n -> [Nat -> Nat]]
    BY <1>1
  <1>3. \A k \in 2 .. n, c \in Nat : G[k][c] = next(k, c)
    OBVIOUS
  <1> HIDE DEF G
  <1>4. PICK h \in Seq(Nat) :
                /\ Len(h) = n /\ h[1] = 0
                /\ \A k \in 2 .. n : h[k] = G[k][h[k - 1]]
    <2> DEFINE T == Nat
               z == 0
    <2>1. z \in T /\ G \in [2 .. n -> [T -> T]]
      BY <1>2
    <2> HIDE DEF T, z
    <2>2. \E h \in Seq(T) :
             /\ Len(h) = n /\ h[1] = z
             /\ \A k \in 2 .. n : h[k] = G[k][h[k - 1]]
      BY <2>1, RecursionExists
    <2> QED
      BY <2>2 DEF T, z
  <1>5. h \in [1 .. n -> Nat] /\ h[1] = 0
    BY <1>4
  <1>6. ASSUME NEW k \in 2 .. n PROVE h[k] = m * (h[k - 1] + nr[k - 1])
    <2>1. k - 1 \in 1 .. n
      OBVIOUS
    <2>2. h[k - 1] \in Nat /\ h[k] = G[k][h[k - 1]]
      BY <1>4, <1>5, <2>1
    <2>3. h[k] = next(k, h[k - 1])
      BY <1>3, <2>2
    <2> QED
      BY <2>3 DEF next
  <1>7. Sums(h, n, nr, m)
    BY <1>5, <1>6 DEF Sums
  <1> QED
    BY <1>7

\* What obeys the rule of the sums is the sums.
LEMMA SumsUnique ==
    ASSUME NEW n \in Nat \ {0}, NEW nr \in [1 .. n -> Nat], NEW m \in Nat,
           NEW h, Sums(h, n, nr, m), NEW g, DOMAIN g = 1 .. n, g = [k \in 1 .. n |-> g[k]],
           g[1] = 0, \A k \in 2 .. n : g[k] = m * (g[k - 1] + nr[k - 1])
    PROVE  Sums(g, n, nr, m)
  <1> DEFINE Good == {k \in 1 .. n : g[k] = h[k]}
  <1>1. /\ h \in [1 .. n -> Nat] /\ h[1] = 0
        /\ \A k \in 2 .. n : h[k] = m * (h[k - 1] + nr[k - 1])
    BY DEF Sums
  <1>2. 1 \in Good
    BY <1>1
  <1>3. ASSUME NEW k \in 1 .. n - 1, k \in Good PROVE k + 1 \in Good
    <2> DEFINE i == k + 1
    <2>1. i \in 2 .. n /\ i \in 1 .. n /\ i - 1 = k
      OBVIOUS
    <2>2. g[i - 1] = h[i - 1]
      BY <1>3, <2>1
    <2> HIDE DEF i
    <2>3. g[i] = m * (g[i - 1] + nr[i - 1]) /\ h[i] = m * (h[i - 1] + nr[i - 1])
      BY <1>1, <2>1
    <2>4. g[i] = h[i]
      BY <2>2, <2>3, Zenon
    <2>5. i \in Good
      BY <2>1, <2>4
    <2> QED
      BY <2>5 DEF i
  <1> HIDE DEF Good
  <1>4. \A k \in 1 .. n : k \in Good
    BY <1>2, <1>3, Induction
  <1>5. \A k \in 1 .. n : g[k] = h[k]
    BY <1>4 DEF Good
  <1>6. h = [k \in 1 .. n |-> h[k]]
    BY <1>1
  <1>7. g = h
    BY <1>5, <1>6
  <1> QED
    BY <1>7

\* The first codes of the lengths, and how many codes are shorter, for counts.
FirstCodes(nr, f, b) == Sums(f, 16, nr, 2) /\ Sums(b, 16, nr, 1)

\* What the decoder makes of the counts.
LEMMA TableIs ==
    ASSUME NEW nr \in [1 .. 16 -> Nat], NEW values
    PROVE  /\ Table(nr, values).count = nr
           /\ Table(nr, values).values = values
           /\ FirstCodes(nr, Table(nr, values).first, Table(nr, values).before)
  <1> DEFINE StepF(d) == [k \in 1 .. 16 |->
                            IF k = 1 THEN 0 ELSE 2 * (d[k - 1] + nr[k - 1])]
             StepB(d) == [k \in 1 .. 16 |->
                            IF k = 1 THEN 0 ELSE d[k - 1] + nr[k - 1]]
             f == CHOOSE d : d = StepF(d)
             b == CHOOSE d : d = StepB(d)
             n == 16
  <1>1. Table(nr, values)
          = [first |-> f, before |-> b, count |-> nr, values |-> values]
    BY DEF Table
  <1>2. n \in Nat \ {0} /\ nr \in [1 .. n -> Nat] /\ 1 \in Nat /\ 2 \in Nat
    OBVIOUS
  <1>3. PICK h : Sums(h, n, nr, 2)
    <2> HIDE DEF n
    <2> QED
      BY <1>2, SumsExist
  <1>4. PICK c : Sums(c, n, nr, 1)
    <2> HIDE DEF n
    <2> QED
      BY <1>2, SumsExist
  <1>5. h = StepF(h)
    <2>1. /\ h \in [1 .. 16 -> Nat] /\ h[1] = 0
          /\ \A k \in 2 .. 16 : h[k] = 2 * (h[k - 1] + nr[k - 1])
      BY <1>3 DEF Sums
    <2>2. ASSUME NEW k \in 1 .. 16
          PROVE  h[k] = IF k = 1 THEN 0 ELSE 2 * (h[k - 1] + nr[k - 1])
      BY <2>1
    <2> QED
      BY <2>1, <2>2
  <1>6. c = StepB(c)
    <2>1. /\ c \in [1 .. 16 -> Nat] /\ c[1] = 0
          /\ \A k \in 2 .. 16 : c[k] = 1 * (c[k - 1] + nr[k - 1])
      BY <1>4 DEF Sums
    <2>2. ASSUME NEW k \in 1 .. 16
          PROVE  c[k] = IF k = 1 THEN 0 ELSE c[k - 1] + nr[k - 1]
      <3>1. CASE k = 1
        BY <2>1, <3>1
      <3>2. CASE k # 1
        <4>1. k \in 2 .. 16 /\ k - 1 \in 1 .. 16
          BY <3>2
        <4>2. c[k - 1] \in Nat /\ nr[k - 1] \in Nat
          BY <2>1, <4>1
        <4> QED
          BY <2>1, <3>2, <4>1, <4>2
      <3> QED
        BY <3>1, <3>2
    <2> QED
      BY <2>1, <2>2
  <1>7. f = StepF(f)
    <2> HIDE DEF StepF
    <2> QED
      BY <1>5
  <1>8. b = StepB(b)
    <2> HIDE DEF StepB
    <2> QED
      BY <1>6
  <1> HIDE DEF f, b
  <1>9. Sums(f, n, nr, 2)
    <2>1. DOMAIN f = 1 .. n /\ f = [k \in 1 .. n |-> f[k]] /\ f[1] = 0
      BY <1>7
    <2>2. ASSUME NEW k \in 2 .. n PROVE f[k] = 2 * (f[k - 1] + nr[k - 1])
      <3>1. k \in 1 .. n /\ k # 1
        OBVIOUS
      <3> QED
        BY <1>7, <3>1
    <2> HIDE DEF n
    <2> QED
      BY <1>2, <1>3, <2>1, <2>2, SumsUnique
  <1>10. Sums(b, n, nr, 1)
    <2>1. DOMAIN b = 1 .. n /\ b = [k \in 1 .. n |-> b[k]] /\ b[1] = 0
      BY <1>8
    <2> DEFINE Good == {k \in 1 .. n : b[k] \in Nat}
    <2>2. ASSUME NEW k \in 2 .. n PROVE b[k] = b[k - 1] + nr[k - 1]
      <3>1. k \in 1 .. n /\ k # 1
        OBVIOUS
      <3> QED
        BY <1>8, <3>1
    <2>3. 1 \in Good
      BY <2>1
    <2> HIDE DEF n
    <2>4. ASSUME NEW k \in 1 .. n - 1, k \in Good PROVE k + 1 \in Good
      <3>0. k \in 1 .. n /\ k + 1 \in 2 .. n /\ (k + 1) - 1 = k /\ k + 1 \in 1 .. n
        BY <1>2
      <3>1. nr[k] \in Nat
        BY <1>2, <3>0
      <3>2. b[k + 1] = b[k] + nr[k]
        BY <2>2, <3>0
      <3>3. b[k] \in Nat
        BY <2>4
      <3>4. b[k + 1] \in Nat
        BY <3>1, <3>2, <3>3
      <3> QED
        BY <3>0, <3>4
    <2> HIDE DEF Good
    <2>5. \A k \in 1 .. n : k \in Good
      BY <1>2, <2>3, <2>4, Induction
    <2>6. \A k \in 1 .. n : b[k] \in Nat
      BY <2>5 DEF Good
    <2>7. ASSUME NEW k \in 2 .. n PROVE b[k] = 1 * (b[k - 1] + nr[k - 1])
      <3>1. k - 1 \in 1 .. n
        BY <1>2
      <3>2. nr[k - 1] \in Nat /\ b[k - 1] \in Nat
        BY <1>2, <2>6, <3>1
      <3> QED
        BY <2>2, <3>2
    <2> QED
      BY <1>2, <1>4, <2>1, <2>7, SumsUnique
  <1>11. FirstCodes(nr, f, b)
    BY <1>9, <1>10 DEF FirstCodes
  <1> QED
    BY <1>1, <1>11

\* The two rules, written out.
LEMMA FirstCodesRules ==
    ASSUME NEW nr \in [1 .. 16 -> Nat], NEW f, NEW b, FirstCodes(nr, f, b)
    PROVE  /\ f[1] = 0 /\ b[1] = 0
           /\ \A k \in 1 .. 16 : f[k] \in Nat /\ b[k] \in Nat
           /\ \A k \in 2 .. 16 : f[k] = 2 * (f[k - 1] + nr[k - 1])
           /\ \A k \in 2 .. 16 : b[k] = b[k - 1] + nr[k - 1]
  <1>1. /\ f \in [1 .. 16 -> Nat] /\ f[1] = 0
        /\ \A k \in 2 .. 16 : f[k] = 2 * (f[k - 1] + nr[k - 1])
    BY DEF FirstCodes, Sums
  <1>2. /\ b \in [1 .. 16 -> Nat] /\ b[1] = 0
        /\ \A k \in 2 .. 16 : b[k] = 1 * (b[k - 1] + nr[k - 1])
    BY DEF FirstCodes, Sums
  <1>3. ASSUME NEW k \in 2 .. 16 PROVE b[k] = b[k - 1] + nr[k - 1]
    <2>1. k - 1 \in 1 .. 16
      OBVIOUS
    <2>2. b[k - 1] \in Nat /\ nr[k - 1] \in Nat
      BY <1>2, <2>1
    <2> QED
      BY <1>2, <2>2
  <1> QED
    BY <1>1, <1>2, <1>3

\* Doubling a product doubles a factor.
LEMMA TwiceProduct ==
    ASSUME NEW P \in Nat, NEW X \in Nat
    PROVE  P * X \in Nat /\ (2 * P) * X = 2 * (P * X)
  OBVIOUS

\* The first code of a length lies behind all that the codes of a shorter
\* length begin, and directly behind if there are none between.
LEMMA FirstCodesApart ==
    ASSUME NEW nr \in [1 .. 16 -> Nat], NEW f, NEW b, FirstCodes(nr, f, b),
           NEW j \in 1 .. 16, NEW k \in j + 1 .. 16
    PROVE  /\ b[k] >= b[j] + nr[j]
           /\ f[k] >= 2 ^ (k - j) * (f[j] + nr[j])
           /\ b[k] = b[j] + nr[j] => f[k] = 2 ^ (k - j) * (f[j] + nr[j])
  <1> DEFINE X == f[j] + nr[j]
             Y == b[j] + nr[j]
             Apart(i) == /\ b[i] >= Y
                         /\ f[i] >= 2 ^ (i - j) * X
                         /\ b[i] = Y => f[i] = 2 ^ (i - j) * X
             Good == {i \in j + 1 .. 16 : Apart(i)}
             a == j + 1
  <1>1. /\ \A i \in 1 .. 16 : f[i] \in Nat /\ b[i] \in Nat /\ nr[i] \in Nat
        /\ \A i \in 2 .. 16 : f[i] = 2 * (f[i - 1] + nr[i - 1])
        /\ \A i \in 2 .. 16 : b[i] = b[i - 1] + nr[i - 1]
    BY FirstCodesRules
  <1>2. X \in Nat /\ Y \in Nat
    BY <1>1
  <1>3. a \in 2 .. 16 /\ a - 1 = j /\ a - j = 1 /\ a \in j + 1 .. 16
    OBVIOUS
  <1>4. a \in Good
    <2> HIDE DEF a
    <2>1. b[a] = Y /\ f[a] = 2 * X
      BY <1>1, <1>3
    <2>2. 2 ^ (a - j) = 2
      <3>1. 2 ^ 1 = 2
        OBVIOUS
      <3> QED
        BY <1>3, <3>1, Zenon
    <2> HIDE DEF X, Y
    <2>3. Apart(a)
      BY <1>2, <2>1, <2>2
    <2> QED
      BY <1>3, <2>3
  <1>5. ASSUME NEW i \in a .. k - 1, i \in Good PROVE i + 1 \in Good
    <2> DEFINE m == i + 1
               P == 2 ^ (i - j)
               Q == 2 ^ (m - j)
               q == i - j
    <2>1. /\ m \in 2 .. 16 /\ m - 1 = i /\ i \in 1 .. 16 /\ m \in j + 1 .. 16
          /\ q \in 0 .. 15 /\ q \in 0 .. 16 /\ m - j = q + 1
      BY <1>3
    <2>2. P \in Nat /\ Q = 2 * P
      <3> HIDE DEF q, m
      <3>1. 2 ^ q \in Nat /\ 2 ^ (q + 1) = 2 * 2 ^ q
        BY <2>1, PowerIsPositive, PowerDoubles
      <3>2. P = 2 ^ q /\ Q = 2 ^ (q + 1)
        BY <2>1 DEF q
      <3> QED
        BY <3>1, <3>2
    <2>3. Apart(i)
      BY <1>5
    <2> HIDE DEF m
    <2>4. /\ f[m] = 2 * (f[i] + nr[i]) /\ b[m] = b[i] + nr[i]
          /\ f[i] \in Nat /\ b[i] \in Nat /\ nr[i] \in Nat
      BY <1>1, <2>1
    <2>5. b[i] >= Y /\ f[i] >= P * X /\ (b[i] = Y => f[i] = P * X)
      BY <2>3
    <2> HIDE DEF X, Y, P, Q
    <2> DEFINE Z == P * X
    <2>6. Z \in Nat /\ Q * X = 2 * Z
      BY <1>2, <2>2, TwiceProduct
    <2> HIDE DEF Z
    <2>7. b[i] >= Y /\ f[i] >= Z /\ (b[i] = Y => f[i] = Z)
      BY <2>5 DEF Z
    <2>8. b[m] >= Y /\ f[m] >= 2 * Z /\ (b[m] = Y => f[m] = 2 * Z)
      <3> DEFINE fi == f[i]
                 bi == b[i]
                 ni == nr[i]
      <3>1. fi \in Nat /\ bi \in Nat /\ ni \in Nat
        BY <2>4
      <3>2. f[m] = 2 * (fi + ni) /\ b[m] = bi + ni
        BY <2>4
      <3>3. bi >= Y /\ fi >= Z /\ (bi = Y => fi = Z)
        BY <2>7
      <3> HIDE DEF fi, bi, ni
      <3> QED
        BY <1>2, <2>6, <3>1, <3>2, <3>3
    <2>9. Apart(m)
      BY <2>6, <2>8 DEF Q
    <2> QED
      BY <2>1, <2>9 DEF m
  <1>6. k \in Good
    <2>1. a \in Nat /\ k \in Nat /\ k \in a .. k
      BY <1>3
    <2> HIDE DEF Good, a
    <2> QED
      BY <1>4, <1>5, <2>1, Induction
  <1> QED
    BY <1>6

-----------------------------------------------------------------------------
(* Where a code is in its table *)

\* The codes of lengths up to k: each in the places of its length.
Placed(t, k, nr, b) ==
    /\ t \in Seq(1 .. 16) /\ Len(t) = b[k] + nr[k]
    /\ \A p \in 1 .. Len(t) : b[t[p]] < p /\ p <= b[t[p]] + nr[t[p]]

\* The codes of one more length take the places behind.
LEMMA PlaceRun ==
    ASSUME NEW nr \in [1 .. 16 -> Nat], NEW b \in [1 .. 16 -> Nat],
           NEW t, NEW k \in 2 .. 16, Placed(t, k - 1, nr, b),
           b[k] = b[k - 1] + nr[k - 1]
    PROVE  Placed(t \o Run(nr[k], k), k, nr, b)
  <1> DEFINE n == nr[k]
             u == t \o Run(n, k)
             m == Len(t)
  <1>1. n \in Nat /\ k \in 1 .. 16 /\ k - 1 \in 1 .. 16
    OBVIOUS
  <1>2. t \in Seq(1 .. 16) /\ m = b[k]
    BY DEF Placed
  <1> HIDE DEF n
  <1> DEFINE r == Run(n, k)
             T == 1 .. 16
  <1>3. r \in Seq(T) /\ Len(r) = n /\ \A i \in 1 .. n : r[i] = k
    BY <1>1 DEF Run
  <1>3a. t \in Seq(T)
    BY <1>2
  <1> HIDE DEF r, T
  <1>4. t \o r \in Seq(T) /\ Len(t \o r) = m + n /\ m \in Nat
    BY <1>3, <1>3a, ConcatProperties, LenProperties
  <1>5. \A p \in 1 .. m : (t \o r)[p] = t[p]
    BY <1>3, <1>3a, ConcatProperties
  <1>6. ASSUME NEW p \in m + 1 .. m + n PROVE (t \o r)[p] = k
    <2>1. (t \o r)[p] = r[p - m]
      <3>1. p \in 1 .. m + n /\ ~ (p <= m)
        <4>1. m \in Nat
          BY <1>4
        <4> HIDE DEF m
        <4> QED
          BY <1>1, <4>1
      <3>2. \A i \in 1 .. m + n :
               (t \o r)[i] = IF i <= m THEN t[i] ELSE r[i - m]
        BY <1>3, <1>3a, ConcatProperties, ZenonT(30)
      <3> QED
        BY <3>1, <3>2
    <2>2. p - m \in 1 .. n
      BY <1>1, <1>4
    <2> QED
      BY <1>3, <2>1, <2>2
  <1>6a. u = t \o r /\ u \in Seq(1 .. 16)
    BY <1>4 DEF r, T
  <1> HIDE DEF u
  <1>7. ASSUME NEW p \in 1 .. m + n
        PROVE  b[u[p]] < p /\ p <= b[u[p]] + nr[u[p]]
    <2>1. CASE p \in 1 .. m
      <3>1. u[p] = t[p]
        BY <1>5, <1>6a, <2>1
      <3>2. b[t[p]] < p /\ p <= b[t[p]] + nr[t[p]]
        BY <2>1 DEF Placed
      <3> QED
        BY <3>1, <3>2, Zenon
    <2>2. CASE p \in m + 1 .. m + n
      <3>1. u[p] = k
        BY <1>6, <1>6a, <2>2
      <3>2. b[k] < p /\ p <= b[k] + nr[k]
        <4>1. nr[k] = n
          BY DEF n
        <4> HIDE DEF m
        <4>2. m < p /\ p <= m + n
          BY <1>1, <1>4, <2>2
        <4> QED
          BY <1>2, <4>1, <4>2
      <3> QED
        BY <3>1, <3>2
    <2> HIDE DEF m
    <2>3. p \in 1 .. m \/ p \in m + 1 .. m + n
      BY <1>1, <1>4
    <2> QED
      BY <2>1, <2>2, <2>3
  <1>8. Len(u) = b[k] + nr[k] /\ Len(u) = m + n
    BY <1>2, <1>4, <1>6a DEF n
  <1>9. Placed(u, k, nr, b)
    BY <1>6a, <1>7, <1>8 DEF Placed
  <1> QED
    BY <1>9 DEF u, n

\* All codes are in the places of their length.
LEMMA CodeLengthsPlaced ==
    ASSUME NEW nr \in [1 .. 16 -> Nat], NEW f, NEW b, FirstCodes(nr, f, b)
    PROVE  Placed(CodeLengths(nr), 16, nr, b)
  <1> DEFINE s == [k \in 1 .. 16 |-> Run(nr[k], k)]
             S == Seq(1 .. 16)
  <1>0. /\ b \in [1 .. 16 -> Nat] /\ b[1] = 0
        /\ \A k \in 2 .. 16 : b[k] = b[k - 1] + nr[k - 1]
    <2>1. b \in [1 .. 16 -> Nat]
      BY DEF FirstCodes, Sums
    <2> QED
      BY <2>1, FirstCodesRules
  <1>1. Len(s) = 16 /\ \A k \in 1 .. 16 : s[k] = Run(nr[k], k)
    OBVIOUS
  <1>2. CodeLengths(nr) = FlattenSeq(s)
    BY DEF CodeLengths, Run
  <1> HIDE DEF s
  <1>3. \A k \in 1 .. 16 : s[k] \in S
    <2>1. ASSUME NEW k \in 1 .. 16 PROVE s[k] \in S
      <3>1. nr[k] \in Nat
        OBVIOUS
      <3>2. Ascending(Run(nr[k], k), k)
        BY <3>1, RunAscends
      <3>3. s[k] = Run(nr[k], k)
        BY <1>1
      <3> QED
        BY <3>2, <3>3 DEF Ascending
    <2> QED
      BY <2>1
  <1>4. \A t, u \in S : t \o u \in S
    OBVIOUS
  <1> HIDE DEF S
  <1>5. Len(s) \in Nat \ {0} /\ Collects(S, s)
    <2>1. s[1] \in S
      BY <1>3
    <2>2. ASSUME NEW i \in 1 .. Len(s), NEW t \in S PROVE t \o s[i] \in S
      <3>1. s[i] \in S
        BY <1>1, <1>3
      <3> QED
        BY <1>4, <3>1
    <2>3. Len(s) \in Nat \ {0}
      BY <1>1
    <2> QED
      BY <2>1, <2>2, <2>3 DEF Collects
  <1>6. PICK g : /\ g \in Seq(S)
                 /\ Len(g) = Len(s) /\ g[1] = s[1]
                 /\ \A i \in 2 .. Len(s) : g[i] = g[i - 1] \o s[i]
                 /\ FlattenSeq(s) = g[Len(s)]
    BY <1>5, FlattenSteps
  <1>7. g[1] = Run(nr[1], 1) /\ CodeLengths(nr) = g[16]
    <2>1. Len(s) = 16 /\ s[1] = Run(nr[1], 1)
      BY <1>1
    <2>2. g[1] = s[1] /\ FlattenSeq(s) = g[Len(s)]
      BY <1>6
    <2> QED
      BY <1>2, <2>1, <2>2
  <1>8. ASSUME NEW k \in 2 .. 16 PROVE g[k] = g[k - 1] \o Run(nr[k], k)
    <2>1. k \in 2 .. Len(s) /\ s[k] = Run(nr[k], k)
      BY <1>1
    <2>2. \A i \in 2 .. Len(s) : g[i] = g[i - 1] \o s[i]
      BY <1>6
    <2> QED
      BY <2>1, <2>2
  <1> DEFINE Good == {k \in 1 .. 16 : Placed(g[k], k, nr, b)}
  <1>9. 1 \in Good
    <2> DEFINE n == nr[1]
               t == Run(n, 1)
    <2>1. n \in Nat /\ 1 \in 1 .. 16
      OBVIOUS
    <2> HIDE DEF n
    <2>2. t \in Seq(1 .. 16) /\ Len(t) = n /\ \A p \in 1 .. n : t[p] = 1
      BY <2>1 DEF Run
    <2> HIDE DEF t
    <2>3. Len(t) = b[1] + nr[1]
      BY <1>0, <2>1, <2>2 DEF n
    <2>4. ASSUME NEW p \in 1 .. Len(t) PROVE b[t[p]] < p /\ p <= b[t[p]] + nr[t[p]]
      <3>1. t[p] = 1 /\ p <= n /\ 0 < p
        BY <2>1, <2>2
      <3>2. b[1] < p /\ p <= b[1] + nr[1]
        BY <1>0, <2>1, <3>1 DEF n
      <3> QED
        BY <3>1, <3>2
    <2>5. Placed(t, 1, nr, b)
      BY <2>2, <2>3, <2>4 DEF Placed
    <2>6. 1 \in 1 .. 16 /\ g[1] = t
      BY <1>7, <2>1 DEF t, n
    <2> QED
      BY <2>5, <2>6
  <1>10. ASSUME NEW k \in 1 .. 15, k \in Good PROVE k + 1 \in Good
    <2> DEFINE m == k + 1
    <2>1. m \in 2 .. 16 /\ m - 1 = k /\ m \in 1 .. 16
      OBVIOUS
    <2>2. Placed(g[m - 1], m - 1, nr, b)
      BY <1>10, <2>1
    <2> HIDE DEF m
    <2>3. b[m] = b[m - 1] + nr[m - 1]
      BY <1>0, <2>1
    <2>4. Placed(g[m - 1] \o Run(nr[m], m), m, nr, b)
      BY <1>0, <2>1, <2>2, <2>3, PlaceRun
    <2>5. Placed(g[m], m, nr, b)
      BY <1>8, <2>1, <2>4
    <2>6. m \in Good
      BY <2>1, <2>5
    <2> QED
      BY <2>6 DEF m
  <1> HIDE DEF Good
  <1>11. 16 \in Good
    <2> DEFINE n == 16
    <2>1. n \in Nat /\ n \in 1 .. n /\ 1 \in Nat
      OBVIOUS
    <2>2. \A k \in 1 .. n - 1 : k \in Good => k + 1 \in Good
      BY <1>10
    <2> HIDE DEF n
    <2>3. n \in Good
      BY <1>9, <2>1, <2>2, Induction
    <2> QED
      BY <2>3 DEF n
  <1> QED
    BY <1>7, <1>11 DEF Good

\* The lengths of n codes, in order and in their places.
InOrder(l, n, nr, b) == Placed(l, 16, nr, b) /\ Ascending(l, 16) /\ Len(l) = n

\* The codes as the encoder computes them.
CodeList(l, n) ==
    LET code[p \in 1 .. n] ==
            IF p = 1 THEN 0
            ELSE (code[p - 1] + 1) * 2 ^ (l[p] - l[p - 1])
    IN  code

\* A code is the first of its length and as many more as there are before it.
LEMMA CodesInOrder ==
    ASSUME NEW nr \in [1 .. 16 -> Nat], NEW f, NEW b, FirstCodes(nr, f, b),
           NEW l, NEW n \in Nat \ {0}, InOrder(l, n, nr, b)
    PROVE  \A p \in 1 .. n : CodeList(l, n)[p] = f[l[p]] + (p - 1 - b[l[p]])
  <1> DEFINE c(p) == f[l[p]] + (p - 1 - b[l[p]])
             Step(d) == [p \in 1 .. n |->
                           IF p = 1 THEN 0
                           ELSE (d[p - 1] + 1) * 2 ^ (l[p] - l[p - 1])]
             g == [p \in 1 .. n |-> c(p)]
             code == CodeList(l, n)
  <1>1. /\ f[1] = 0 /\ b[1] = 0
        /\ \A k \in 1 .. 16 : f[k] \in Nat /\ b[k] \in Nat /\ nr[k] \in Nat
    BY FirstCodesRules
  <1>2. ASSUME NEW p \in 1 .. n
        PROVE  l[p] \in 1 .. 16 /\ b[l[p]] < p /\ p <= b[l[p]] + nr[l[p]]
    <2>1. l \in Seq(1 .. 16) /\ p \in 1 .. Len(l)
      BY DEF InOrder, Placed
    <2>2. l[p] \in 1 .. 16
      BY <2>1, ElementOfSeq
    <2> QED
      BY <2>1, <2>2 DEF InOrder, Placed
  <1>3. \A p \in 2 .. n : l[p - 1] <= l[p]
    BY DEF InOrder, Ascending
  <1>4. c(1) = 0
    <2> DEFINE k == l[1]
    <2>1. 1 \in 1 .. n
      OBVIOUS
    <2>2. k \in 1 .. 16 /\ b[k] < 1
      BY <1>2, <2>1
    <2> HIDE DEF k
    <2>3. b[k] = 0
      <3>1. b[k] \in Nat
        BY <1>1, <2>2
      <3> DEFINE d == b[k]
      <3>2. d \in Nat /\ d < 1
        BY <2>2, <3>1
      <3> HIDE DEF d
      <3>3. d = 0
        BY <3>2
      <3> QED
        BY <3>3 DEF d
    <2>4. f[k] = 0
      <3>1. CASE k = 1
        BY <1>1, <3>1
      <3>2. CASE k # 1
        <4> DEFINE j == 1
                   bk == b[k]
                   fk == f[k]
                   nj == nr[j]
                   q == k - j
                   P == 2 ^ q
        <4>1. j \in 1 .. 16 /\ k \in j + 1 .. 16 /\ q \in 0 .. 16
          BY <2>2, <3>2
        <4>2. nj \in Nat /\ b[j] = 0 /\ f[j] = 0
          BY <1>1
        <4> HIDE DEF j
        <4>3. /\ bk >= b[j] + nj
              /\ bk = b[j] + nj => fk = P * (f[j] + nj)
          BY <4>1, FirstCodesApart, ZenonT(30)
        <4>4. bk = 0
          BY <2>3
        <4> HIDE DEF bk, fk, nj, q
        <4>5. P \in Nat
          BY <4>1, PowerIsPositive
        <4> HIDE DEF P
        <4>6. nj = 0
          BY <4>2, <4>3, <4>4
        <4>7. fk = P * 0
          BY <4>2, <4>3, <4>4, <4>6
        <4>8. fk = 0
          BY <4>5, <4>7
        <4> QED
          BY <4>8 DEF fk
      <3> QED
        BY <3>1, <3>2
    <2>5. f[k] + (1 - 1 - b[k]) = 0
      BY <2>3, <2>4
    <2> QED
      BY <2>5 DEF k
  <1>5. ASSUME NEW p \in 2 .. n
        PROVE  c(p) = (c(p - 1) + 1) * 2 ^ (l[p] - l[p - 1])
    <2> DEFINE k == l[p]
               j == l[p - 1]
               q == k - j
               fk == f[k]
               fj == f[j]
               bk == b[k]
               bj == b[j]
               nk == nr[k]
               nj == nr[j]
               P == 2 ^ q
    <2>1. p \in 1 .. n /\ p - 1 \in 1 .. n
      OBVIOUS
    <2>2. k \in 1 .. 16 /\ j \in 1 .. 16 /\ j <= k
      BY <1>2, <1>3, <2>1
    <2>3. /\ bk < p /\ p <= bk + nk
          /\ bj < p - 1 /\ p - 1 <= bj + nj
      BY <1>2, <2>1
    <2>4. c(p) = fk + (p - 1 - bk)
      OBVIOUS
    <2>5. c(p - 1) = fj + ((p - 1) - 1 - bj)
      OBVIOUS
    <2>6. 2 ^ (l[p] - l[p - 1]) = P
      OBVIOUS
    <2> HIDE DEF c, k, j
    <2>7. /\ fk \in Nat /\ fj \in Nat /\ bk \in Nat /\ bj \in Nat
          /\ nk \in Nat /\ nj \in Nat
      BY <1>1, <2>2
    <2>8. ASSUME k \in j + 1 .. 16
          PROVE  /\ bk >= bj + nj
                 /\ bk = bj + nj => fk = P * (fj + nj)
      BY <2>2, <2>8, FirstCodesApart, ZenonT(30)
    <2>9. k = j => fk = fj /\ bk = bj
      OBVIOUS
    <2> HIDE DEF fk, fj, bk, bj, nk, nj
    <2>10a. q \in 0 .. 15 /\ q \in 0 .. 16
      BY <2>2
    <2>10b. ASSUME k # j PROVE k \in j + 1 .. 16
      BY <2>2, <2>10b
    <2>11. k = j => P = 1
      <3>1. k = j => q = 0
        BY <2>2
      <3>2. 2 ^ 0 = 1
        OBVIOUS
      <3> HIDE DEF q
      <3> QED
        BY <3>1, <3>2, Zenon
    <2>12. P \in Nat
      <3> HIDE DEF q
      <3> QED
        BY <2>10a, PowerIsPositive
    <2> HIDE DEF P, q
    <2> DEFINE d == c(p - 1)
               e == c(p)
    <2>13. d = fj + ((p - 1) - 1 - bj) /\ e = fk + (p - 1 - bk)
      BY <2>4, <2>5
    <2> HIDE DEF d, e
    <2>14. d \in Int /\ e \in Int
      BY <2>7, <2>13
    <2>15. e = (d + 1) * P
      <3>1. CASE k = j
        <4>1. e = d + 1
          BY <2>7, <2>9, <2>13, <3>1
        <4>2. P = 1
          BY <2>11, <3>1
        <4> QED
          BY <2>14, <4>1, <4>2
      <3>2. CASE k # j
        <4>1. /\ bk >= bj + nj
              /\ bk = bj + nj => fk = P * (fj + nj)
          <5>1. k \in j + 1 .. 16
            BY <2>10b, <3>2
          <5> QED
            BY <2>8, <5>1, Zenon
        <4> DEFINE X == fj + nj
                   Z == P * X
        <4>2. X \in Nat /\ X = fj + nj
          BY <2>7
        <4>3. bk = bj + nj => fk = Z
          BY <4>1
        <4> HIDE DEF X
        <4>4. Z \in Nat
          BY <2>12, <4>2, TwiceProduct
        <4> HIDE DEF Z
        <4>5. bk >= bj + nj
          BY <4>1
        <4>6. bk = p - 1 /\ bj + nj = p - 1
          BY <2>3, <2>7, <4>5
        <4>7. e = Z /\ d + 1 = X
          BY <2>7, <2>13, <4>2, <4>3, <4>4, <4>6
        <4>8. P * X = X * P
          BY <2>12, <4>2
        <4> QED
          BY <4>7, <4>8, Zenon DEF Z
      <3> QED
        BY <3>1, <3>2
    <2> QED
      BY <2>6, <2>15, Zenon DEF d, e
  <1> HIDE DEF c
  <1>6. g = Step(g)
    <2>1. ASSUME NEW p \in 1 .. n
          PROVE  g[p] = IF p = 1 THEN 0
                        ELSE (g[p - 1] + 1) * 2 ^ (l[p] - l[p - 1])
      <3>1. CASE p = 1
        BY <1>4, <3>1
      <3>2. CASE p # 1
        <4>1. p \in 2 .. n /\ p - 1 \in 1 .. n
          BY <3>2
        <4>2. g[p] = c(p) /\ g[p - 1] = c(p - 1)
          BY <4>1
        <4>3. c(p) = (c(p - 1) + 1) * 2 ^ (l[p] - l[p - 1])
          BY <1>5, <4>1
        <4> QED
          BY <3>2, <4>2, <4>3, Zenon
      <3> QED
        BY <3>1, <3>2
    <2>2. g = [p \in 1 .. n |-> g[p]]
      OBVIOUS
    <2> HIDE DEF g
    <2> QED
      BY <2>1, <2>2
  <1>7. code = Step(code)
    <2>1. code = CHOOSE d : d = Step(d)
      BY DEF CodeList
    <2> HIDE DEF Step
    <2> QED
      BY <1>6, <2>1
  <1> HIDE DEF code
  <1> DEFINE Good == {p \in 1 .. n : code[p] = c(p)}
  <1>8. 1 \in Good
    BY <1>4, <1>7
  <1>9. ASSUME NEW p \in 1 .. n - 1, p \in Good PROVE p + 1 \in Good
    <2> DEFINE m == p + 1
    <2>1. m \in 2 .. n /\ m \in 1 .. n /\ m # 1 /\ m - 1 = p
      OBVIOUS
    <2>2. code[m - 1] = c(m - 1)
      BY <1>9, <2>1
    <2> HIDE DEF m
    <2>3. code[m] = (code[m - 1] + 1) * 2 ^ (l[m] - l[m - 1])
      BY <1>7, <2>1
    <2>4. c(m) = (c(m - 1) + 1) * 2 ^ (l[m] - l[m - 1])
      BY <1>5, <2>1
    <2>5. code[m] = c(m)
      BY <2>2, <2>3, <2>4, Zenon
    <2>6. m \in Good
      BY <2>1, <2>5
    <2> QED
      BY <2>6 DEF m
  <1> HIDE DEF Good
  <1>10. \A p \in 1 .. n : p \in Good
    BY <1>8, <1>9, Induction
  <1>11. \A p \in 1 .. n : code[p] = c(p)
    BY <1>10 DEF Good
  <1> QED
    BY <1>11 DEF code, c

\* The counts and the values of a table.
HuffmanCode(nr, values) ==
    /\ nr \in [1 .. 16 -> Nat]
    /\ Len(values) \in Nat \ {0} /\ DOMAIN values = 1 .. Len(values)
    /\ Len(values) = CodesIn(nr)

\* Position p of the value table has the code f[k] + n of k bits.
CodeAt(nr, f, b, p, k, n) ==
    /\ k \in 1 .. 16 /\ n \in Nat /\ n < nr[k] /\ p = b[k] + n + 1

\* The bit string is the code of the symbol.
IsEntry(nr, values, f, b, bs, v) ==
    \E p \in 1 .. Len(values), k \in 1 .. 16, n \in Nat :
        /\ values[p] = v /\ CodeAt(nr, f, b, p, k, n)
        /\ bs = [length |-> k, value |-> f[k] + n]

\* What the encoder's table holds for a symbol.
LEMMA EntryIs ==
    ASSUME NEW nr, NEW values, HuffmanCode(nr, values),
           NEW f, NEW b, FirstCodes(nr, f, b),
           NEW size \in Nat, NEW v \in 0 .. size - 1,
           \E p \in DOMAIN values : values[p] = v
    PROVE  IsEntry(nr, values, f, b, ComputeHuffmanTable(nr, values, size)[v], v)
  <1> DEFINE l == CodeLengths(nr)
             N == Len(values)
             code == CodeList(l, N)
             pos(w) == CHOOSE p \in DOMAIN values : values[p] = w
             entry(w) == IF \E p \in DOMAIN values : values[p] = w
                         THEN [length |-> l[pos(w)], value |-> code[pos(w)]]
                         ELSE [length |-> 0, value |-> 0]
  <1>1. /\ nr \in [1 .. 16 -> Nat] /\ N \in Nat \ {0} /\ DOMAIN values = 1 .. N
        /\ N = CodesIn(nr)
    BY DEF HuffmanCode
  <1>2. ComputeHuffmanTable(nr, values, size)
          = [w \in 0 .. size - 1 |-> entry(w)]
    BY DEF ComputeHuffmanTable, CodeList
  <1>3. InOrder(l, N, nr, b)
    <2>1. Ascending(l, 16) /\ Len(l) = N
      BY <1>1, CodeLengthsAscend
    <2>2. Placed(l, 16, nr, b)
      BY <1>1, CodeLengthsPlaced
    <2> QED
      BY <2>1, <2>2 DEF InOrder
  <1> HIDE DEF l, N
  <1>4. \A p \in 1 .. N : code[p] = f[l[p]] + (p - 1 - b[l[p]])
    <2>1. nr \in [1 .. 16 -> Nat]
      BY <1>1
    <2>2. N \in Nat \ {0}
      BY <1>1
    <2> QED
      BY <1>3, <2>1, <2>2, CodesInOrder
  <1> HIDE DEF code
  <1> DEFINE p == pos(v)
             k == l[p]
             n == p - 1 - b[k]
  <1>5. p \in 1 .. N /\ values[p] = v
    BY <1>1
  <1>6. entry(v) = [length |-> k, value |-> code[p]]
    OBVIOUS
  <1> HIDE DEF p, pos
  <1>7. k \in 1 .. 16 /\ b[k] < p /\ p <= b[k] + nr[k]
    <2>1. l \in Seq(1 .. 16) /\ p \in 1 .. Len(l)
      BY <1>3, <1>5 DEF InOrder, Placed
    <2>2. l[p] \in 1 .. 16
      BY <2>1, ElementOfSeq
    <2> QED
      BY <1>3, <2>1, <2>2 DEF InOrder, Placed
  <1>8. code[p] = f[k] + n
    BY <1>4, <1>5
  <1> HIDE DEF k, entry
  <1>9. b[k] \in Nat /\ nr[k] \in Nat
    BY <1>1, <1>7, FirstCodesRules
  <1>10. n \in Nat /\ n < nr[k] /\ p = b[k] + n + 1
    <2> DEFINE bk == b[k]
               nk == nr[k]
    <2>1. bk \in Nat /\ nk \in Nat /\ p \in Nat /\ n = p - 1 - bk
      BY <1>1, <1>5, <1>9
    <2>2. bk < p /\ p <= bk + nk
      BY <1>7
    <2> HIDE DEF bk, nk, n
    <2>3. n \in Nat /\ n < nk /\ p = bk + n + 1
      BY <2>1, <2>2
    <2> QED
      BY <2>3 DEF bk, nk
  <1> HIDE DEF n
  <1>11. CodeAt(nr, f, b, p, k, n)
    BY <1>7, <1>10 DEF CodeAt
  <1>12. ComputeHuffmanTable(nr, values, size)[v] = [length |-> k, value |-> f[k] + n]
    BY <1>2, <1>6, <1>8
  <1>13. p \in 1 .. Len(values) /\ values[p] = v /\ k \in 1 .. 16 /\ n \in Nat
    BY <1>5, <1>7, <1>10 DEF N
  <1> QED
    BY <1>11, <1>12, <1>13 DEF IsEntry

\* The codes of a length fit into its bits.
CodesFit(nr, f) == \A k \in 1 .. 16 : f[k] + nr[k] <= 2 ^ k

\* A code is read as one, and none of its beginnings is.
LEMMA CodeRead ==
    ASSUME NEW nr \in [1 .. 16 -> Nat], NEW t, t.count = nr,
           FirstCodes(nr, t.first, t.before), CodesFit(nr, t.first),
           NEW p, NEW k \in 1 .. 16, NEW n \in Nat,
           CodeAt(nr, t.first, t.before, p, k, n),
           NEW bits \in Bits, NEW at \in Nat \ {0},
           Stands(bits, at, BitsOf([length |-> k, value |-> t.first[k] + n]))
    PROVE  /\ Number(bits, at, k) = t.first[k] + n
           /\ IsCode(bits, at, k, t)
           /\ \A j \in 1 .. k - 1 : ~IsCode(bits, at, j, t)
  <1> DEFINE f == t.first
             v == f[k] + n
             bs == [length |-> k, value |-> v]
             fk == f[k]
             nk == nr[k]
  <1>1. \A j \in 1 .. 16 : f[j] \in Nat /\ nr[j] \in Nat
    BY FirstCodesRules
  <1>2. fk \in Nat /\ nk \in Nat /\ n < nk
    BY <1>1 DEF CodeAt
  <1>3. fk + nk <= 2 ^ k
    BY DEF CodesFit
  <1>4. v = fk + n
    OBVIOUS
  <1>4a. bs.length = k /\ bs.value = v
    OBVIOUS
  <1>4b. Stands(bits, at, BitsOf(bs))
    OBVIOUS
  <1> HIDE DEF v, fk, nk
  <1>5. v \in Nat /\ v < 2 ^ k
    <2> DEFINE d == 2 ^ k
    <2>1. d \in Nat
      <3>1. k \in 0 .. 16
        OBVIOUS
      <3> QED
        BY <3>1, PowerIsPositive
    <2>2. fk + nk <= d
      BY <1>3
    <2> HIDE DEF d
    <2>3. v \in Nat /\ v < d
      BY <1>2, <1>4, <2>1, <2>2
    <2> QED
      BY <2>3 DEF d
  <1>6. Numeral(bs)
    <2>1. k \in 0 .. 16 /\ v \in Int /\ v >= 0
      BY <1>5
    <2>2. bs \in BitStrings
      BY <2>1 DEF BitStrings
    <2> HIDE DEF bs
    <2> QED
      BY <1>4a, <1>5, <2>1, <2>2 DEF Numeral
  <1> HIDE DEF bs
  <1>7. Number(bits, at, k) = v
    BY <1>4a, <1>4b, <1>6, NumeralRead
  <1>8. IsCode(bits, at, k, t)
    <2>1. v - fk \in 0 .. nk - 1
      BY <1>2, <1>4
    <2>2. fk = t.first[k] /\ nk = t.count[k]
      BY DEF fk, nk
    <2> QED
      BY <1>7, <2>1, <2>2 DEF IsCode
  <1>9. ASSUME NEW j \in 1 .. k - 1 PROVE ~ IsCode(bits, at, j, t)
    <2> DEFINE q == k - j
               X == f[j] + nr[j]
               w == Number(bits, at, j)
               fj == f[j]
               nj == nr[j]
    <2>1. j \in 1 .. 16 /\ k \in j + 1 .. 16 /\ j \in 0 .. k /\ q \in 0 .. 15
      OBVIOUS
    <2>2. w = v \div 2 ^ q
      <3>1. j \in 0 .. bs.length
        BY <1>4a, <2>1
      <3>2. w = bs.value \div 2 ^ (bs.length - j)
        BY <1>4b, <1>6, <3>1, NumberRead
      <3> QED
        BY <1>4a, <3>2
    <2>3. fk >= 2 ^ q * X
      <3> HIDE DEF f
      <3>1. FirstCodes(nr, f, t.before)
        BY DEF f
      <3>2. f[k] >= 2 ^ (k - j) * (f[j] + nr[j])
        BY <2>1, <3>1, FirstCodesApart
      <3> QED
        BY <3>2 DEF fk
    <2>4. fj \in Nat /\ nj \in Nat
      BY <1>1, <2>1
    <2>4a. X = fj + nj
      OBVIOUS
    <2> HIDE DEF q, X, w, fj, nj
    <2>5. X \in Nat
      BY <2>4, <2>4a
    <2>6. v >= 2 ^ q * X
      <3> DEFINE Z == 2 ^ q * X
      <3>1. 2 ^ q \in Nat
        <4>1. q \in 0 .. 16
          BY <2>1
        <4> QED
          BY <4>1, PowerIsPositive
      <3>2. Z \in Nat
        BY <2>5, <3>1, TwiceProduct
      <3>3. fk >= Z
        BY <2>3
      <3> HIDE DEF Z
      <3>4. v >= Z
        BY <1>2, <1>4, <3>2, <3>3
      <3> QED
        BY <3>4 DEF Z
    <2>7. w >= X
      BY <1>5, <2>1, <2>2, <2>5, <2>6, DivAtLeast
    <2>8. w \in Int
      <3> DEFINE d == 2 ^ q
      <3>0. q \in 0 .. 16
        BY <2>1
      <3>1. d \in Nat /\ d > 0
        BY <3>0, PowerIsPositive
      <3>2. w = v \div d
        BY <2>2
      <3> HIDE DEF d
      <3> QED
        BY <1>5, <3>1, <3>2
    <2>9. ~ (w - fj \in 0 .. nj - 1)
      BY <2>4, <2>4a, <2>7, <2>8
    <2> QED
      BY <2>9 DEF IsCode, w, fj, nj, f
  <1> QED
    BY <1>7, <1>8, <1>9 DEF v, f

\* The values of a table, perhaps with others behind them.
Continues(tv, values) ==
    \A i \in DOMAIN values : i \in DOMAIN tv /\ tv[i] = values[i]

\* Symbols V of an encoder's table are read back with a decoder's table.
Decodes(code, t, V) ==
    \A v \in V :
        /\ code[v] \in BitStrings
        /\ \A bits \in Bits, at \in Nat \ {0} :
             Stands(bits, at, BitsOf(code[v]))
               => Symbol(bits, at, t) = [value |-> v, next |-> at + code[v].length]

\* A table that the decoder makes from the counts and the values reads every
\* symbol that the encoder's has.
LEMMA TableDecodes ==
    ASSUME NEW nr, NEW values, HuffmanCode(nr, values),
           NEW tv, Continues(tv, values), CodesFit(nr, Table(nr, tv).first),
           NEW size \in Nat, NEW V \in SUBSET (0 .. size - 1),
           \A v \in V : \E p \in DOMAIN values : values[p] = v
    PROVE  Decodes(ComputeHuffmanTable(nr, values, size), Table(nr, tv), V)
  <1> DEFINE t == Table(nr, tv)
             f == t.first
             b == t.before
             code == ComputeHuffmanTable(nr, values, size)
             N == Len(values)
  <1>1. nr \in [1 .. 16 -> Nat]
    BY DEF HuffmanCode
  <1>1a. N \in Nat /\ DOMAIN values = 1 .. N
    BY DEF HuffmanCode
  <1>2. t.count = nr /\ t.values = tv /\ FirstCodes(nr, f, b)
    BY <1>1, TableIs
  <1>3. CodesFit(nr, f)
    OBVIOUS
  <1> HIDE DEF t, code, N
  <1>4. ASSUME NEW v \in V
        PROVE  /\ code[v] \in BitStrings
               /\ \A bits \in Bits, at \in Nat \ {0} :
                    Stands(bits, at, BitsOf(code[v]))
                      => Symbol(bits, at, t)
                           = [value |-> v, next |-> at + code[v].length]
    <2> HIDE DEF f, b
    <2>1. v \in 0 .. size - 1
      OBVIOUS
    <2>2. \E p \in DOMAIN values : values[p] = v
      OBVIOUS
    <2>2a. IsEntry(nr, values, f, b, code[v], v)
      <3>1. FirstCodes(nr, f, b)
        BY <1>2
      <3>2. IsEntry(nr, values, f, b, ComputeHuffmanTable(nr, values, size)[v], v)
        BY <2>1, <2>2, <3>1, EntryIs
      <3> QED
        BY <3>2 DEF code
    <2>3. PICK p \in 1 .. Len(values), k \in 1 .. 16, n \in Nat :
              /\ values[p] = v /\ CodeAt(nr, f, b, p, k, n)
              /\ code[v] = [length |-> k, value |-> f[k] + n]
      BY <2>2a DEF IsEntry
    <2>4. code[v] = [length |-> k, value |-> f[k] + n]
      BY <2>3
    <2>5. p \in 1 .. N /\ values[p] = v
      BY <2>3 DEF N
    <2>6. code[v] \in BitStrings /\ code[v].length = k
      <3> DEFINE fk == f[k]
      <3>1. fk \in Nat
        BY <1>1, <1>2, FirstCodesRules
      <3>2. code[v] = [length |-> k, value |-> fk + n]
        BY <2>4
      <3> HIDE DEF fk
      <3>3. k \in 0 .. 16 /\ fk + n \in Int
        BY <3>1
      <3> QED
        BY <3>2, <3>3 DEF BitStrings
    <2>7. ASSUME NEW bits \in Bits, NEW at \in Nat \ {0},
                 Stands(bits, at, BitsOf(code[v]))
          PROVE  Symbol(bits, at, t) = [value |-> v, next |-> at + k]
      <3>1. /\ Number(bits, at, k) = f[k] + n
            /\ IsCode(bits, at, k, t)
            /\ \A j \in 1 .. k - 1 : ~IsCode(bits, at, j, t)
        <4>1. Stands(bits, at, BitsOf([length |-> k, value |-> t.first[k] + n]))
          BY <2>4, <2>7 DEF f
        <4>2. /\ FirstCodes(nr, t.first, t.before) /\ CodesFit(nr, t.first)
              /\ CodeAt(nr, t.first, t.before, p, k, n)
          BY <1>2, <1>3, <2>3 DEF f, b
        <4>3. /\ Number(bits, at, k) = t.first[k] + n
              /\ IsCode(bits, at, k, t)
              /\ \A j \in 1 .. k - 1 : ~IsCode(bits, at, j, t)
          BY <1>1, <1>2, <4>1, <4>2, CodeRead
        <4> QED
          BY <4>3 DEF f
      <3> DEFINE First(m) == /\ IsCode(bits, at, m, t)
                             /\ \A j \in 1 .. m - 1 : ~IsCode(bits, at, j, t)
                 c == CHOOSE m \in 1 .. 16 : First(m)
                 i == t.before[c] + Number(bits, at, c) - t.first[c] + 1
      <3>2. c = k
        <4>1. First(k)
          BY <3>1
        <4>2. ASSUME NEW m \in 1 .. 16, First(m) PROVE m = k
          <5>1. ~ (m < k)
            <6>1. m < k => m \in 1 .. k - 1
              OBVIOUS
            <6> QED
              BY <3>1, <4>2, <6>1
          <5>2. ~ (k < m)
            <6>1. k < m => k \in 1 .. m - 1
              OBVIOUS
            <6> QED
              BY <3>1, <4>2, <6>1
          <5> QED
            BY <5>1, <5>2
        <4> HIDE DEF First
        <4> QED
          BY <4>1, <4>2
      <3>3. i = p
        <4> DEFINE fk == f[k]
                   bk == b[k]
        <4>1. fk \in Nat /\ bk \in Nat
          BY <1>1, <1>2, FirstCodesRules
        <4>2. i = bk + (fk + n) - fk + 1
          BY <3>1, <3>2 DEF f, b
        <4>3. p = bk + n + 1
          BY <2>3 DEF CodeAt
        <4> HIDE DEF fk, bk, i
        <4>4. bk + (fk + n) - fk + 1 = bk + n + 1
          BY <4>1
        <4> QED
          BY <4>2, <4>3, <4>4
      <3>4. i \in DOMAIN t.values /\ t.values[i] = v
        <4>1. p \in DOMAIN values
          BY <1>1a, <2>5
        <4> HIDE DEF i
        <4> QED
          BY <1>2, <2>5, <3>3, <4>1 DEF Continues
      <3>5. \E j \in 1 .. 16 : IsCode(bits, at, j, t)
        BY <3>1
      <3>6. Symbol(bits, at, t)
              = IF (\E j \in 1 .. 16 : IsCode(bits, at, j, t)) /\ i \in DOMAIN t.values
                  THEN [value |-> t.values[i], next |-> at + c]
                  ELSE [value |-> -1, next |-> 0]
        BY DEF Symbol
      <3> HIDE DEF c, i
      <3> QED
        BY <3>2, <3>4, <3>5, <3>6
    <2> QED
      BY <2>6, <2>7
  <1>5. Decodes(code, t, V)
    BY <1>4 DEF Decodes
  <1> QED
    BY <1>5 DEF code, t

-----------------------------------------------------------------------------
(* The four tables of the code *)

\* The symbols of AC coefficients: the end of a block, sixteen zeros, and up to
\* fifteen zeros with a coefficient of up to ten bits.
ACSymbols == {0, 240} \cup {16 * r + n : r \in 0 .. 15, n \in 1 .. 10}

\* The codes for differences of luminance fit.
LEMMA DCLumFits ==
    ASSUME NEW f, NEW b, FirstCodes(Standard_DC_Lum_NRCodes, f, b)
    PROVE  CodesFit(Standard_DC_Lum_NRCodes, f)
  <1> DEFINE nr == Standard_DC_Lum_NRCodes
  <1>1. f[1] = 0 /\ \A k \in 2 .. 16 : f[k] = 2 * (f[k - 1] + nr[k - 1])
    BY DEF FirstCodes, Sums
  <1>2. nr = <<0, 0, 7, 1, 1, 1, 1, 1, 0, 0, 0, 0, 0, 0, 0, 0>>
    BY DEF Standard_DC_Lum_NRCodes
  <1> HIDE DEF nr
  <1>3. /\ f[2] = 2 * (f[1] + nr[1]) /\ f[3] = 2 * (f[2] + nr[2])
        /\ f[4] = 2 * (f[3] + nr[3]) /\ f[5] = 2 * (f[4] + nr[4])
        /\ f[6] = 2 * (f[5] + nr[5]) /\ f[7] = 2 * (f[6] + nr[6])
        /\ f[8] = 2 * (f[7] + nr[7]) /\ f[9] = 2 * (f[8] + nr[8])
    BY <1>1
  <1>4. /\ f[10] = 2 * (f[9] + nr[9]) /\ f[11] = 2 * (f[10] + nr[10])
        /\ f[12] = 2 * (f[11] + nr[11]) /\ f[13] = 2 * (f[12] + nr[12])
        /\ f[14] = 2 * (f[13] + nr[13]) /\ f[15] = 2 * (f[14] + nr[14])
        /\ f[16] = 2 * (f[15] + nr[15])
    BY <1>1
  <1>5. /\ f[1] = 0 /\ f[2] = 0 /\ f[3] = 0 /\ f[4] = 14
        /\ f[5] = 30 /\ f[6] = 62 /\ f[7] = 126 /\ f[8] = 254
        /\ f[9] = 510
    BY <1>1, <1>2, <1>3
  <1>6. /\ f[10] = 1020 /\ f[11] = 2040 /\ f[12] = 4080 /\ f[13] = 8160
        /\ f[14] = 16320 /\ f[15] = 32640 /\ f[16] = 65280
    BY <1>2, <1>4, <1>5
  <1>7. /\ f[1] + nr[1] <= 2 ^ 1 /\ f[2] + nr[2] <= 2 ^ 2
        /\ f[3] + nr[3] <= 2 ^ 3 /\ f[4] + nr[4] <= 2 ^ 4
        /\ f[5] + nr[5] <= 2 ^ 5 /\ f[6] + nr[6] <= 2 ^ 6
        /\ f[7] + nr[7] <= 2 ^ 7 /\ f[8] + nr[8] <= 2 ^ 8
    BY <1>2, <1>5
  <1>8. /\ f[9] + nr[9] <= 2 ^ 9 /\ f[10] + nr[10] <= 2 ^ 10
        /\ f[11] + nr[11] <= 2 ^ 11 /\ f[12] + nr[12] <= 2 ^ 12
        /\ f[13] + nr[13] <= 2 ^ 13 /\ f[14] + nr[14] <= 2 ^ 14
        /\ f[15] + nr[15] <= 2 ^ 15 /\ f[16] + nr[16] <= 2 ^ 16
    BY <1>2, <1>5, <1>6
  <1>9. ASSUME NEW k \in 1 .. 16 PROVE f[k] + nr[k] <= 2 ^ k
    <2>1. k \in 1 .. 8 \/ k \in 9 .. 16
      OBVIOUS
    <2>2. CASE k \in 1 .. 8
      <3>1. k = 1 \/ k = 2 \/ k = 3 \/ k = 4 \/ k = 5 \/ k = 6 \/ k = 7 \/ k = 8
        BY <2>2
      <3> QED
        BY <1>7, <3>1, Zenon
    <2>3. CASE k \in 9 .. 16
      <3>1. k = 9 \/ k = 10 \/ k = 11 \/ k = 12 \/ k = 13 \/ k = 14 \/ k = 15 \/ k = 16
        BY <2>3
      <3> QED
        BY <1>8, <3>1, Zenon
    <2> QED
      BY <2>1, <2>2, <2>3
  <1> QED
    BY <1>9 DEF CodesFit, nr

\* The codes for luminance fit.
LEMMA ACLumFits ==
    ASSUME NEW f, NEW b, FirstCodes(Standard_AC_Lum_NRCodes, f, b)
    PROVE  CodesFit(Standard_AC_Lum_NRCodes, f)
  <1> DEFINE nr == Standard_AC_Lum_NRCodes
  <1>1. f[1] = 0 /\ \A k \in 2 .. 16 : f[k] = 2 * (f[k - 1] + nr[k - 1])
    BY DEF FirstCodes, Sums
  <1>2. nr = <<0, 2, 1, 3, 3, 2, 4, 3, 5, 5, 4, 4, 0, 0, 1, 125>>
    BY DEF Standard_AC_Lum_NRCodes
  <1> HIDE DEF nr
  <1>3. /\ f[2] = 2 * (f[1] + nr[1]) /\ f[3] = 2 * (f[2] + nr[2])
        /\ f[4] = 2 * (f[3] + nr[3]) /\ f[5] = 2 * (f[4] + nr[4])
        /\ f[6] = 2 * (f[5] + nr[5]) /\ f[7] = 2 * (f[6] + nr[6])
        /\ f[8] = 2 * (f[7] + nr[7]) /\ f[9] = 2 * (f[8] + nr[8])
    BY <1>1
  <1>4. /\ f[10] = 2 * (f[9] + nr[9]) /\ f[11] = 2 * (f[10] + nr[10])
        /\ f[12] = 2 * (f[11] + nr[11]) /\ f[13] = 2 * (f[12] + nr[12])
        /\ f[14] = 2 * (f[13] + nr[13]) /\ f[15] = 2 * (f[14] + nr[14])
        /\ f[16] = 2 * (f[15] + nr[15])
    BY <1>1
  <1>5. /\ f[1] = 0 /\ f[2] = 0 /\ f[3] = 4 /\ f[4] = 10
        /\ f[5] = 26 /\ f[6] = 58 /\ f[7] = 120 /\ f[8] = 248
        /\ f[9] = 502
    BY <1>1, <1>2, <1>3
  <1>6. /\ f[10] = 1014 /\ f[11] = 2038 /\ f[12] = 4084 /\ f[13] = 8176
        /\ f[14] = 16352 /\ f[15] = 32704 /\ f[16] = 65410
    BY <1>2, <1>4, <1>5
  <1>7. /\ f[1] + nr[1] <= 2 ^ 1 /\ f[2] + nr[2] <= 2 ^ 2
        /\ f[3] + nr[3] <= 2 ^ 3 /\ f[4] + nr[4] <= 2 ^ 4
        /\ f[5] + nr[5] <= 2 ^ 5 /\ f[6] + nr[6] <= 2 ^ 6
        /\ f[7] + nr[7] <= 2 ^ 7 /\ f[8] + nr[8] <= 2 ^ 8
    BY <1>2, <1>5
  <1>8. /\ f[9] + nr[9] <= 2 ^ 9 /\ f[10] + nr[10] <= 2 ^ 10
        /\ f[11] + nr[11] <= 2 ^ 11 /\ f[12] + nr[12] <= 2 ^ 12
        /\ f[13] + nr[13] <= 2 ^ 13 /\ f[14] + nr[14] <= 2 ^ 14
        /\ f[15] + nr[15] <= 2 ^ 15 /\ f[16] + nr[16] <= 2 ^ 16
    BY <1>2, <1>5, <1>6
  <1>9. ASSUME NEW k \in 1 .. 16 PROVE f[k] + nr[k] <= 2 ^ k
    <2>1. k \in 1 .. 8 \/ k \in 9 .. 16
      OBVIOUS
    <2>2. CASE k \in 1 .. 8
      <3>1. k = 1 \/ k = 2 \/ k = 3 \/ k = 4 \/ k = 5 \/ k = 6 \/ k = 7 \/ k = 8
        BY <2>2
      <3> QED
        BY <1>7, <3>1, Zenon
    <2>3. CASE k \in 9 .. 16
      <3>1. k = 9 \/ k = 10 \/ k = 11 \/ k = 12 \/ k = 13 \/ k = 14 \/ k = 15 \/ k = 16
        BY <2>3
      <3> QED
        BY <1>8, <3>1, Zenon
    <2> QED
      BY <2>1, <2>2, <2>3
  <1> QED
    BY <1>9 DEF CodesFit, nr

\* The codes for differences of chrominance fit.
LEMMA DCChromaFits ==
    ASSUME NEW f, NEW b, FirstCodes(Standard_DC_Chroma_NRCodes, f, b)
    PROVE  CodesFit(Standard_DC_Chroma_NRCodes, f)
  <1> DEFINE nr == Standard_DC_Chroma_NRCodes
  <1>1. f[1] = 0 /\ \A k \in 2 .. 16 : f[k] = 2 * (f[k - 1] + nr[k - 1])
    BY DEF FirstCodes, Sums
  <1>2. nr = <<0, 3, 1, 1, 1, 1, 1, 1, 1, 1, 1, 0, 0, 0, 0, 0>>
    BY DEF Standard_DC_Chroma_NRCodes
  <1> HIDE DEF nr
  <1>3. /\ f[2] = 2 * (f[1] + nr[1]) /\ f[3] = 2 * (f[2] + nr[2])
        /\ f[4] = 2 * (f[3] + nr[3]) /\ f[5] = 2 * (f[4] + nr[4])
        /\ f[6] = 2 * (f[5] + nr[5]) /\ f[7] = 2 * (f[6] + nr[6])
        /\ f[8] = 2 * (f[7] + nr[7]) /\ f[9] = 2 * (f[8] + nr[8])
    BY <1>1
  <1>4. /\ f[10] = 2 * (f[9] + nr[9]) /\ f[11] = 2 * (f[10] + nr[10])
        /\ f[12] = 2 * (f[11] + nr[11]) /\ f[13] = 2 * (f[12] + nr[12])
        /\ f[14] = 2 * (f[13] + nr[13]) /\ f[15] = 2 * (f[14] + nr[14])
        /\ f[16] = 2 * (f[15] + nr[15])
    BY <1>1
  <1>5. /\ f[1] = 0 /\ f[2] = 0 /\ f[3] = 6 /\ f[4] = 14
        /\ f[5] = 30 /\ f[6] = 62 /\ f[7] = 126 /\ f[8] = 254
        /\ f[9] = 510
    BY <1>1, <1>2, <1>3
  <1>6. /\ f[10] = 1022 /\ f[11] = 2046 /\ f[12] = 4094 /\ f[13] = 8188
        /\ f[14] = 16376 /\ f[15] = 32752 /\ f[16] = 65504
    BY <1>2, <1>4, <1>5
  <1>7. /\ f[1] + nr[1] <= 2 ^ 1 /\ f[2] + nr[2] <= 2 ^ 2
        /\ f[3] + nr[3] <= 2 ^ 3 /\ f[4] + nr[4] <= 2 ^ 4
        /\ f[5] + nr[5] <= 2 ^ 5 /\ f[6] + nr[6] <= 2 ^ 6
        /\ f[7] + nr[7] <= 2 ^ 7 /\ f[8] + nr[8] <= 2 ^ 8
    BY <1>2, <1>5
  <1>8. /\ f[9] + nr[9] <= 2 ^ 9 /\ f[10] + nr[10] <= 2 ^ 10
        /\ f[11] + nr[11] <= 2 ^ 11 /\ f[12] + nr[12] <= 2 ^ 12
        /\ f[13] + nr[13] <= 2 ^ 13 /\ f[14] + nr[14] <= 2 ^ 14
        /\ f[15] + nr[15] <= 2 ^ 15 /\ f[16] + nr[16] <= 2 ^ 16
    BY <1>2, <1>5, <1>6
  <1>9. ASSUME NEW k \in 1 .. 16 PROVE f[k] + nr[k] <= 2 ^ k
    <2>1. k \in 1 .. 8 \/ k \in 9 .. 16
      OBVIOUS
    <2>2. CASE k \in 1 .. 8
      <3>1. k = 1 \/ k = 2 \/ k = 3 \/ k = 4 \/ k = 5 \/ k = 6 \/ k = 7 \/ k = 8
        BY <2>2
      <3> QED
        BY <1>7, <3>1, Zenon
    <2>3. CASE k \in 9 .. 16
      <3>1. k = 9 \/ k = 10 \/ k = 11 \/ k = 12 \/ k = 13 \/ k = 14 \/ k = 15 \/ k = 16
        BY <2>3
      <3> QED
        BY <1>8, <3>1, Zenon
    <2> QED
      BY <2>1, <2>2, <2>3
  <1> QED
    BY <1>9 DEF CodesFit, nr

\* The codes for chrominance fit.
LEMMA ACChromaFits ==
    ASSUME NEW f, NEW b, FirstCodes(Standard_AC_Chroma_NRCodes, f, b)
    PROVE  CodesFit(Standard_AC_Chroma_NRCodes, f)
  <1> DEFINE nr == Standard_AC_Chroma_NRCodes
  <1>1. f[1] = 0 /\ \A k \in 2 .. 16 : f[k] = 2 * (f[k - 1] + nr[k - 1])
    BY DEF FirstCodes, Sums
  <1>2. nr = <<0, 2, 1, 2, 4, 4, 3, 4, 7, 5, 4, 4, 0, 1, 2, 119>>
    BY DEF Standard_AC_Chroma_NRCodes
  <1> HIDE DEF nr
  <1>3. /\ f[2] = 2 * (f[1] + nr[1]) /\ f[3] = 2 * (f[2] + nr[2])
        /\ f[4] = 2 * (f[3] + nr[3]) /\ f[5] = 2 * (f[4] + nr[4])
        /\ f[6] = 2 * (f[5] + nr[5]) /\ f[7] = 2 * (f[6] + nr[6])
        /\ f[8] = 2 * (f[7] + nr[7]) /\ f[9] = 2 * (f[8] + nr[8])
    BY <1>1
  <1>4. /\ f[10] = 2 * (f[9] + nr[9]) /\ f[11] = 2 * (f[10] + nr[10])
        /\ f[12] = 2 * (f[11] + nr[11]) /\ f[13] = 2 * (f[12] + nr[12])
        /\ f[14] = 2 * (f[13] + nr[13]) /\ f[15] = 2 * (f[14] + nr[14])
        /\ f[16] = 2 * (f[15] + nr[15])
    BY <1>1
  <1>5. /\ f[1] = 0 /\ f[2] = 0 /\ f[3] = 4 /\ f[4] = 10
        /\ f[5] = 24 /\ f[6] = 56 /\ f[7] = 120 /\ f[8] = 246
        /\ f[9] = 500
    BY <1>1, <1>2, <1>3
  <1>6. /\ f[10] = 1014 /\ f[11] = 2038 /\ f[12] = 4084 /\ f[13] = 8176
        /\ f[14] = 16352 /\ f[15] = 32706 /\ f[16] = 65416
    BY <1>2, <1>4, <1>5
  <1>7. /\ f[1] + nr[1] <= 2 ^ 1 /\ f[2] + nr[2] <= 2 ^ 2
        /\ f[3] + nr[3] <= 2 ^ 3 /\ f[4] + nr[4] <= 2 ^ 4
        /\ f[5] + nr[5] <= 2 ^ 5 /\ f[6] + nr[6] <= 2 ^ 6
        /\ f[7] + nr[7] <= 2 ^ 7 /\ f[8] + nr[8] <= 2 ^ 8
    BY <1>2, <1>5
  <1>8. /\ f[9] + nr[9] <= 2 ^ 9 /\ f[10] + nr[10] <= 2 ^ 10
        /\ f[11] + nr[11] <= 2 ^ 11 /\ f[12] + nr[12] <= 2 ^ 12
        /\ f[13] + nr[13] <= 2 ^ 13 /\ f[14] + nr[14] <= 2 ^ 14
        /\ f[15] + nr[15] <= 2 ^ 15 /\ f[16] + nr[16] <= 2 ^ 16
    BY <1>2, <1>5, <1>6
  <1>9. ASSUME NEW k \in 1 .. 16 PROVE f[k] + nr[k] <= 2 ^ k
    <2>1. k \in 1 .. 8 \/ k \in 9 .. 16
      OBVIOUS
    <2>2. CASE k \in 1 .. 8
      <3>1. k = 1 \/ k = 2 \/ k = 3 \/ k = 4 \/ k = 5 \/ k = 6 \/ k = 7 \/ k = 8
        BY <2>2
      <3> QED
        BY <1>7, <3>1, Zenon
    <2>3. CASE k \in 9 .. 16
      <3>1. k = 9 \/ k = 10 \/ k = 11 \/ k = 12 \/ k = 13 \/ k = 14 \/ k = 15 \/ k = 16
        BY <2>3
      <3> QED
        BY <1>8, <3>1, Zenon
    <2> QED
      BY <2>1, <2>2, <2>3
  <1> QED
    BY <1>9 DEF CodesFit, nr

\* Every length of a difference has its code, which the decoder reads.
LEMMA DCLumDecodes ==
    ASSUME NEW tv, Continues(tv, Standard_DC_Lum_Values)
    PROVE  Decodes(Y_DC_Huffman_Tab, Table(Standard_DC_Lum_NRCodes, tv), 0 .. 11)
  <1> DEFINE nr == Standard_DC_Lum_NRCodes
             values == Standard_DC_Lum_Values
             V == 0 .. 11
             size == 12
  <1>1. \A v \in V : \E p \in DOMAIN values : values[p] = v
    BY DEF Standard_DC_Lum_Values
  <1>2. HuffmanCode(nr, values) /\ nr \in [1 .. 16 -> Nat]
    BY DCLumTable DEF HuffmanCode
  <1>3. size \in Nat /\ V \in SUBSET (0 .. size - 1)
    OBVIOUS
  <1>4. Continues(tv, values) /\ Y_DC_Huffman_Tab = ComputeHuffmanTable(nr, values, size)
    BY DEF Y_DC_Huffman_Tab
  <1>5. CodesFit(nr, Table(nr, tv).first)
    <2>1. FirstCodes(nr, Table(nr, tv).first, Table(nr, tv).before)
      BY <1>2, TableIs
    <2> QED
      BY <2>1, DCLumFits
  <1> HIDE DEF nr, values, V, size
  <1>6. Decodes(ComputeHuffmanTable(nr, values, size), Table(nr, tv), V)
    BY <1>1, <1>2, <1>3, <1>4, <1>5, TableDecodes
  <1>7. Decodes(Y_DC_Huffman_Tab, Table(nr, tv), V)
    BY <1>4, <1>6
  <1> QED
    BY <1>7 DEF nr, V

\* Every length of a difference has its code, which the decoder reads.
LEMMA DCChromaDecodes ==
    ASSUME NEW tv, Continues(tv, Standard_DC_Chroma_Values)
    PROVE  Decodes(CbCr_DC_Huffman_Tab, Table(Standard_DC_Chroma_NRCodes, tv), 0 .. 11)
  <1> DEFINE nr == Standard_DC_Chroma_NRCodes
             values == Standard_DC_Chroma_Values
             V == 0 .. 11
             size == 12
  <1>1. \A v \in V : \E p \in DOMAIN values : values[p] = v
    BY DEF Standard_DC_Chroma_Values
  <1>2. HuffmanCode(nr, values) /\ nr \in [1 .. 16 -> Nat]
    BY DCChromaTable DEF HuffmanCode
  <1>3. size \in Nat /\ V \in SUBSET (0 .. size - 1)
    OBVIOUS
  <1>4. Continues(tv, values) /\ CbCr_DC_Huffman_Tab = ComputeHuffmanTable(nr, values, size)
    BY DEF CbCr_DC_Huffman_Tab
  <1>5. CodesFit(nr, Table(nr, tv).first)
    <2>1. FirstCodes(nr, Table(nr, tv).first, Table(nr, tv).before)
      BY <1>2, TableIs
    <2> QED
      BY <2>1, DCChromaFits
  <1> HIDE DEF nr, values, V, size
  <1>6. Decodes(ComputeHuffmanTable(nr, values, size), Table(nr, tv), V)
    BY <1>1, <1>2, <1>3, <1>4, <1>5, TableDecodes
  <1>7. Decodes(CbCr_DC_Huffman_Tab, Table(nr, tv), V)
    BY <1>4, <1>6
  <1> QED
    BY <1>7 DEF nr, V

\* Every symbol has its code, which the decoder reads.
LEMMA ACLumDecodes ==
    ASSUME NEW tv, Continues(tv, Standard_AC_Lum_Values)
    PROVE  Decodes(Y_AC_Huffman_Tab, Table(Standard_AC_Lum_NRCodes, tv), ACSymbols)
  <1> DEFINE nr == Standard_AC_Lum_NRCodes
             values == Standard_AC_Lum_Values
             V == ACSymbols
             size == 256
  <1>1. ASSUME NEW v \in V PROVE \E p \in DOMAIN values : values[p] = v
    <2>1. DOMAIN values = 1 .. 162
      <3>1. \A S, s : s \in Seq(S) => DOMAIN s = 1 .. Len(s)
        OBVIOUS
      <3> QED
        BY <3>1, ACLumTable
    <2>2. ASSUME NEW r \in 0 .. 15, NEW n \in 1 .. 10
          PROVE  \E p \in 1 .. 162 : values[p] = 16 * r + n
      BY DEF Standard_AC_Lum_Values
    <2>3. /\ \E p \in 1 .. 162 : values[p] = 0
          /\ \E p \in 1 .. 162 : values[p] = 240
      BY DEF Standard_AC_Lum_Values
    <2>4. v \in {0, 240} \/ \E r \in 0 .. 15, n \in 1 .. 10 : v = 16 * r + n
      BY DEF ACSymbols
    <2> HIDE DEF values
    <2>5. CASE v \in {0, 240}
      BY <2>1, <2>3, <2>5
    <2>6. CASE \E r \in 0 .. 15, n \in 1 .. 10 : v = 16 * r + n
      <3>1. PICK r \in 0 .. 15, n \in 1 .. 10 : v = 16 * r + n
        BY <2>6
      <3>2. \E p \in 1 .. 162 : values[p] = 16 * r + n
        BY <2>2
      <3> QED
        BY <2>1, <3>1, <3>2, Zenon
    <2> QED
      BY <2>4, <2>5, <2>6
  <1>2. HuffmanCode(nr, values) /\ nr \in [1 .. 16 -> Nat]
    <2>1. \A S, s : s \in Seq(S) => DOMAIN s = 1 .. Len(s)
      OBVIOUS
    <2> QED
      BY <2>1, ACLumTable DEF HuffmanCode
  <1>3. size \in Nat /\ V \in SUBSET (0 .. size - 1)
    BY DEF ACSymbols
  <1>4. Continues(tv, values) /\ Y_AC_Huffman_Tab = ComputeHuffmanTable(nr, values, size)
    BY DEF Y_AC_Huffman_Tab
  <1>5. CodesFit(nr, Table(nr, tv).first)
    <2>1. FirstCodes(nr, Table(nr, tv).first, Table(nr, tv).before)
      BY <1>2, TableIs
    <2> QED
      BY <2>1, ACLumFits
  <1> HIDE DEF nr, values, V, size
  <1>6. Decodes(ComputeHuffmanTable(nr, values, size), Table(nr, tv), V)
    BY <1>1, <1>2, <1>3, <1>4, <1>5, TableDecodes
  <1>7. Decodes(Y_AC_Huffman_Tab, Table(nr, tv), V)
    BY <1>4, <1>6
  <1> QED
    BY <1>7 DEF nr, V

\* Every symbol has its code, which the decoder reads.
LEMMA ACChromaDecodes ==
    ASSUME NEW tv, Continues(tv, Standard_AC_Chroma_Values)
    PROVE  Decodes(CbCr_AC_Huffman_Tab, Table(Standard_AC_Chroma_NRCodes, tv), ACSymbols)
  <1> DEFINE nr == Standard_AC_Chroma_NRCodes
             values == Standard_AC_Chroma_Values
             V == ACSymbols
             size == 256
  <1>1. ASSUME NEW v \in V PROVE \E p \in DOMAIN values : values[p] = v
    <2>1. DOMAIN values = 1 .. 162
      <3>1. \A S, s : s \in Seq(S) => DOMAIN s = 1 .. Len(s)
        OBVIOUS
      <3> QED
        BY <3>1, ACChromaTable
    <2>2. ASSUME NEW r \in 0 .. 15, NEW n \in 1 .. 10
          PROVE  \E p \in 1 .. 162 : values[p] = 16 * r + n
      BY DEF Standard_AC_Chroma_Values
    <2>3. /\ \E p \in 1 .. 162 : values[p] = 0
          /\ \E p \in 1 .. 162 : values[p] = 240
      BY DEF Standard_AC_Chroma_Values
    <2>4. v \in {0, 240} \/ \E r \in 0 .. 15, n \in 1 .. 10 : v = 16 * r + n
      BY DEF ACSymbols
    <2> HIDE DEF values
    <2>5. CASE v \in {0, 240}
      BY <2>1, <2>3, <2>5
    <2>6. CASE \E r \in 0 .. 15, n \in 1 .. 10 : v = 16 * r + n
      <3>1. PICK r \in 0 .. 15, n \in 1 .. 10 : v = 16 * r + n
        BY <2>6
      <3>2. \E p \in 1 .. 162 : values[p] = 16 * r + n
        BY <2>2
      <3> QED
        BY <2>1, <3>1, <3>2, Zenon
    <2> QED
      BY <2>4, <2>5, <2>6
  <1>2. HuffmanCode(nr, values) /\ nr \in [1 .. 16 -> Nat]
    <2>1. \A S, s : s \in Seq(S) => DOMAIN s = 1 .. Len(s)
      OBVIOUS
    <2> QED
      BY <2>1, ACChromaTable DEF HuffmanCode
  <1>3. size \in Nat /\ V \in SUBSET (0 .. size - 1)
    BY DEF ACSymbols
  <1>4. Continues(tv, values) /\ CbCr_AC_Huffman_Tab = ComputeHuffmanTable(nr, values, size)
    BY DEF CbCr_AC_Huffman_Tab
  <1>5. CodesFit(nr, Table(nr, tv).first)
    <2>1. FirstCodes(nr, Table(nr, tv).first, Table(nr, tv).before)
      BY <1>2, TableIs
    <2> QED
      BY <2>1, ACChromaFits
  <1> HIDE DEF nr, values, V, size
  <1>6. Decodes(ComputeHuffmanTable(nr, values, size), Table(nr, tv), V)
    BY <1>1, <1>2, <1>3, <1>4, <1>5, TableDecodes
  <1>7. Decodes(CbCr_AC_Huffman_Tab, Table(nr, tv), V)
    BY <1>4, <1>6
  <1> QED
    BY <1>7 DEF nr, V

-----------------------------------------------------------------------------
(* Sequences put one after the other *)

\* A set that has the empty sequence, and with every sequence the longer ones,
\* has them all.
LEMMA AppendInduction ==
    ASSUME NEW T, NEW S, <<>> \in S,
           \A s \in Seq(T), last \in T : s \in S => Append(s, last) \in S
    PROVE  Seq(T) \subseteq S
  <1> SUFFICES ASSUME NEW u \in Seq(T) PROVE u \in S
    OBVIOUS
  <1> DEFINE n == Len(u)
             Good == {i \in 0 .. n : SubSeq(u, 1, i) \in S}
  <1>1. n \in Nat
    BY LenProperties
  <1>2. 0 \in Good
    <2> DEFINE w == SubSeq(u, 1, 0)
    <2>1. w = <<>>
      BY SubSeqEmpty
    <2> HIDE DEF w, n
    <2>2. w \in S /\ 0 \in 0 .. n
      BY <1>1, <2>1
    <2> QED
      BY <2>2 DEF w
  <1>3. ASSUME NEW i \in 0 .. n - 1, i \in Good PROVE i + 1 \in Good
    <2> DEFINE m == i + 1
               s == SubSeq(u, 1, i)
    <2>1. m \in 1 .. Len(u) /\ m - 1 = i /\ 1 \in 1 .. Len(u)
      BY <1>1
    <2>2. \A j \in 1 .. i : u[j] \in T
      BY <1>1, ElementOfSeq
    <2>3. s \in Seq(T)
      <3>1. 1 \in Int /\ i \in Int
        OBVIOUS
      <3> QED
        BY <2>2, <3>1, SubSeqProperties
    <2>4. SubSeq(u, 1, m) = s \o <<u[m]>>
      <3>1. 1 \in 1 .. Len(u) /\ m \in 1 .. Len(u)
        BY <2>1
      <3> HIDE DEF m
      <3>2. SubSeq(u, 1, m) = SubSeq(u, 1, m - 1) \o <<u[m]>>
        BY <3>1, SubSeqRecursiveSecond
      <3> QED
        BY <2>1, <3>2
    <2>5. u[m] \in T
      BY <2>1, ElementOfSeq
    <2>6. Append(s, u[m]) = s \o <<u[m]>>
      BY <2>3, <2>5, AppendIsConcat
    <2>7. s \in S
      BY <1>3
    <2> HIDE DEF s, m
    <2>8. SubSeq(u, 1, m) \in S
      BY <2>3, <2>4, <2>5, <2>6, <2>7
    <2>9. m \in 0 .. n
      BY <1>1 DEF m
    <2> QED
      BY <2>8, <2>9 DEF m
  <1>4. n \in Good
    <2> HIDE DEF Good, n
    <2>1. \A i \in 0 .. n : i \in Good
      BY <1>1, <1>2, <1>3, Induction
    <2> QED
      BY <1>1, <2>1
  <1> QED
    BY <1>4, SubSeqFull, ZenonT(30)

\* No sequences are none.
LEMMA FlattenNothing == FlattenSeq(<<>>) = <<>>
  BY DEF FlattenSeq

\* The last sequence is at the end.
LEMMA FlattenAppend ==
    ASSUME NEW T, NEW s \in Seq(Seq(T)), NEW last \in Seq(T)
    PROVE  FlattenSeq(Append(s, last)) = FlattenSeq(s) \o last
  <1> DEFINE n == Len(s)
             t == Append(s, last)
             m == n + 1
  <1>1. n \in Nat /\ \A i \in 1 .. n : s[i] \in Seq(T)
    BY LenProperties, ElementOfSeq
  <1>2. /\ t \in Seq(Seq(T)) /\ Len(t) = m /\ t[m] = last
        /\ \A i \in 1 .. n : t[i] = s[i]
    BY AppendProperties
  <1>3. \A u, v : u \in Seq(T) /\ v \in Seq(T) => u \o v \in Seq(T)
    BY ConcatProperties
  <1> HIDE DEF t
  <1>4. \A i \in 1 .. m : t[i] \in Seq(T)
    BY <1>2, ElementOfSeq
  <1>5. Collects(Seq(T), t)
    <2>1. 1 \in 1 .. m
      BY <1>1
    <2> QED
      BY <1>2, <1>3, <1>4, <2>1 DEF Collects
  <1>6. m \in Nat \ {0}
    BY <1>1
  <1> HIDE DEF m
  <1>7. PICK f \in Seq(Seq(T)) :
               /\ f[1] = t[1]
               /\ \A i \in 2 .. m : f[i] = f[i - 1] \o t[i]
               /\ FlattenSeq(t) = f[m]
    BY <1>2, <1>5, <1>6, FlattenSteps
  <1>8. CASE n = 0
    <2>1. s = <<>> /\ m = 1
      BY <1>8 DEF m
    <2>2. FlattenSeq(s) \o last = last
      BY <2>1, FlattenNothing, ConcatEmptySeq
    <2> QED
      BY <1>2, <1>7, <2>1, <2>2 DEF t
  <1>9. CASE n # 0
    <2>1. n \in Nat \ {0} /\ 1 \in 1 .. n
      BY <1>1, <1>9
    <2>2. Collects(Seq(T), s)
      BY <1>1, <1>3, <2>1 DEF Collects
    <2> HIDE DEF n
    <2>3. PICK g \in Seq(Seq(T)) :
                 /\ g[1] = s[1]
                 /\ \A i \in 2 .. n : g[i] = g[i - 1] \o s[i]
                 /\ FlattenSeq(s) = g[n]
      <3>1. Len(s) = n
        BY DEF n
      <3> QED
        BY <2>1, <2>2, <3>1, FlattenSteps
    <2> DEFINE Same == {i \in 1 .. n : f[i] = g[i]}
    <2>4. 1 \in Same
      BY <1>2, <1>7, <2>1, <2>3
    <2>5. ASSUME NEW i \in 1 .. n - 1, i \in Same PROVE i + 1 \in Same
      <3>1. i + 1 \in 2 .. n /\ i + 1 \in 2 .. m /\ (i + 1) - 1 = i /\ i + 1 \in 1 .. n
        BY <2>1 DEF m
      <3>2. f[i + 1] = f[i] \o t[i + 1] /\ g[i + 1] = g[i] \o s[i + 1]
        BY <1>7, <2>3, <3>1
      <3>3. f[i] = g[i] /\ t[i + 1] = s[i + 1]
        BY <1>2, <2>5, <3>1
      <3> QED
        BY <3>1, <3>2, <3>3
    <2>6. f[n] = g[n]
      <3> HIDE DEF Same
      <3>1. 1 \in Nat /\ n \in Nat
        BY <2>1
      <3>2. \A i \in 1 .. n : i \in Same
        BY <2>4, <2>5, <3>1, Induction
      <3>3. n \in 1 .. n
        BY <2>1
      <3> QED
        BY <3>2, <3>3 DEF Same
    <2>7. m \in 2 .. m /\ m - 1 = n
      BY <2>1 DEF m
    <2>8. f[m] = f[n] \o last
      BY <1>2, <1>7, <2>7
    <2> QED
      BY <1>7, <2>3, <2>6, <2>8 DEF t
  <1> QED
    BY <1>8, <1>9

\* Flattening goes through concatenation.
LEMMA FlattenConcat ==
    ASSUME NEW T, NEW s \in Seq(Seq(T)), NEW u \in Seq(Seq(T))
    PROVE  /\ FlattenSeq(s \o u) = FlattenSeq(s) \o FlattenSeq(u)
           /\ FlattenSeq(u) \in Seq(T)
  <1> DEFINE A == Seq(T)
             flat == FlattenSeq(s)
             Good == {v \in Seq(A) : /\ FlattenSeq(s \o v) = flat \o FlattenSeq(v)
                                     /\ FlattenSeq(v) \in A}
  <1>1. flat \in A
    <2>1. Len(s) \in Nat /\ s \in [1 .. Len(s) -> A]
      BY LenProperties
    <2> QED
      BY <2>1, FlattenInSeq
  <1>2. <<>> \in Good
    <2>1. s \o <<>> = s
      BY ConcatEmptySeq
    <2>2. flat \o <<>> = flat
      BY <1>1, ConcatEmptySeq
    <2>3. <<>> \in Seq(A) /\ <<>> \in A
      OBVIOUS
    <2> QED
      BY <2>1, <2>2, <2>3, FlattenNothing
  <1>3. ASSUME NEW v \in Seq(A), NEW last \in A, v \in Good PROVE Append(v, last) \in Good
    <2> DEFINE w == Append(v, last)
               fv == FlattenSeq(v)
    <2>1. w \in Seq(A)
      BY AppendProperties
    <2>2. FlattenSeq(w) = fv \o last
      BY FlattenAppend
    <2>3. FlattenSeq(s \o v) = flat \o fv /\ fv \in A
      BY <1>3
    <2>4. s \o w = Append(s \o v, last)
      <3>1. w = v \o <<last>> /\ <<last>> \in Seq(A)
        BY AppendIsConcat
      <3>2. s \o v \in Seq(A)
        BY ConcatProperties
      <3>3. Append(s \o v, last) = (s \o v) \o <<last>>
        BY <3>2, AppendIsConcat
      <3> HIDE DEF w
      <3> QED
        BY <3>1, <3>3, ConcatAssociative, SMTT(30)
    <2>5. FlattenSeq(Append(s \o v, last)) = FlattenSeq(s \o v) \o last
      <3>1. s \o v \in Seq(A)
        BY ConcatProperties
      <3> DEFINE sv == s \o v
      <3> HIDE DEF sv
      <3>2. FlattenSeq(Append(sv, last)) = FlattenSeq(sv) \o last
        BY <3>1, FlattenAppend DEF sv
      <3> QED
        BY <3>2 DEF sv
    <2> HIDE DEF w, fv, flat
    <2>6. (flat \o fv) \o last = flat \o (fv \o last) /\ fv \o last \in A
      BY <1>1, <2>3, ConcatAssociative, ConcatProperties, SMTT(30)
    <2>7. FlattenSeq(s \o w) = flat \o FlattenSeq(w) /\ FlattenSeq(w) \in A
      BY <2>2, <2>3, <2>4, <2>5, <2>6
    <2> QED
      BY <2>1, <2>7 DEF w
  <1>4. u \in Good
    <2> HIDE DEF Good
    <2>1. Seq(A) \subseteq Good
      <3> HIDE DEF A
      <3> QED
        BY <1>2, <1>3, AppendInduction
    <2> QED
      BY <2>1
  <1> QED
    BY <1>4

\* The bits of bit strings.
Encoded(bs) == FlattenSeq([n \in DOMAIN bs |-> BitsOf(bs[n])])

\* The bits of bit strings, as a sequence of sequences.
LEMMA BitsOfEach ==
    ASSUME NEW bs \in Seq(BitStrings)
    PROVE  LET each == [n \in DOMAIN bs |-> BitsOf(bs[n])]
           IN  /\ each \in Seq(Seq({0, 1})) /\ Len(each) = Len(bs)
               /\ \A n \in 1 .. Len(bs) : each[n] = BitsOf(bs[n])
  <1> DEFINE k == Len(bs)
             T == Seq({0, 1})
             each == [n \in 1 .. k |-> BitsOf(bs[n])]
  <1>1. DOMAIN bs = 1 .. k /\ k \in Nat
    BY LenProperties
  <1>2. \A n \in 1 .. k : BitsOf(bs[n]) \in T
    <2>1. ASSUME NEW n \in 1 .. k PROVE BitsOf(bs[n]) \in T
      <3>1. bs[n] \in BitStrings
        BY ElementOfSeq
      <3> QED
        BY <3>1, BitsOfType DEF Bits
    <2> QED
      BY <2>1
  <1> HIDE DEF k, T
  <1>3. each \in [1 .. k -> T]
    BY <1>2
  <1>4. each \in Seq(T) /\ Len(each) = k /\ \A n \in 1 .. k : each[n] = BitsOf(bs[n])
    <2>1. each \in Seq(T)
      BY <1>1, <1>3, FunctionIsSequence
    <2> QED
      BY <1>1, <2>1
  <1>5. [n \in DOMAIN bs |-> BitsOf(bs[n])] = each
    BY <1>1
  <1> HIDE DEF each
  <1> QED
    BY <1>4, <1>5 DEF T, k

\* The bits of bit strings are bits, those of the first before the others'.
LEMMA EncodedConcat ==
    ASSUME NEW s \in Seq(BitStrings), NEW u \in Seq(BitStrings)
    PROVE  /\ Encoded(s) \in Bits
           /\ Encoded(s \o u) = Encoded(s) \o Encoded(u)
  <1> DEFINE each(b) == [n \in DOMAIN b |-> BitsOf(b[n])]
             T == Seq({0, 1})
             es == each(s)
             eu == each(u)
             su == s \o u
             esu == each(su)
             m == Len(s)
             k == Len(u)
  <1>1. /\ es \in Seq(T) /\ Len(es) = m
        /\ \A n \in 1 .. m : es[n] = BitsOf(s[n])
    BY BitsOfEach
  <1>2. /\ eu \in Seq(T) /\ Len(eu) = k
        /\ \A n \in 1 .. k : eu[n] = BitsOf(u[n])
    BY BitsOfEach
  <1>3. su \in Seq(BitStrings) /\ Len(su) = m + k
        /\ \A i \in 1 .. m + k : su[i] = IF i <= m THEN s[i] ELSE u[i - m]
    BY ConcatProperties
  <1>4. m \in Nat /\ k \in Nat
    BY LenProperties
  <1>5. Encoded(s) = FlattenSeq(es) /\ Encoded(u) = FlattenSeq(eu)
        /\ Encoded(su) = FlattenSeq(esu)
    BY DEF Encoded
  <1> HIDE DEF su
  <1>6. /\ esu \in Seq(T) /\ Len(esu) = m + k
        /\ \A n \in 1 .. m + k : esu[n] = BitsOf(su[n])
    <2>1. /\ esu \in Seq(T) /\ Len(esu) = Len(su)
          /\ \A n \in 1 .. Len(su) : esu[n] = BitsOf(su[n])
      BY <1>3, BitsOfEach
    <2> HIDE DEF esu
    <2> QED
      BY <1>3, <2>1
  <1> HIDE DEF es, eu, esu, m, k, T
  <1>7. esu = es \o eu
    <2> DEFINE c == es \o eu
    <2>1. c \in Seq(T) /\ Len(c) = m + k
          /\ \A i \in 1 .. m + k : c[i] = IF i <= m THEN es[i] ELSE eu[i - m]
      BY <1>1, <1>2, ConcatProperties
    <2> HIDE DEF c
    <2>2. ASSUME NEW i \in 1 .. m + k PROVE esu[i] = c[i]
      <3>1. i <= m => i \in 1 .. m
        BY <1>4
      <3>2. ~ (i <= m) => i - m \in 1 .. k
        BY <1>4
      <3> QED
        BY <1>1, <1>2, <1>3, <1>6, <2>1, <3>1, <3>2, ZenonT(30)
    <2>3. esu = c
      BY <1>6, <2>1, <2>2, SeqEqual
    <2> QED
      BY <2>3 DEF c
  <1>8. FlattenSeq(es) \in T /\ FlattenSeq(es \o eu) = FlattenSeq(es) \o FlattenSeq(eu)
    <2>1. es \in Seq(Seq({0, 1})) /\ eu \in Seq(Seq({0, 1}))
      BY <1>1, <1>2 DEF T
    <2> QED
      BY <2>1, FlattenConcat DEF T
  <1> QED
    BY <1>5, <1>7, <1>8 DEF su, T, Bits

\* The bits of one bit string.
LEMMA EncodedOne ==
    ASSUME NEW b \in BitStrings
    PROVE  /\ <<b>> \in Seq(BitStrings)
           /\ Encoded(<<b>>) = BitsOf(b)
           /\ Encoded(<<>>) = <<>>
  <1> DEFINE T == {0, 1}
             word == BitsOf(b)
  <1>1. word \in Seq(T)
    BY BitsOfType DEF Bits
  <1>2. [n \in DOMAIN <<b>> |-> BitsOf(<<b>>[n])] = <<word>>
    OBVIOUS
  <1>3. [n \in DOMAIN <<>> |-> BitsOf(<<>>[n])] = <<>>
    OBVIOUS
  <1> HIDE DEF word, T
  <1>4. FlattenSeq(<<word>>) = word
    <2>1. <<>> \in Seq(Seq(T)) /\ Append(<<>>, word) = <<word>>
      OBVIOUS
    <2>2. FlattenSeq(Append(<<>>, word)) = FlattenSeq(<<>>) \o word
      BY <1>1, <2>1, FlattenAppend
    <2>3. <<>> \o word = word
      BY <1>1, ConcatEmptySeq
    <2> QED
      BY <2>1, <2>2, <2>3, FlattenNothing
  <1>5. Encoded(<<b>>) = word /\ Encoded(<<>>) = <<>>
    BY <1>2, <1>3, <1>4, FlattenNothing DEF Encoded
  <1> QED
    BY <1>5 DEF word

-----------------------------------------------------------------------------
(* Reading bit strings *)

\* The bits of a number that is not 0 give it back, with its sign.
LEMMA ExtendInverts ==
    ASSUME NEW v \in Int, v # 0, NEW n \in 0 .. 15, Fits(v, n)
    PROVE  LET bs == GetBitCode(v)
           IN  /\ Numeral(bs) /\ bs.length \in 1 .. n
               /\ Extend(bs.value, bs.length) = v
  <1> DEFINE abs == IF v > 0 THEN v ELSE -v
             l == CHOOSE m \in 0 .. 16 :
                      abs < 2 ^ m /\ (m = 0 \/ abs >= 2 ^ (m - 1))
             w == IF v > 0 THEN v ELSE 2 ^ l + v - 1
  <1>1. abs \in Nat /\ abs > 0 /\ abs < 2 ^ n
        /\ (v > 0 => abs = v) /\ (~(v > 0) => abs = -v)
    BY DEF Fits
  <1>2. GetBitCode(v) = [length |-> l, value |-> w]
    BY DEF GetBitCode
  <1> HIDE DEF abs
  <1>3. l \in 0 .. n /\ abs < 2 ^ l /\ (l = 0 \/ abs >= 2 ^ (l - 1))
    <2>1. n \in 0 .. 16
      OBVIOUS
    <2> QED
      BY <1>1, <2>1, BitLength
  <1> HIDE DEF l
  <1>4. l \in 1 .. n
    <2>1. 2 ^ 0 = 1
      OBVIOUS
    <2>2. ASSUME l = 0 PROVE FALSE
      <3>1. 2 ^ l = 1
        BY <2>1, <2>2, Zenon
      <3> QED
        BY <1>1, <1>3, <3>1
    <2> QED
      BY <1>3, <2>2
  <1> DEFINE q == l - 1
             d == 2 ^ q
             D == 2 ^ l
  <1>5. D = 2 * d
    <2>1. q \in 0 .. 15 /\ q + 1 = l
      BY <1>4
    <2> HIDE DEF q
    <2>2. 2 ^ (q + 1) = 2 * 2 ^ q
      BY <2>1, PowerDoubles
    <2> QED
      BY <2>1, <2>2
  <1>6. d \in Nat /\ d > 0
    <2>1. q \in 0 .. 16
      BY <1>4
    <2> HIDE DEF q
    <2> QED
      BY <2>1, PowerIsPositive
  <1>7. abs < D /\ abs >= d
    BY <1>3, <1>4
  <1>8. Extend(w, l) = IF l > 0 /\ w < d THEN w - D + 1 ELSE w
    BY DEF Extend
  <1>9. w = IF v > 0 THEN v ELSE D + v - 1
    OBVIOUS
  <1> HIDE DEF w, d, D
  <1>10. w \in Nat /\ w < D /\ Extend(w, l) = v
    <2>1. CASE v > 0
      BY <1>1, <1>4, <1>5, <1>6, <1>7, <1>8, <1>9, <2>1
    <2>2. CASE ~ (v > 0)
      BY <1>1, <1>4, <1>5, <1>6, <1>7, <1>8, <1>9, <2>2
    <2> QED
      BY <2>1, <2>2
  <1> DEFINE bs == [length |-> l, value |-> w]
  <1>11. bs.length = l /\ bs.value = w /\ bs \in BitStrings
    <2>1. l \in 0 .. 16 /\ w \in Int
      BY <1>4, <1>10
    <2> QED
      BY <2>1 DEF BitStrings
  <1>12. GetBitCode(v) = bs
    BY <1>2
  <1> HIDE DEF bs
  <1>13. Numeral(bs) /\ bs.length \in 1 .. n /\ Extend(bs.value, bs.length) = v
    BY <1>4, <1>10, <1>11 DEF Numeral, D
  <1> QED
    BY <1>12, <1>13

\* The bits from p up to q are those of the bit strings.
Spells(bits, p, cs, q) ==
    /\ cs \in Seq(BitStrings)
    /\ q \in Nat \ {0} /\ q = p + Len(Encoded(cs))
    /\ Stands(bits, p, Encoded(cs))

\* Bit strings are read one after the other.
LEMMA SpellsConcat ==
    ASSUME NEW bits \in Bits, NEW p \in Nat \ {0}, NEW q,
           NEW s \in Seq(BitStrings), NEW u \in Seq(BitStrings),
           Spells(bits, p, s \o u, q)
    PROVE  \E r \in Nat \ {0} : Spells(bits, p, s, r) /\ Spells(bits, r, u, q)
  <1> DEFINE es == Encoded(s)
             eu == Encoded(u)
             r == p + Len(es)
             T == {0, 1}
  <1>1. es \in Seq(T) /\ eu \in Seq(T) /\ bits \in Seq(T)
    BY EncodedConcat DEF Bits
  <1>2. Encoded(s \o u) = es \o eu
    BY EncodedConcat
  <1>3. Stands(bits, p, es \o eu) /\ q \in Nat \ {0} /\ q = p + Len(es \o eu)
    BY <1>2 DEF Spells
  <1>4. Len(es) \in Nat /\ Len(eu) \in Nat /\ Len(es \o eu) = Len(es) + Len(eu)
    BY <1>1, LenProperties, ConcatProperties
  <1> HIDE DEF es, eu, T
  <1>5. Stands(bits, p, es) /\ Stands(bits, r, eu)
    BY <1>1, <1>3, StandsConcat
  <1>6. r \in Nat \ {0} /\ q = r + Len(eu)
    <2> DEFINE m == Len(es)
               k == Len(eu)
    <2>1. m \in Nat /\ k \in Nat /\ q = p + (m + k) /\ r = p + m
      BY <1>3, <1>4
    <2> HIDE DEF m, k, r
    <2>2. r \in Nat \ {0} /\ q = r + k
      BY <2>1
    <2> QED
      BY <2>2 DEF k
  <1>7. Spells(bits, p, s, r)
    BY <1>5, <1>6 DEF Spells, es
  <1>8. Spells(bits, r, u, q)
    BY <1>3, <1>5, <1>6 DEF Spells, eu
  <1> QED
    BY <1>6, <1>7, <1>8

\* One bit string stands where it is spelled.
LEMMA SpellsOne ==
    ASSUME NEW bits \in Bits, NEW p \in Nat \ {0}, NEW q, NEW b \in BitStrings,
           Spells(bits, p, <<b>>, q)
    PROVE  Stands(bits, p, BitsOf(b)) /\ q = p + b.length
  <1>1. Encoded(<<b>>) = BitsOf(b)
    BY EncodedOne
  <1>2. Len(BitsOf(b)) = b.length
    <2> DEFINE l == b.length
               word == BitsOf(b)
               e(i) == (b.value \div 2 ^ (l - i)) % 2
    <2>1. l \in Nat
      BY DEF BitStrings
    <2>2. word = [i \in 1 .. l |-> e(i)]
      BY DEF BitsOf
    <2>3. word \in Seq({0, 1})
      BY BitsOfType DEF Bits
    <2> HIDE DEF l, e, word
    <2>4. DOMAIN word = 1 .. l
      BY <2>2
    <2>5. DOMAIN word = 1 .. Len(word) /\ Len(word) \in Nat
      BY <2>3, LenProperties
    <2>6. Len(word) = l
      BY <2>1, <2>4, <2>5
    <2> QED
      BY <2>6 DEF word, l
  <1> QED
    BY <1>1, <1>2 DEF Spells

\* No bit strings take no bits.
LEMMA SpellsNone ==
    ASSUME NEW bits, NEW p \in Nat \ {0}, NEW q, Spells(bits, p, <<>>, q)
    PROVE  q = p
  <1>1. Encoded(<<>>) = <<>>
    BY FlattenNothing DEF Encoded
  <1>2. q = p + Len(<<>>)
    BY <1>1 DEF Spells
  <1> QED
    BY <1>2

\* Position r[n] is where piece n ends and the next begins.
Pieces(bits, p, cs, q, r) ==
    /\ r[0] = p /\ r[Len(cs)] = q
    /\ \A n \in 0 .. Len(cs) : r[n] \in Nat \ {0}
    /\ \A n \in 1 .. Len(cs) : Spells(bits, r[n - 1], cs[n], r[n])

\* What is put together of pieces is read piece by piece.
LEMMA SpellsPieces ==
    ASSUME NEW bits \in Bits, NEW p \in Nat \ {0}, NEW q,
           NEW cs \in Seq(Seq(BitStrings)), Spells(bits, p, FlattenSeq(cs), q)
    PROVE  \E r : Pieces(bits, p, cs, q, r)
  <1> DEFINE T == Seq(BitStrings)
             Good == {c \in Seq(T) : \A z : Spells(bits, p, FlattenSeq(c), z)
                                          => \E r : Pieces(bits, p, c, z, r)}
  <1>1. <<>> \in Good
    <2>1. ASSUME NEW z, Spells(bits, p, FlattenSeq(<<>>), z)
          PROVE  \E r : Pieces(bits, p, <<>>, z, r)
      <3> DEFINE r == [i \in {0} |-> p]
      <3>1. z = p
        BY <2>1, FlattenNothing, SpellsNone
      <3>2. Pieces(bits, p, <<>>, z, r)
        BY <3>1 DEF Pieces
      <3> QED
        BY <3>2
    <2> QED
      BY <2>1
  <1>2. ASSUME NEW c \in Seq(T), NEW last \in T, c \in Good PROVE Append(c, last) \in Good
    <2> DEFINE n == Len(c)
               w == Append(c, last)
               fc == FlattenSeq(c)
    <2>1. n \in Nat
      BY LenProperties
    <2>2. w \in Seq(T) /\ Len(w) = n + 1 /\ w[n + 1] = last /\ \A i \in 1 .. n : w[i] = c[i]
      BY AppendProperties
    <2>3. FlattenSeq(w) = fc \o last /\ fc \in T
      <3>1. <<>> \in Seq(T)
        OBVIOUS
      <3>2. FlattenSeq(c) \in T
        BY <3>1, FlattenConcat
      <3> QED
        BY <3>2, FlattenAppend
    <2>4. ASSUME NEW z, Spells(bits, p, FlattenSeq(w), z)
          PROVE  \E r : Pieces(bits, p, w, z, r)
      <3> HIDE DEF w, n, fc
      <3>1. Spells(bits, p, fc \o last, z)
        BY <2>3, <2>4
      <3>2. PICK mid \in Nat \ {0} : Spells(bits, p, fc, mid) /\ Spells(bits, mid, last, z)
        <4> HIDE DEF Good
        <4> QED
          BY <2>3, <3>1, SpellsConcat
      <3>3. PICK r : Pieces(bits, p, c, mid, r)
        BY <1>2, <3>2 DEF fc
      <3> DEFINE s == [i \in 0 .. n + 1 |-> IF i <= n THEN r[i] ELSE z]
      <3>4. /\ r[0] = p /\ r[n] = mid
            /\ \A i \in 0 .. n : r[i] \in Nat \ {0}
            /\ \A i \in 1 .. n : Spells(bits, r[i - 1], c[i], r[i])
        BY <3>3 DEF Pieces, n
      <3>5. (\A i \in 0 .. n : s[i] = r[i]) /\ s[n + 1] = z
        BY <2>1
      <3>6. z \in Nat \ {0}
        BY <3>2 DEF Spells
      <3> HIDE DEF s, Good
      <3>7. s[0] = p /\ s[n] = mid
        BY <2>1, <3>4, <3>5
      <3>8. \A i \in 0 .. n + 1 : s[i] \in Nat \ {0}
        <4>1. \A i \in 0 .. n + 1 : i \in 0 .. n \/ i = n + 1
          BY <2>1
        <4> QED
          BY <3>4, <3>5, <3>6, <4>1
      <3>9. ASSUME NEW i \in 1 .. n + 1 PROVE Spells(bits, s[i - 1], w[i], s[i])
        <4>1. CASE i = n + 1
          <5>1. i - 1 = n
            BY <2>1, <4>1
          <5> QED
            BY <2>2, <3>2, <3>5, <3>7, <4>1, <5>1
        <4>2. CASE i # n + 1
          <5>1. i \in 1 .. n /\ i - 1 \in 0 .. n /\ i \in 0 .. n
            BY <2>1, <4>2
          <5>2. s[i - 1] = r[i - 1] /\ s[i] = r[i] /\ w[i] = c[i]
            BY <2>2, <3>5, <5>1
          <5> QED
            BY <3>4, <5>1, <5>2
        <4> QED
          BY <4>1, <4>2
      <3>10. Pieces(bits, p, w, z, s)
        BY <2>2, <3>5, <3>7, <3>8, <3>9 DEF Pieces
      <3> QED
        BY <3>10
    <2>5. w \in Good
      <3> HIDE DEF w
      <3> QED
        BY <2>2, <2>4
    <2> QED
      BY <2>5
  <1>3. cs \in Good
    <2> HIDE DEF Good
    <2>1. Seq(T) \subseteq Good
      <3> HIDE DEF T
      <3> QED
        BY <1>1, <1>2, AppendInduction
    <2> QED
      BY <2>1
  <1> QED
    BY <1>3

-----------------------------------------------------------------------------
(* Decoding a block *)

\* Reading m symbols of AC coefficients leads from a to b.
Leads(bits, t, a, b, m) ==
    \E f : /\ f[0] = a /\ f[m] = b
           /\ \A i \in 1 .. m : f[i] = ReadAC(bits, t, f[i - 1])

\* One symbol more.
LEMMA LeadsOn ==
    ASSUME NEW bits, NEW t, NEW a, NEW b, NEW m \in Nat, Leads(bits, t, a, b, m)
    PROVE  Leads(bits, t, a, ReadAC(bits, t, b), m + 1)
  <1> DEFINE R(s) == ReadAC(bits, t, s)
  <1>1. PICK f : /\ f[0] = a /\ f[m] = b
                 /\ \A i \in 1 .. m : f[i] = R(f[i - 1])
    BY DEF Leads
  <1> HIDE DEF R
  <1> DEFINE n == m + 1
             g == [i \in 0 .. n |-> IF i <= m THEN f[i] ELSE R(b)]
  <1>2. (\A i \in 0 .. m : g[i] = f[i]) /\ g[n] = R(b)
    OBVIOUS
  <1>3. n \in Nat /\ m \in 0 .. m /\ 0 \in 0 .. m /\ n - 1 = m
    OBVIOUS
  <1> HIDE DEF g
  <1>4. ASSUME NEW i \in 1 .. n PROVE g[i] = R(g[i - 1])
    <2>1. CASE i = n
      BY <1>1, <1>2, <1>3, <2>1
    <2>2. CASE i # n
      <3>1. i \in 1 .. m /\ i - 1 \in 0 .. m /\ i \in 0 .. m
        BY <2>2
      <3> QED
        BY <1>1, <1>2, <3>1
    <2> QED
      BY <2>1, <2>2
  <1>5. g[0] = a /\ g[n] = R(b)
    BY <1>1, <1>2, <1>3
  <1> HIDE DEF n
  <1>6. Leads(bits, t, a, R(b), n)
    BY <1>4, <1>5 DEF Leads, R
  <1> QED
    BY <1>6 DEF R, n

\* Behind the last coefficient nothing is read any more.
LEMMA LeadsStay ==
    ASSUME NEW bits, NEW t, NEW a, NEW b, b.k > 63, NEW m \in 0 .. 63,
           Leads(bits, t, a, b, m)
    PROVE  Leads(bits, t, a, b, 63)
  <1> DEFINE n == 63
             Good == {i \in m .. n : Leads(bits, t, a, b, i)}
  <1>1. ReadAC(bits, t, b) = b
    BY DEF ReadAC
  <1>2. m \in Nat /\ n \in Nat /\ n \in m .. n /\ m \in Good
    OBVIOUS
  <1>3. ASSUME NEW i \in m .. n - 1, i \in Good PROVE i + 1 \in Good
    <2>1. i \in Nat /\ i + 1 \in m .. n
      OBVIOUS
    <2>2. Leads(bits, t, a, ReadAC(bits, t, b), i + 1)
      <3>1. Leads(bits, t, a, b, i)
        BY <1>3
      <3> QED
        BY <2>1, <3>1, LeadsOn
    <2> QED
      BY <1>1, <2>1, <2>2
  <1>4. n \in Good
    <2> HIDE DEF Good, n
    <2>1. \A i \in m .. n : i \in Good
      BY <1>2, <1>3, Induction
    <2> QED
      BY <1>2, <2>1
  <1> QED
    BY <1>4

\* The state in which the AC coefficients of a block are begun.
FirstAC(p, dcValue) ==
    [k |-> 1, next |-> p,
     block |-> [k \in 0 .. 63 |-> IF k = 0 THEN dcValue ELSE 0]]

\* What the 63 symbols lead to is the block.
LEMMA LeadsDecode ==
    ASSUME NEW bits, NEW t, NEW p, NEW dcValue, NEW b,
           Leads(bits, t, FirstAC(p, dcValue), b, 63)
    PROVE  DecodeAC(bits, p, dcValue, t) = b
  <1> DEFINE R(s) == ReadAC(bits, t, s)
             a == FirstAC(p, dcValue)
             Step(c) == [n \in 1 .. 64 |-> IF n = 1 THEN a ELSE R(c[n - 1])]
  <1>1. PICK f : /\ f[0] = a /\ f[63] = b
                 /\ \A i \in 1 .. 63 : f[i] = R(f[i - 1])
    BY DEF Leads
  <1> DEFINE read == CHOOSE c : c = Step(c)
  <1>2. DecodeAC(bits, p, dcValue, t) = read[64]
    BY DEF DecodeAC, FirstAC
  <1> HIDE DEF R, a
  <1> DEFINE g == [n \in 1 .. 64 |-> f[n - 1]]
  <1>3. g = Step(g)
    <2>1. ASSUME NEW n \in 1 .. 64
          PROVE  g[n] = IF n = 1 THEN a ELSE R(g[n - 1])
      <3>1. CASE n = 1
        BY <1>1, <3>1
      <3>2. CASE n # 1
        <4>1. n - 1 \in 1 .. 63 /\ n - 1 \in 1 .. 64
          BY <3>2
        <4>2. f[n - 1] = R(f[(n - 1) - 1]) /\ g[n] = f[n - 1] /\ g[n - 1] = f[(n - 1) - 1]
          BY <1>1, <4>1
        <4> QED
          BY <3>2, <4>2
      <3> QED
        BY <3>1, <3>2
    <2> HIDE DEF g
    <2>2. g = [n \in 1 .. 64 |-> g[n]]
      BY DEF g
    <2> QED
      BY <2>1, <2>2
  <1>4. read = Step(read)
    <2> HIDE DEF Step
    <2> QED
      BY <1>3
  <1> HIDE DEF read
  <1>5. read[1] = a /\ \A n \in 2 .. 64 : read[n] = R(read[n - 1])
    <2>1. read[1] = a
      BY <1>4
    <2>2. ASSUME NEW n \in 2 .. 64 PROVE read[n] = R(read[n - 1])
      <3>1. n \in 1 .. 64 /\ n # 1
        OBVIOUS
      <3> QED
        BY <1>4, <3>1
    <2> QED
      BY <2>1, <2>2
  <1> DEFINE top == 64
             Good == {n \in 1 .. top : read[n] = f[n - 1]}
  <1>6. 1 \in Good
    BY <1>1, <1>5
  <1>7. ASSUME NEW n \in 1 .. top - 1, n \in Good PROVE n + 1 \in Good
    <2>1. n \in 1 .. 63 /\ n + 1 \in 2 .. 64 /\ n + 1 \in 1 .. top /\ (n + 1) - 1 = n
      OBVIOUS
    <2>2. read[n + 1] = R(read[n])
      BY <1>5, <2>1
    <2>3. f[n] = R(f[n - 1])
      BY <1>1, <2>1
    <2>4. read[n] = f[n - 1]
      BY <1>7
    <2> QED
      BY <2>1, <2>2, <2>3, <2>4
  <1>8. top \in Good
    <2>1. 1 \in Nat /\ top \in Nat /\ top \in 1 .. top
      OBVIOUS
    <2> HIDE DEF Good, top
    <2>2. \A n \in 1 .. top : n \in Good
      BY <1>6, <1>7, <2>1, Induction
    <2> QED
      BY <2>1, <2>2
  <1>9. read[64] = f[63]
    BY <1>8
  <1> QED
    BY <1>1, <1>2, <1>9

\* A decoder's and an encoder's table of AC coefficients, and bits.
ACCoder(bits, ac, t) ==
    /\ bits \in Bits /\ ac \in [0 .. 255 -> BitStrings]
    /\ Decodes(ac, t, ACSymbols)

\* A symbol of AC coefficients is read.
LEMMA ReadACSymbol ==
    ASSUME NEW bits, NEW ac, NEW t, ACCoder(bits, ac, t),
           NEW p \in Nat \ {0}, NEW q, NEW v \in ACSymbols,
           Spells(bits, p, <<ac[v]>>, q)
    PROVE  Symbol(bits, p, t) = [value |-> v, next |-> q]
  <1>1. bits \in Bits /\ ac[v] \in BitStrings
    <2>1. v \in 0 .. 255
      BY DEF ACSymbols
    <2> QED
      BY <2>1 DEF ACCoder
  <1>2. Stands(bits, p, BitsOf(ac[v])) /\ q = p + ac[v].length
    BY <1>1, SpellsOne
  <1> QED
    BY <1>1, <1>2 DEF ACCoder, Decodes

\* SIXTEEN_ZEROS moves on by 16 coefficients.
LEMMA ReadSixteenZeros ==
    ASSUME NEW bits, NEW ac, NEW t, ACCoder(bits, ac, t),
           NEW k \in Nat, k + 16 <= 63, NEW p \in Nat \ {0}, NEW q, NEW B,
           Spells(bits, p, <<ac[240]>>, q)
    PROVE  ReadAC(bits, t, [k |-> k, next |-> p, block |-> B])
             = [k |-> k + 16, next |-> q, block |-> B]
  <1> DEFINE v == 240
             s == [k |-> k, next |-> p, block |-> B]
             code == Symbol(bits, s.next, t)
             size == code.value % 16
             i == s.k + code.value \div 16
  <1>1. code = [value |-> v, next |-> q]
    <2>1. v \in ACSymbols
      BY DEF ACSymbols
    <2>2. Spells(bits, p, <<ac[v]>>, q) /\ s.next = p
      OBVIOUS
    <2> HIDE DEF v
    <2> QED
      BY <2>1, <2>2, ReadACSymbol
  <1>2. s.k = k /\ s.block = B
    OBVIOUS
  <1>3. ReadAC(bits, t, s)
          = IF s.k > 63 THEN s
            ELSE IF code.value = 0
              THEN [k |-> 64, next |-> code.next, block |-> s.block]
            ELSE IF code.value < 0 \/ i > 63 \/ (size = 0 /\ code.value # 240)
              THEN [k |-> 64, next |-> 0, block |-> s.block]
            ELSE IF size = 0
              THEN [k |-> i + 1, next |-> code.next, block |-> s.block]
            ELSE [k |-> i + 1, next |-> code.next + size,
                  block |-> [s.block EXCEPT
                               ![i] = Extend(Number(bits, code.next, size), size)]]
    BY DEF ReadAC
  <1> HIDE DEF s, code
  <1>4. code.value = 240 /\ code.next = q
    BY <1>1
  <1>5. size = 0 /\ i = k + 15
    BY <1>2, <1>4
  <1> HIDE DEF size, i
  <1>6. ReadAC(bits, t, s) = [k |-> i + 1, next |-> q, block |-> B]
    BY <1>2, <1>3, <1>4, <1>5
  <1>7. i + 1 = k + 16
    BY <1>5
  <1> QED
    BY <1>6, <1>7 DEF s

\* The end of the block leaves the rest 0.
LEMMA ReadEnd ==
    ASSUME NEW bits, NEW ac, NEW t, ACCoder(bits, ac, t),
           NEW k \in Nat, k <= 63, NEW p \in Nat \ {0}, NEW q, NEW B,
           Spells(bits, p, <<ac[0]>>, q)
    PROVE  ReadAC(bits, t, [k |-> k, next |-> p, block |-> B])
             = [k |-> 64, next |-> q, block |-> B]
  <1> DEFINE v == 0
             s == [k |-> k, next |-> p, block |-> B]
             code == Symbol(bits, s.next, t)
             size == code.value % 16
             i == s.k + code.value \div 16
             rest == IF code.value < 0 \/ i > 63 \/ (size = 0 /\ code.value # 240)
                       THEN [k |-> 64, next |-> 0, block |-> s.block]
                     ELSE IF size = 0
                       THEN [k |-> i + 1, next |-> code.next, block |-> s.block]
                     ELSE [k |-> i + 1, next |-> code.next + size,
                           block |-> [s.block EXCEPT
                             ![i] = Extend(Number(bits, code.next, size), size)]]
  <1>1. code = [value |-> v, next |-> q]
    <2>1. v \in ACSymbols
      BY DEF ACSymbols
    <2>2. Spells(bits, p, <<ac[v]>>, q) /\ s.next = p
      OBVIOUS
    <2> HIDE DEF v
    <2> QED
      BY <2>1, <2>2, ReadACSymbol
  <1>2. s.k = k /\ s.block = B
    OBVIOUS
  <1>3. ReadAC(bits, t, s)
          = IF s.k > 63 THEN s
            ELSE IF code.value = 0
              THEN [k |-> 64, next |-> code.next, block |-> s.block]
            ELSE rest
    BY DEF ReadAC
  <1> HIDE DEF s, code, rest
  <1> QED
    BY <1>1, <1>2, <1>3 DEF s

\* A block with another coefficient.
With(B, e, v) == [B EXCEPT ![e] = v]

\* A symbol for r zeros and n bits, and the bits.
CoefficientAt(bits, ac, t, k, p, r, n, bs, e, q) ==
    /\ ACCoder(bits, ac, t)
    /\ k \in Nat /\ e \in 0 .. 63 /\ e = k + r /\ p \in Nat \ {0}
    /\ Numeral(bs) /\ bs.length = n
    /\ r \in 0 .. 15 /\ n \in 1 .. 10
    /\ Spells(bits, p, <<ac[16 * r + n], bs>>, q)

\* A coefficient is put behind the zeros before it.
LEMMA ReadCoefficient ==
    ASSUME NEW bits, NEW ac, NEW t, NEW k, NEW p, NEW r, NEW n, NEW bs, NEW e,
           NEW q, NEW B, CoefficientAt(bits, ac, t, k, p, r, n, bs, e, q)
    PROVE  ReadAC(bits, t, [k |-> k, next |-> p, block |-> B])
             = [k |-> e + 1, next |-> q, block |-> With(B, e, Extend(bs.value, n))]
  <1> DEFINE v == 16 * r + n
             s == [k |-> k, next |-> p, block |-> B]
             code == Symbol(bits, s.next, t)
             size == code.value % 16
             i == s.k + code.value \div 16
  <1> USE DEF CoefficientAt
  <1>0. /\ ACCoder(bits, ac, t)
        /\ k \in Nat /\ e \in 0 .. 63 /\ e = k + r /\ p \in Nat \ {0}
        /\ Numeral(bs) /\ bs.length = n
        /\ r \in 0 .. 15 /\ n \in 1 .. 10
        /\ Spells(bits, p, <<ac[v], bs>>, q)
    OBVIOUS
  <1> HIDE DEF CoefficientAt
  <1>1. v \in ACSymbols /\ v \in 0 .. 255 /\ v % 16 = n /\ v \div 16 = r /\ v > 0
    <2>1. v \in ACSymbols
      BY <1>0 DEF ACSymbols
    <2>2. v \in 0 .. 255 /\ v % 16 = n /\ v \div 16 = r /\ v > 0
      BY <1>0
    <2> QED
      BY <2>1, <2>2
  <1> HIDE DEF v
  <1>2. bits \in Bits /\ ac[v] \in BitStrings /\ bs \in BitStrings
    BY <1>0, <1>1 DEF ACCoder, Numeral
  <1>3. PICK z \in Nat \ {0} : Spells(bits, p, <<ac[v]>>, z) /\ Spells(bits, z, <<bs>>, q)
    <2> DEFINE entry == ac[v]
    <2>1. <<entry>> \in Seq(BitStrings) /\ <<bs>> \in Seq(BitStrings)
      BY <1>2
    <2>2. <<entry, bs>> = <<entry>> \o <<bs>>
      OBVIOUS
    <2>3. Spells(bits, p, <<entry, bs>>, q)
      BY <1>0
    <2> HIDE DEF entry
    <2>4. Spells(bits, p, <<entry>> \o <<bs>>, q)
      BY <2>2, <2>3
    <2>5. \E z \in Nat \ {0} : Spells(bits, p, <<entry>>, z) /\ Spells(bits, z, <<bs>>, q)
      BY <1>0, <1>2, <2>1, <2>4, SpellsConcat
    <2> QED
      BY <2>5 DEF entry
  <1>4. code = [value |-> v, next |-> z]
    <2>1. s.next = p
      OBVIOUS
    <2> QED
      BY <1>0, <1>1, <1>3, <2>1, ReadACSymbol
  <1>5. Stands(bits, z, BitsOf(bs)) /\ q = z + n
    BY <1>0, <1>2, <1>3, SpellsOne
  <1>6. Number(bits, z, n) = bs.value
    BY <1>0, <1>2, <1>5, NumeralRead
  <1>7. s.k = k /\ s.block = B
    OBVIOUS
  <1>8. ReadAC(bits, t, s)
          = IF s.k > 63 THEN s
            ELSE IF code.value = 0
              THEN [k |-> 64, next |-> code.next, block |-> s.block]
            ELSE IF code.value < 0 \/ i > 63 \/ (size = 0 /\ code.value # 240)
              THEN [k |-> 64, next |-> 0, block |-> s.block]
            ELSE IF size = 0
              THEN [k |-> i + 1, next |-> code.next, block |-> s.block]
            ELSE [k |-> i + 1, next |-> code.next + size,
                  block |-> [s.block EXCEPT
                               ![i] = Extend(Number(bits, code.next, size), size)]]
    BY DEF ReadAC
  <1> HIDE DEF s, code
  <1>9. code.value = v /\ code.next = z
    BY <1>4
  <1>10. size = n /\ i = e /\ n \in 1 .. 10 /\ e \in 0 .. 63 /\ k <= e
    BY <1>0, <1>1, <1>7, <1>9
  <1> HIDE DEF size, i
  <1>11. ReadAC(bits, t, s)
           = [k |-> i + 1, next |-> z + n,
              block |-> [B EXCEPT ![i] = Extend(Number(bits, z, n), n)]]
    <2>1. ~ (s.k > 63) /\ ~ (code.value = 0) /\ size # 0
          /\ ~ (code.value < 0 \/ i > 63 \/ (size = 0 /\ code.value # 240))
      BY <1>0, <1>1, <1>7, <1>9, <1>10
    <2> QED
      BY <1>7, <1>8, <1>9, <1>10, <2>1
  <1> QED
    BY <1>5, <1>6, <1>10, <1>11 DEF s, With

\* SIXTEEN_ZEROS for each sixteen of a run.
Sixteens(n, ac) == [i \in 1 .. n |-> ac[240]]

\* They are a sequence, and there is a first if there is one.
LEMMA SixteensType ==
    ASSUME NEW ac \in [0 .. 255 -> BitStrings], NEW n \in Nat
    PROVE  /\ Sixteens(n, ac) \in Seq(BitStrings)
           /\ Sixteens(n + 1, ac) = <<ac[240]>> \o Sixteens(n, ac)
           /\ Sixteens(0, ac) = <<>>
  <1> DEFINE z == ac[240]
             s(m) == [i \in 1 .. m |-> z]
             m == n + 1
             S == BitStrings
  <1>1. z \in S
    OBVIOUS
  <1>2. \A k : Sixteens(k, ac) = s(k)
    BY DEF Sixteens
  <1> HIDE DEF z, S
  <1>3. m \in Nat /\ n \in Nat
    OBVIOUS
  <1>4. \A k \in Nat : s(k) \in Seq(S) /\ Len(s(k)) = k /\ \A i \in 1 .. k : s(k)[i] = z
    <2>1. ASSUME NEW k \in Nat
          PROVE  s(k) \in Seq(S) /\ Len(s(k)) = k /\ \A i \in 1 .. k : s(k)[i] = z
      <3>1. s(k) \in [1 .. k -> S]
        BY <1>1
      <3>2. s(k) \in Seq(S)
        BY <3>1, FunctionIsSequence
      <3> QED
        BY <3>2
    <2> QED
      BY <2>1
  <1>5. <<z>> \in Seq(S) /\ Len(<<z>>) = 1 /\ <<z>>[1] = z
    BY <1>1
  <1>6. s(0) = <<>>
    OBVIOUS
  <1> DEFINE a == <<z>>
             b == s(n)
             c == a \o b
             e == s(m)
  <1>7. c \in Seq(S) /\ Len(c) = m /\ \A i \in 1 .. m : c[i] = z
    <2>1. c \in Seq(S) /\ Len(c) = 1 + n
          /\ \A i \in 1 .. 1 + n : c[i] = IF i <= 1 THEN a[i] ELSE b[i - 1]
      <3>1. b \in Seq(S) /\ Len(b) = n
        BY <1>4
      <3>2. a \in Seq(S) /\ Len(a) = 1
        BY <1>5
      <3> HIDE DEF a, b
      <3>3. c \in Seq(S) /\ Len(c) = Len(a) + Len(b)
            /\ \A i \in 1 .. Len(a) + Len(b) :
                 c[i] = IF i <= Len(a) THEN a[i] ELSE b[i - Len(a)]
        BY <3>1, <3>2, ConcatProperties
      <3> HIDE DEF c
      <3> QED
        BY <3>1, <3>2, <3>3
    <2>2. b \in Seq(S) /\ (\A i \in 1 .. n : b[i] = z) /\ a[1] = z
      BY <1>4
    <2> HIDE DEF a, b, c
    <2>3. ASSUME NEW i \in 1 .. m PROVE c[i] = z
      <3>1. i \in 1 .. 1 + n
        OBVIOUS
      <3>2. c[i] = IF i <= 1 THEN a[i] ELSE b[i - 1]
        BY <2>1, <3>1
      <3>3. CASE i = 1
        BY <2>2, <3>2, <3>3
      <3>4. CASE i # 1
        <4>1. ~ (i <= 1) /\ i - 1 \in 1 .. n
          BY <3>4
        <4> QED
          BY <2>2, <3>2, <4>1
      <3> QED
        BY <3>3, <3>4
    <2> QED
      BY <2>1, <2>3
  <1>8. e \in Seq(S) /\ Len(e) = m /\ \A i \in 1 .. m : e[i] = z
    BY <1>3, <1>4
  <1> HIDE DEF c, e
  <1>9. e = c
    BY <1>7, <1>8, SeqEqual
  <1>10. s(n) \in Seq(S)
    BY <1>4
  <1> QED
    BY <1>2, <1>6, <1>9, <1>10, ZenonT(30) DEF z, S, a, b, c, e, m

\* Each moves the decoder on by 16 coefficients.
LEMMA SixteensRead ==
    ASSUME NEW bits, NEW ac, NEW t, ACCoder(bits, ac, t), NEW a, NEW B, NEW J \in Nat
    PROVE  \A k, p, q, m :
             /\ k \in Nat /\ k + 16 * J <= 63 /\ p \in Nat \ {0} /\ m \in Nat
             /\ Spells(bits, p, Sixteens(J, ac), q)
             /\ Leads(bits, t, a, [k |-> k, next |-> p, block |-> B], m)
             => Leads(bits, t, a, [k |-> k + 16 * J, next |-> q, block |-> B], m + J)
  <1> DEFINE st(k, p) == [k |-> k, next |-> p, block |-> B]
             Claim(j, k, p, q, m) ==
               /\ k \in Nat /\ k + 16 * j <= 63 /\ p \in Nat \ {0} /\ m \in Nat
               /\ Spells(bits, p, Sixteens(j, ac), q)
               /\ Leads(bits, t, a, st(k, p), m)
               => Leads(bits, t, a, st(k + 16 * j, q), m + j)
             Good == {j \in 0 .. J : \A k, p, q, m : Claim(j, k, p, q, m)}
  <1>1. ac \in [0 .. 255 -> BitStrings] /\ bits \in Bits
    BY DEF ACCoder
  <1>2. 0 \in Good
    <2>1. ASSUME NEW k \in Nat, NEW p \in Nat \ {0}, NEW q, NEW m \in Nat,
                 Spells(bits, p, Sixteens(0, ac), q),
                 Leads(bits, t, a, st(k, p), m)
          PROVE  Leads(bits, t, a, st(k + 16 * 0, q), m + 0)
      <3>1. Sixteens(0, ac) = <<>>
        <4>1. 0 \in Nat
          OBVIOUS
        <4> QED
          BY <1>1, <4>1, SixteensType
      <3>2. q = p
        BY <2>1, <3>1, SpellsNone
      <3>3. k + 16 * 0 = k /\ m + 0 = m
        OBVIOUS
      <3> QED
        BY <2>1, <3>2, <3>3
    <2>2. 0 \in 0 .. J
      OBVIOUS
    <2> QED
      BY <2>1, <2>2
  <1>3. ASSUME NEW j \in 0 .. J - 1, j \in Good PROVE j + 1 \in Good
    <2> DEFINE h == j + 1
    <2>1. j \in Nat /\ h \in 0 .. J
      OBVIOUS
    <2>2. /\ Sixteens(j, ac) \in Seq(BitStrings)
          /\ Sixteens(h, ac) = <<ac[240]>> \o Sixteens(j, ac)
      BY <1>1, <2>1, SixteensType, ZenonT(30)
    <2>3. ASSUME NEW k \in Nat, k + 16 * h <= 63, NEW p \in Nat \ {0}, NEW q,
                 NEW m \in Nat,
                 Spells(bits, p, Sixteens(h, ac), q),
                 Leads(bits, t, a, st(k, p), m)
          PROVE  Leads(bits, t, a, st(k + 16 * h, q), m + h)
      <3> DEFINE code == ac[240]
                 l == k + 16
                 n == m + 1
      <3>0. code \in BitStrings
        BY <1>1
      <3> HIDE DEF code
      <3>1. <<code>> \in Seq(BitStrings)
        BY <3>0
      <3>2. Spells(bits, p, <<code>> \o Sixteens(j, ac), q)
        BY <2>2, <2>3 DEF code
      <3>3. PICK r \in Nat \ {0} :
                /\ Spells(bits, p, <<code>>, r) /\ Spells(bits, r, Sixteens(j, ac), q)
        BY <1>1, <2>2, <3>1, <3>2, SpellsConcat
      <3>4. l \in Nat /\ l <= 63 /\ n \in Nat /\ l + 16 * j = k + 16 * h
            /\ l + 16 * j <= 63 /\ n + j = m + h
        BY <2>1, <2>3
      <3>5. ReadAC(bits, t, st(k, p)) = st(l, r)
        BY <3>3, <3>4, ReadSixteenZeros DEF code
      <3>6. Leads(bits, t, a, st(l, r), n)
        <4> DEFINE b == st(k, p)
        <4>1. Leads(bits, t, a, b, m)
          BY <2>3
        <4> HIDE DEF b
        <4>2. Leads(bits, t, a, ReadAC(bits, t, b), m + 1)
          BY <4>1, LeadsOn
        <4> QED
          BY <3>5, <4>2 DEF b
      <3>7. Claim(j, l, r, q, n)
        BY <1>3
      <3> HIDE DEF l, n, h, st
      <3>8. Leads(bits, t, a, st(l + 16 * j, q), n + j)
        BY <3>3, <3>4, <3>6, <3>7
      <3> QED
        BY <3>4, <3>8
    <2> HIDE DEF h, st
    <2>4. \A k, p, q, m : Claim(h, k, p, q, m)
      BY <2>3
    <2>5. h \in Good
      BY <2>1, <2>4
    <2> QED
      BY <2>5 DEF h
  <1>4. J \in Good
    <2> HIDE DEF Good
    <2>1. 0 \in Nat /\ J \in 0 .. J
      OBVIOUS
    <2>2. \A j \in 0 .. J : j \in Good
      BY <1>2, <1>3, <2>1, Induction
    <2> QED
      BY <2>1, <2>2
  <1> QED
    BY <1>4

\* A run of zeros and the coefficient behind it.
LEMMA RunRead ==
    ASSUME NEW bits, NEW ac, NEW t, ACCoder(bits, ac, t), NEW a, NEW B,
           NEW zeros \in 0 .. 62, NEW v \in Int, v # 0, Fits(v, 10),
           NEW k \in Nat, k + zeros <= 63, NEW p \in Nat \ {0}, NEW q, NEW m \in Nat,
           Spells(bits, p, CodeRun(zeros, v, ac), q),
           Leads(bits, t, a, [k |-> k, next |-> p, block |-> B], m)
    PROVE  Leads(bits, t, a,
                 [k |-> k + zeros + 1, next |-> q, block |-> With(B, k + zeros, v)],
                 m + zeros \div 16 + 1)
  <1> DEFINE J == zeros \div 16
             r == zeros % 16
             bs == GetBitCode(v)
             n == bs.length
             w == 16 * r + n
             code == ac[w]
             st(l, u, block) == [k |-> l, next |-> u, block |-> block]
  <1>1. J \in Nat /\ r \in 0 .. 15 /\ zeros = 16 * J + r
    OBVIOUS
  <1>2. Numeral(bs) /\ n \in 1 .. 10 /\ Extend(bs.value, n) = v
    <2> DEFINE ten == 10
    <2>1. ten \in 0 .. 15 /\ Fits(v, ten)
      OBVIOUS
    <2> HIDE DEF ten, bs
    <2>2. Numeral(bs) /\ bs.length \in 1 .. ten /\ Extend(bs.value, bs.length) = v
      BY <2>1, ExtendInverts DEF bs
    <2> QED
      BY <2>2 DEF ten
  <1>3. ac \in [0 .. 255 -> BitStrings] /\ bits \in Bits
    BY DEF ACCoder
  <1>4. CodeRun(zeros, v, ac) = Sixteens(J, ac) \o <<code, bs>>
    BY DEF CodeRun, Sixteens
  <1> HIDE DEF J, r, bs, n
  <1>5. Sixteens(J, ac) \in Seq(BitStrings)
    BY <1>1, <1>3, SixteensType
  <1>6. code \in BitStrings /\ bs \in BitStrings
    <2>1. w \in 0 .. 255
      BY <1>1, <1>2
    <2> HIDE DEF w
    <2> QED
      BY <1>2, <1>3, <2>1 DEF Numeral
  <1> HIDE DEF code, w
  <1>7. <<code, bs>> \in Seq(BitStrings)
    BY <1>6
  <1>8. PICK z \in Nat \ {0} : /\ Spells(bits, p, Sixteens(J, ac), z)
                               /\ Spells(bits, z, <<code, bs>>, q)
    <2>1. Spells(bits, p, Sixteens(J, ac) \o <<code, bs>>, q)
      BY <1>4
    <2> DEFINE s == Sixteens(J, ac)
               u == <<code, bs>>
    <2> HIDE DEF s, u
    <2>2. Spells(bits, p, s \o u, q) /\ s \in Seq(BitStrings) /\ u \in Seq(BitStrings)
      BY <1>5, <1>7, <2>1 DEF s, u
    <2>3. \E z \in Nat \ {0} : Spells(bits, p, s, z) /\ Spells(bits, z, u, q)
      BY <1>3, <2>2, SpellsConcat
    <2> QED
      BY <2>3 DEF s, u
  <1> DEFINE l == k + 16 * J
             i == m + J
  <1>9. l \in Nat /\ l + r <= 63 /\ l + r = k + zeros /\ i \in Nat /\ k + 16 * J <= 63
    BY <1>1
  <1>10. Leads(bits, t, a, st(l, z, B), i)
    BY <1>1, <1>8, <1>9, SixteensRead
  <1> HIDE DEF l, i
  <1> DEFINE e == k + zeros
  <1>11. ReadAC(bits, t, st(l, z, B)) = st(e + 1, q, With(B, e, v))
    <2>1. bs.length = n
      BY DEF n
    <2>2. Spells(bits, z, <<ac[w], bs>>, q)
      BY <1>8 DEF code
    <2>3. l \in Nat /\ e \in 0 .. 63 /\ e = l + r /\ z \in Nat \ {0}
      BY <1>8, <1>9
    <2>4. CoefficientAt(bits, ac, t, l, z, r, n, bs, e, q)
      BY <1>1, <1>2, <2>1, <2>2, <2>3 DEF CoefficientAt, w
    <2> HIDE DEF e
    <2>5. ReadAC(bits, t, [k |-> l, next |-> z, block |-> B])
            = [k |-> e + 1, next |-> q, block |-> With(B, e, Extend(bs.value, n))]
      BY <2>4, ReadCoefficient
    <2> QED
      BY <1>2, <2>5
  <1> DEFINE b == st(l, z, B)
  <1>12. Leads(bits, t, a, b, i)
    BY <1>10
  <1> HIDE DEF b
  <1>13. Leads(bits, t, a, ReadAC(bits, t, b), i + 1)
    BY <1>9, <1>12, LeadsOn
  <1>14. ReadAC(bits, t, b) = st(k + zeros + 1, q, With(B, k + zeros, v))
    BY <1>11 DEF b
  <1> QED
    BY <1>13, <1>14 DEF i, J

\* The coefficients of a block up to the k-th; the others 0.
UpTo(DU, k) == [i \in 0 .. 63 |-> IF i <= k THEN DU[i] ELSE 0]

\* One coefficient more.
LEMMA UpToStep ==
    ASSUME NEW DU, NEW k \in 1 .. 63
    PROVE  /\ With(UpTo(DU, k - 1), k, DU[k]) = UpTo(DU, k)
           /\ DU[k] = 0 => UpTo(DU, k) = UpTo(DU, k - 1)
  <1> DEFINE j == k - 1
             w == DU[k]
             A == UpTo(DU, j)
             B == UpTo(DU, k)
  <1>1. A = [i \in 0 .. 63 |-> IF i <= j THEN DU[i] ELSE 0]
    BY DEF UpTo
  <1>2. B = [i \in 0 .. 63 |-> IF i <= k THEN DU[i] ELSE 0]
    BY DEF UpTo
  <1>3. With(A, k, w) = [A EXCEPT ![k] = w]
    BY DEF With
  <1> HIDE DEF A, B
  <1>4. ASSUME NEW i \in 0 .. 63, i # k PROVE A[i] = B[i]
    <2>1. i <= j <=> i <= k
      BY <1>4
    <2> QED
      BY <1>1, <1>2, <2>1
  <1>5. B[k] = w /\ A[k] = 0
    <2>1. k \in 0 .. 63 /\ k <= k /\ ~ (k <= j)
      OBVIOUS
    <2> HIDE DEF j
    <2> QED
      BY <1>1, <1>2, <2>1
  <1>6. [A EXCEPT ![k] = w] = B
    <2>1. [A EXCEPT ![k] = w] = [i \in 0 .. 63 |-> IF i = k THEN w ELSE A[i]]
      BY <1>1
    <2>2. ASSUME NEW i \in 0 .. 63 PROVE (IF i = k THEN w ELSE A[i]) = B[i]
      BY <1>4, <1>5
    <2>3. B = [i \in 0 .. 63 |-> B[i]]
      BY <1>2
    <2> HIDE DEF w
    <2> QED
      BY <2>1, <2>2, <2>3
  <1>7. w = 0 => B = A
    <2>1. ASSUME w = 0, NEW i \in 0 .. 63 PROVE B[i] = A[i]
      BY <1>4, <1>5, <2>1
    <2>2. B = [i \in 0 .. 63 |-> B[i]] /\ A = [i \in 0 .. 63 |-> A[i]]
      BY <1>1, <1>2
    <2> HIDE DEF w
    <2> QED
      BY <2>1, <2>2
  <1> QED
    BY <1>3, <1>6, <1>7 DEF A, B

\* The codes of the AC coefficients, one after the other.
CodesOfAC(DU, ac) == [k \in 1 .. 63 |-> CodeAC(DU, k, ac)]

\* After the code of coefficient k the decoder knows the block up to k.
LEMMA ACsRead ==
    ASSUME NEW bits, NEW ac, NEW t, ACCoder(bits, ac, t), NEW DU, IsBlock(DU),
           NEW p \in Nat \ {0}, NEW q,
           Spells(bits, p, FlattenSeq(CodesOfAC(DU, ac)), q)
    PROVE  \E m \in 0 .. EndPos(DU, 63) :
              Leads(bits, t, FirstAC(p, DU[0]),
                    [k |-> EndPos(DU, 63) + 1, next |-> q, block |-> UpTo(DU, 63)], m)
  <1> DEFINE cs == CodesOfAC(DU, ac)
             a == FirstAC(p, DU[0])
             st(e, w, B) == [k |-> e, next |-> w, block |-> B]
             E(k) == EndPos(DU, k)
  <1>1. bits \in Bits /\ ac \in [0 .. 255 -> BitStrings]
    BY DEF ACCoder
  <1>2. cs \in Seq(Seq(BitStrings)) /\ Len(cs) = 63
        /\ \A k \in 1 .. 63 : cs[k] = CodeAC(DU, k, ac)
    <2> DEFINE T == Seq(BitStrings)
               n == 63
               s == [k \in 1 .. n |-> CodeAC(DU, k, ac)]
    <2>1. \A k \in 1 .. n : CodeAC(DU, k, ac) \in T
      BY <1>1, CodeACType
    <2>2. cs = s /\ n \in Nat
      BY DEF CodesOfAC
    <2> HIDE DEF T, n, cs
    <2>3. s \in [1 .. n -> T]
      BY <2>1
    <2>4. s \in Seq(T) /\ Len(s) = n
      BY <2>2, <2>3, FunctionIsSequence
    <2>5. \A k \in 1 .. n : s[k] = CodeAC(DU, k, ac)
      OBVIOUS
    <2> HIDE DEF s
    <2> QED
      BY <2>2, <2>4, <2>5 DEF T, n
  <1> HIDE DEF cs
  <1>3. PICK r : Pieces(bits, p, cs, q, r)
    <2>1. Spells(bits, p, FlattenSeq(cs), q)
      BY DEF cs
    <2> QED
      BY <1>1, <1>2, <2>1, SpellsPieces
  <1>4. /\ r[0] = p /\ r[63] = q
        /\ \A n \in 0 .. 63 : r[n] \in Nat \ {0}
        /\ \A n \in 1 .. 63 : Spells(bits, r[n - 1], CodeAC(DU, n, ac), r[n])
    <2> DEFINE l == Len(cs)
    <2>1. /\ r[0] = p /\ r[l] = q
          /\ \A n \in 0 .. l : r[n] \in Nat \ {0}
          /\ \A n \in 1 .. l : Spells(bits, r[n - 1], cs[n], r[n])
      BY <1>3 DEF Pieces
    <2>2. l = 63
      BY <1>2
    <2> HIDE DEF l
    <2>3. /\ r[0] = p /\ r[63] = q
          /\ \A n \in 0 .. 63 : r[n] \in Nat \ {0}
          /\ \A n \in 1 .. 63 : Spells(bits, r[n - 1], cs[n], r[n])
      BY <2>1, <2>2, ZenonT(30)
    <2>4. ASSUME NEW n \in 1 .. 63 PROVE Spells(bits, r[n - 1], CodeAC(DU, n, ac), r[n])
      <3>1. cs[n] = CodeAC(DU, n, ac)
        BY <1>2
      <3>2. Spells(bits, r[n - 1], cs[n], r[n])
        BY <2>3
      <3> QED
        BY <3>1, <3>2
    <2> QED
      BY <2>3, <2>4
  <1> DEFINE top == 63
             Known(k, m) == Leads(bits, t, a, st(E(k) + 1, r[k], UpTo(DU, k)), m)
             Good == {k \in 0 .. top : \E m \in 0 .. E(k) : Known(k, m)}
  <1>5. 0 \in Good
    <2>1. E(0) = 0
      <3>1. 0 \in 0 .. 63 /\ E(0) \in 0 .. 0
        BY EndPosIsLast
      <3> QED
        BY <3>1
    <2>2. UpTo(DU, 0) = [i \in 0 .. 63 |-> IF i = 0 THEN DU[0] ELSE 0]
      BY DEF UpTo
    <2>3. st(E(0) + 1, r[0], UpTo(DU, 0)) = a
      BY <1>4, <2>1, <2>2 DEF FirstAC
    <2> DEFINE f == [i \in {0} |-> a]
    <2>4. Leads(bits, t, a, a, 0)
      <3>1. f[0] = a /\ 1 .. 0 = {}
        OBVIOUS
      <3> HIDE DEF f, a
      <3> QED
        BY <3>1 DEF Leads
    <2> HIDE DEF a, st, E
    <2>5. Known(0, 0) /\ 0 \in 0 .. E(0)
      BY <2>1, <2>3, <2>4
    <2> QED
      BY <2>5
  <1> HIDE DEF a
  <1>6. ASSUME NEW k \in 0 .. top - 1, k \in Good PROVE k + 1 \in Good
    <2> DEFINE n == k + 1
               e == E(k)
               v == DU[n]
               B == UpTo(DU, k)
    <2>1. n \in 1 .. 63 /\ n - 1 = k /\ n \in 0 .. 63 /\ k \in 0 .. 63 /\ n \in 0 .. top
      OBVIOUS
    <2>2. PICK m \in 0 .. e : Leads(bits, t, a, st(e + 1, r[k], B), m)
      BY <1>6
    <2> HIDE DEF n, Good
    <2>3. e \in 0 .. k
      BY <2>1, EndPosIsLast
    <2>4. /\ v # 0 => E(n) = n
          /\ v = 0 => E(n) = e
      BY <2>1, EndPosStep
    <2>5. /\ With(B, n, v) = UpTo(DU, n)
          /\ v = 0 => UpTo(DU, n) = B
      BY <2>1, UpToStep
    <2>6. Spells(bits, r[k], CodeAC(DU, n, ac), r[n]) /\ r[k] \in Nat \ {0}
      BY <1>4, <2>1
    <2>7. CodeAC(DU, n, ac) = IF v = 0 THEN <<>> ELSE CodeRun(k - e, v, ac)
      BY <2>1 DEF CodeAC
    <2> HIDE DEF e, B
    <2>8. CASE v = 0
      <3>1. r[n] = r[k]
        BY <2>6, <2>7, <2>8, SpellsNone
      <3>2. E(n) = e /\ UpTo(DU, n) = B
        BY <2>4, <2>5, <2>8
      <3> HIDE DEF E, st
      <3>3. \E i \in 0 .. E(n) : Known(n, i)
        BY <2>2, <3>1, <3>2
      <3> QED
        BY <2>1, <3>3 DEF Good, n
    <2>9. CASE v # 0
      <3> DEFINE zeros == k - e
                 l == e + 1
                 i == m + zeros \div 16 + 1
      <3>1. zeros \in 0 .. 62 /\ l \in Nat /\ l + zeros = n /\ l + zeros <= 63 /\ m \in Nat
        BY <2>1, <2>3
      <3>2. v \in Int /\ Fits(v, 10)
        BY <2>1, BlockFits
      <3>3. Spells(bits, r[k], CodeRun(zeros, v, ac), r[n])
        BY <2>6, <2>7, <2>9
      <3>4. i \in 0 .. n
        <4>1. zeros \div 16 \in 0 .. zeros
          BY <3>1
        <4>2. m + zeros + 1 <= n
          BY <2>3, <3>1
        <4> QED
          BY <3>1, <4>1, <4>2
      <3>5. Leads(bits, t, a, [k |-> l, next |-> r[k], block |-> B], m)
        BY <2>2
      <3> HIDE DEF zeros, l, v
      <3>6. Leads(bits, t, a,
                  [k |-> l + zeros + 1, next |-> r[n], block |-> With(B, l + zeros, v)],
                  m + zeros \div 16 + 1)
        BY <2>6, <2>9, <3>1, <3>2, <3>3, <3>5, RunRead
      <3>7. Leads(bits, t, a, st(n + 1, r[n], UpTo(DU, n)), i)
        BY <2>5, <3>1, <3>6
      <3>8. E(n) = n
        BY <2>4, <2>9
      <3> HIDE DEF i, E, st
      <3>9. \E j \in 0 .. E(n) : Known(n, j)
        BY <3>4, <3>7, <3>8
      <3> QED
        BY <2>1, <3>9 DEF Good, n
    <2> QED
      BY <2>8, <2>9
  <1>7. top \in Good
    <2> HIDE DEF Good
    <2>1. 0 \in Nat /\ top \in Nat /\ top \in 0 .. top
      OBVIOUS
    <2> HIDE DEF top
    <2>2. \A k \in 0 .. top : k \in Good
      BY <1>5, <1>6, <2>1, Induction
    <2> QED
      BY <2>1, <2>2
  <1>8. \E m \in 0 .. E(63) : Leads(bits, t, a, st(E(63) + 1, r[63], UpTo(DU, 63)), m)
    BY <1>7
  <1> QED
    BY <1>4, <1>8 DEF a

\* The number in no bits is 0.
LEMMA NumberNone ==
    ASSUME NEW bits, NEW p
    PROVE  Number(bits, p, 0) = 0
  <1> DEFINE Step(c) == [i \in 1 .. 0 + 1 |->
                           IF i = 1 THEN 0 ELSE 2 * c[i - 1] + Bit(bits, p + i - 2)]
             number == CHOOSE c : c = Step(c)
             g == [i \in 1 .. 1 |-> 0]
  <1>1. Number(bits, p, 0) = number[0 + 1]
    BY DEF Number
  <1>2. g = Step(g)
    <2>1. \A i \in 1 .. 1 : i = 1
      OBVIOUS
    <2>2. 1 .. 0 + 1 = 1 .. 1
      OBVIOUS
    <2> QED
      BY <2>1, <2>2
  <1>3. number = Step(number)
    <2> HIDE DEF Step
    <2> QED
      BY <1>2
  <1> HIDE DEF number
  <1>4. number[1] = 0
    BY <1>3
  <1> QED
    BY <1>1, <1>4

\* The encoder's and the decoder's tables of one component, and bits.
BlockCoder(bits, dc, ac, dct, act) ==
    /\ ACCoder(bits, ac, act)
    /\ dc \in [0 .. 11 -> BitStrings] /\ Decodes(dc, dct, 0 .. 11)

\* The difference of the DC coefficients is read.
LEMMA DCRead ==
    ASSUME NEW bits, NEW dc, NEW ac, NEW dct, NEW act,
           BlockCoder(bits, dc, ac, dct, act),
           NEW diff \in Int, Fits(diff, 11), NEW p \in Nat \ {0}, NEW q,
           Spells(bits, p, CodeDC(diff, dc), q)
    PROVE  LET code == Symbol(bits, p, dct)
           IN  /\ code.value \in 0 .. 11 /\ code.next + code.value = q
               /\ Extend(Number(bits, code.next, code.value), code.value) = diff
  <1> DEFINE code == Symbol(bits, p, dct)
             bs == GetBitCode(diff)
             n == bs.length
  <1>1. bits \in Bits /\ dc \in [0 .. 11 -> BitStrings]
    BY DEF BlockCoder, ACCoder
  <1>2. ASSUME NEW v \in 0 .. 11, NEW z, Spells(bits, p, <<dc[v]>>, z)
        PROVE  code = [value |-> v, next |-> z]
    <2>1. dc[v] \in BitStrings
      BY <1>1
    <2>2. Stands(bits, p, BitsOf(dc[v])) /\ z = p + dc[v].length
      BY <1>1, <1>2, <2>1, SpellsOne
    <2> QED
      BY <1>1, <2>2 DEF BlockCoder, Decodes
  <1>3. CodeDC(diff, dc) = IF diff = 0 THEN <<dc[0]>> ELSE <<dc[n], bs>>
    BY DEF CodeDC
  <1> HIDE DEF code
  <1>4. CASE diff = 0
    <2>1. code = [value |-> 0, next |-> q]
      <3> DEFINE v == 0
      <3>1. Spells(bits, p, <<dc[v]>>, q) /\ v \in 0 .. 11
        BY <1>3, <1>4
      <3> HIDE DEF v
      <3>2. code = [value |-> v, next |-> q]
        BY <1>2, <3>1
      <3> QED
        BY <3>2 DEF v
    <2>2. code.value = 0 /\ code.next = q
      BY <2>1
    <2>3. q \in Nat
      BY DEF Spells
    <2>4. Number(bits, q, 0) = 0
      BY NumberNone
    <2>5. Extend(0, 0) = 0
      BY DEF Extend
    <2> QED
      BY <1>4, <2>2, <2>3, <2>4, <2>5 DEF code
  <1>5. CASE diff # 0
    <2>1. Numeral(bs) /\ n \in 1 .. 11 /\ Extend(bs.value, n) = diff
      <3> DEFINE eleven == 11
      <3>1. eleven \in 0 .. 15 /\ Fits(diff, eleven)
        OBVIOUS
      <3> HIDE DEF eleven, bs
      <3>2. Numeral(bs) /\ bs.length \in 1 .. eleven /\ Extend(bs.value, bs.length) = diff
        BY <1>5, <3>1, ExtendInverts DEF bs
      <3> QED
        BY <3>2 DEF eleven
    <2> HIDE DEF bs
    <2>2. bs \in BitStrings /\ n \in 0 .. 11
      BY <2>1 DEF Numeral
    <2>2a. dc[n] \in BitStrings
      BY <1>1, <2>2
    <2>3. PICK z \in Nat \ {0} : Spells(bits, p, <<dc[n]>>, z) /\ Spells(bits, z, <<bs>>, q)
      <3> DEFINE entry == dc[n]
      <3>1. <<entry>> \in Seq(BitStrings) /\ <<bs>> \in Seq(BitStrings)
        BY <2>2, <2>2a
      <3>2. <<entry, bs>> = <<entry>> \o <<bs>>
        OBVIOUS
      <3>3. Spells(bits, p, <<entry, bs>>, q)
        BY <1>3, <1>5
      <3> HIDE DEF entry
      <3>4. Spells(bits, p, <<entry>> \o <<bs>>, q)
        BY <3>2, <3>3
      <3>5. \E z \in Nat \ {0} : Spells(bits, p, <<entry>>, z) /\ Spells(bits, z, <<bs>>, q)
        BY <1>1, <3>1, <3>4, SpellsConcat
      <3> QED
        BY <3>5 DEF entry
    <2>4. code = [value |-> n, next |-> z]
      BY <1>2, <2>2, <2>3
    <2>5. Stands(bits, z, BitsOf(bs)) /\ q = z + n
      BY <1>1, <2>2, <2>3, SpellsOne
    <2>6. Number(bits, z, n) = bs.value
      BY <1>1, <2>1, <2>3, <2>5, NumeralRead
    <2>7. code.value = n /\ code.next = z
      BY <2>4
    <2> HIDE DEF n
    <2> QED
      BY <2>1, <2>2, <2>5, <2>6, <2>7 DEF code
  <1> QED
    BY <1>4, <1>5

\* What the encoder makes of a block, the decoder makes the block of.
LEMMA BlockRead ==
    ASSUME NEW bits, NEW dc, NEW ac, NEW dct, NEW act,
           BlockCoder(bits, dc, ac, dct, act),
           NEW DU, IsBlock(DU), NEW prev, IsDC(prev), NEW p \in Nat \ {0}, NEW q,
           Spells(bits, p, DoHuffmanEncoding(DU, prev, dc, ac), q)
    PROVE  DecodeBlock(bits, p, prev, dct, act) = [block |-> DU, next |-> q]
  <1> DEFINE diff == DU[0] - prev
             e == EndPos(DU, 63)
             first == CodeDC(diff, dc)
             acs == FlattenSeq([k \in 1 .. 63 |-> CodeAC(DU, k, ac)])
             end == CodeEnd(e, ac)
  <1>1. /\ bits \in Bits /\ ac \in [0 .. 255 -> BitStrings]
        /\ dc \in [0 .. 11 -> BitStrings] /\ ACCoder(bits, ac, act)
    BY DEF BlockCoder, ACCoder
  <1>2. diff \in Int /\ Fits(diff, 11) /\ prev + diff = DU[0]
    <2> DEFINE v == DU[0]
    <2>1. IsDC(v)
      BY DEF IsBlock, IsDC
    <2>2. v - prev \in Int /\ Fits(v - prev, 11)
      <3> HIDE DEF v
      <3> QED
        BY <2>1, DifferenceFits
    <2>3. v \in Int /\ prev \in Int
      BY <2>1 DEF IsDC
    <2> QED
      BY <2>2, <2>3
  <1>3. e \in 0 .. 63
    <2>1. 63 \in 0 .. 63
      OBVIOUS
    <2> QED
      BY <2>1, EndPosIsLast
  <1>4. first \in Seq(BitStrings) /\ acs \in Seq(BitStrings) /\ end \in Seq(BitStrings)
    <2>1. first \in Seq(BitStrings)
      BY <1>1, <1>2, CodeDCType
    <2>2. acs \in Seq(BitStrings)
      <3>1. ac \in [0 .. 255 -> BitStrings] /\ IsBlock(DU)
        BY <1>1
      <3>2. acs \in Seq(BitStrings) /\ Len(acs) <= 2 * e
        BY <3>1, CodeACsType, Zenon
      <3> QED
        BY <3>2
    <2>3. end \in Seq(BitStrings)
      BY <1>1 DEF CodeEnd
    <2> QED
      BY <2>1, <2>2, <2>3
  <1>5. Spells(bits, p, (first \o acs) \o end, q)
    BY DEF DoHuffmanEncoding
  <1> HIDE DEF first, acs, end
  <1>6. first \o acs \in Seq(BitStrings)
    BY <1>4, ConcatProperties
  <1>7. PICK s \in Nat \ {0} : Spells(bits, p, first \o acs, s) /\ Spells(bits, s, end, q)
    BY <1>1, <1>4, <1>5, <1>6, SpellsConcat
  <1>8. PICK r \in Nat \ {0} : Spells(bits, p, first, r) /\ Spells(bits, r, acs, s)
    BY <1>1, <1>4, <1>7, SpellsConcat
  <1> DEFINE code == Symbol(bits, p, dct)
  <1>9. /\ code.value \in 0 .. 11 /\ code.next + code.value = r
        /\ Extend(Number(bits, code.next, code.value), code.value) = diff
    <2>1. Spells(bits, p, CodeDC(diff, dc), r)
      BY <1>8 DEF first
    <2> HIDE DEF diff
    <2> QED
      BY <1>2, <2>1, DCRead
  <1> DEFINE st(k, w, B) == [k |-> k, next |-> w, block |-> B]
             a == FirstAC(r, DU[0])
  <1>10. PICK m \in 0 .. e : Leads(bits, act, a, st(e + 1, s, UpTo(DU, 63)), m)
    <2>1. Spells(bits, r, FlattenSeq(CodesOfAC(DU, ac)), s)
      BY <1>8 DEF acs, CodesOfAC
    <2>2. \E m \in 0 .. e : Leads(bits, act, a, st(e + 1, s, UpTo(DU, 63)), m)
      BY <1>1, <1>8, <2>1, ACsRead
    <2> QED
      BY <2>2
  <1>11. UpTo(DU, 63) = DU
    <2>1. DU = [i \in 0 .. 63 |-> DU[i]]
      BY DEF IsBlock
    <2>2. \A i \in 0 .. 63 : i <= 63
      OBVIOUS
    <2> QED
      BY <2>1, <2>2 DEF UpTo
  <1> HIDE DEF a, e
  <1>12. Leads(bits, act, a, st(64, q, DU), 63)
    <2> DEFINE last == st(64, q, DU)
    <2>1. last.k > 63
      OBVIOUS
    <2>2. \E i \in 0 .. 63 : Leads(bits, act, a, last, i)
      <3>1. CASE e = 63
        <4>1. end = <<>>
          BY <3>1 DEF end, CodeEnd
        <4>2. q = s
          BY <1>7, <4>1, SpellsNone
        <4>3. m \in 0 .. 63 /\ e + 1 = 64
          BY <1>3, <1>10, <3>1
        <4> QED
          BY <1>10, <1>11, <4>2, <4>3
      <3>2. CASE e # 63
        <4> DEFINE k == e + 1
                   b == st(k, s, DU)
                   i == m + 1
        <4>1. k \in 0 .. 63 /\ m \in Nat /\ i \in 0 .. 63
          BY <1>3, <1>10, <3>2
        <4>2. Spells(bits, s, <<ac[0]>>, q)
          BY <1>7, <3>2 DEF end, CodeEnd
        <4>3. Leads(bits, act, a, b, m)
          BY <1>10, <1>11
        <4>4. ReadAC(bits, act, b) = last
          <5> HIDE DEF k
          <5>1. k \in Nat /\ k <= 63 /\ s \in Nat \ {0} /\ ACCoder(bits, ac, act)
            BY <1>1, <1>7, <4>1
          <5>2. ReadAC(bits, act, [k |-> k, next |-> s, block |-> DU])
                  = [k |-> 64, next |-> q, block |-> DU]
            BY <4>2, <5>1, ReadEnd
          <5> QED
            BY <5>2
        <4> HIDE DEF b, last
        <4>5. Leads(bits, act, a, ReadAC(bits, act, b), m + 1)
          BY <4>1, <4>3, LeadsOn
        <4> QED
          BY <4>1, <4>4, <4>5
      <3> QED
        BY <3>1, <3>2
    <2> HIDE DEF last
    <2>3. Leads(bits, act, a, last, 63)
      BY <2>1, <2>2, LeadsStay
    <2> QED
      BY <2>3 DEF last
  <1>13. DecodeAC(bits, r, DU[0], act) = st(64, q, DU)
    <2>1. Leads(bits, act, FirstAC(r, DU[0]), st(64, q, DU), 63)
      BY <1>12 DEF a
    <2> QED
      BY <2>1, LeadsDecode
  <1>14. DecodeBlock(bits, p, prev, dct, act)
           = LET rest == DecodeAC(bits, code.next + code.value,
                                  prev + Extend(Number(bits, code.next, code.value),
                                                code.value), act)
             IN  IF code.value < 0 THEN [block |-> <<>>, next |-> 0]
                                   ELSE [block |-> rest.block, next |-> rest.next]
    BY DEF DecodeBlock
  <1> HIDE DEF code, diff
  <1>15. ~ (code.value < 0)
    BY <1>9
  <1>16. DecodeAC(bits, code.next + code.value,
                  prev + Extend(Number(bits, code.next, code.value), code.value), act)
           = st(64, q, DU)
    BY <1>2, <1>9, <1>13
  <1> QED
    BY <1>14, <1>15, <1>16

-----------------------------------------------------------------------------
(* The bits of the file *)

\* A byte as a bit string.
AsByte(b) == [length |-> 8, value |-> b]

\* The bits of coded data, as DataBits has them of the file.
DataOf(f) ==
    FlattenSeq([i \in DOMAIN f |->
                  IF i > 1 /\ f[i - 1] = 255 THEN <<>>
                  ELSE BitsOf([length |-> 8, value |-> f[i]])])

\* A byte gives bits.
LEMMA ByteIsBits ==
    ASSUME NEW b \in 0 .. 255
    PROVE  AsByte(b) \in BitStrings /\ BitsOf(AsByte(b)) \in Bits
  <1>1. AsByte(b) \in BitStrings
    BY DEF AsByte, BitStrings
  <1> QED
    BY <1>1, BitsOfType

\* One byte more: DataOf is flattened from one sequence more.
LEMMA DataAppend ==
    ASSUME NEW f \in Bytes, NEW b \in 0 .. 255
    PROVE  /\ DataOf(Append(f, b))
                = DataOf(f) \o (IF Len(f) > 0 /\ f[Len(f)] = 255
                                THEN <<>> ELSE BitsOf(AsByte(b)))
           /\ DataOf(f) \in Bits
  <1> DEFINE T == Seq({0, 1})
             piece(g, i) == IF i > 1 /\ g[i - 1] = 255 THEN <<>>
                            ELSE BitsOf([length |-> 8, value |-> g[i]])
             pieces(g) == [i \in DOMAIN g |-> piece(g, i)]
             n == Len(f)
             m == n + 1
             g == Append(f, b)
             last == IF n > 0 /\ f[n] = 255 THEN <<>> ELSE BitsOf(AsByte(b))
  <1>1. \A h : DataOf(h) = FlattenSeq(pieces(h))
    BY DEF DataOf
  <1>2. n \in Nat /\ DOMAIN f = 1 .. n /\ \A i \in 1 .. n : f[i] \in 0 .. 255
    BY LenProperties, ElementOfSeq DEF Bytes
  <1>3. /\ g \in Bytes /\ DOMAIN g = 1 .. m /\ g[m] = b
        /\ \A i \in 1 .. n : g[i] = f[i]
    <2>1. /\ g \in Seq(0 .. 255) /\ Len(g) = m /\ g[m] = b
          /\ \A i \in 1 .. n : g[i] = f[i]
      BY AppendProperties DEF Bytes
    <2> HIDE DEF g
    <2>2. DOMAIN g = 1 .. m
      BY <2>1, LenProperties
    <2> QED
      BY <2>1, <2>2 DEF Bytes
  <1> HIDE DEF g
  <1>4. \A c : c \in 0 .. 255 => BitsOf([length |-> 8, value |-> c]) \in T
    BY ByteIsBits DEF AsByte, Bits
  <1>5. <<>> \in T
    OBVIOUS
  <1> HIDE DEF T
  <1>6. \A i \in 1 .. n : piece(f, i) \in T
    BY <1>2, <1>4, <1>5
  <1>7. \A i \in 1 .. n : piece(g, i) = piece(f, i)
    <2>1. ASSUME NEW i \in 1 .. n PROVE piece(g, i) = piece(f, i)
      <3>1. i > 1 => i - 1 \in 1 .. n
        BY <1>2
      <3>2. g[i] = f[i] /\ (i > 1 => g[i - 1] = f[i - 1])
        BY <1>3, <3>1
      <3> QED
        BY <3>2
    <2> QED
      BY <2>1
  <1>8. piece(g, m) = last /\ last \in T
    <2>1. m > 1 <=> n > 0
      BY <1>2
    <2>2. m - 1 = n /\ g[m] = b
      BY <1>2, <1>3
    <2>3. n > 0 => g[n] = f[n]
      BY <1>2, <1>3
    <2>4. (m > 1 /\ g[m - 1] = 255) <=> (n > 0 /\ f[n] = 255)
      BY <2>1, <2>2, <2>3
    <2>5. b \in 0 .. 255
      OBVIOUS
    <2>6. BitsOf([length |-> 8, value |-> g[m]]) = BitsOf(AsByte(b))
      BY <2>2 DEF AsByte
    <2>7. BitsOf(AsByte(b)) \in T
      BY <1>4, <2>5 DEF AsByte
    <2> HIDE DEF m, n
    <2> QED
      BY <1>5, <2>4, <2>6, <2>7
  <1> DEFINE s == pieces(f)
             t == pieces(g)
             fs == [i \in 1 .. n |-> piece(f, i)]
             ts == [i \in 1 .. m |-> piece(g, i)]
  <1>9. s = fs /\ t = ts
    BY <1>2, <1>3
  <1>10. fs \in [1 .. n -> T] /\ \A i \in 1 .. n : fs[i] = piece(f, i)
    BY <1>6
  <1>11. DOMAIN ts = 1 .. m /\ \A i \in 1 .. m : ts[i] = piece(g, i)
    OBVIOUS
  <1>11a. ts = [i \in 1 .. m |-> ts[i]]
    OBVIOUS
  <1> HIDE DEF piece, last, pieces, fs, ts, s, t
  <1>12. fs \in Seq(T)
    BY <1>2, <1>10, FunctionIsSequence
  <1>13. ts = Append(fs, last)
    <2> DEFINE w == Append(fs, last)
    <2>0. Len(fs) = n
      <3>1. DOMAIN fs = 1 .. n
        BY <1>10
      <3>2. DOMAIN fs = 1 .. Len(fs) /\ Len(fs) \in Nat
        BY <1>12, LenProperties
      <3> QED
        BY <1>2, <3>1, <3>2
    <2>1. w \in Seq(T) /\ Len(w) = m /\ w[m] = last /\ \A i \in 1 .. n : w[i] = fs[i]
      BY <1>8, <1>12, <2>0, AppendProperties
    <2> HIDE DEF w
    <2>2. ASSUME NEW i \in 1 .. m PROVE ts[i] = w[i]
      <3>1. CASE i = m
        BY <1>8, <1>11, <2>1, <3>1
      <3>2. CASE i # m
        <4>1. i \in 1 .. n
          BY <1>2, <3>2
        <4> QED
          BY <1>7, <1>10, <1>11, <2>1, <4>1
      <3> QED
        BY <3>1, <3>2
    <2>3. \A i \in 1 .. m : w[i] \in T
      BY <2>1, ElementOfSeq
    <2>4. m \in Nat
      BY <1>2
    <2>5. ts \in Seq(T)
      <3>1. ts \in [1 .. m -> T]
        BY <1>11a, <2>2, <2>3
      <3> QED
        BY <2>4, <3>1, FunctionIsSequence
    <2>6. Len(ts) = m
      <3>1. DOMAIN ts = 1 .. Len(ts) /\ Len(ts) \in Nat
        BY <2>5, LenProperties
      <3> HIDE DEF m
      <3> QED
        BY <1>11, <2>4, <3>1
    <2>7. ts = w
      BY <2>1, <2>2, <2>5, <2>6, SeqEqual
    <2> QED
      BY <2>7 DEF w
  <1>14. FlattenSeq(Append(fs, last)) = FlattenSeq(fs) \o last
    BY <1>8, <1>12, FlattenAppend DEF T
  <1>15. FlattenSeq(fs) \in T
    <2>1. <<>> \in Seq(T)
      OBVIOUS
    <2> QED
      BY <1>12, <2>1, FlattenConcat DEF T
  <1>16. DataOf(f) = FlattenSeq(fs) /\ DataOf(g) = FlattenSeq(ts)
    BY <1>1, <1>9 DEF s, t
  <1> QED
    BY <1>13, <1>14, <1>15, <1>16 DEF g, last, T, Bits

\* A byte that is written, with its zero if it needs one, contributes its bits.
LEMMA DataStuffed ==
    ASSUME NEW f \in CodedData, NEW b \in 0 .. 255
    PROVE  DataOf(f \o Stuffed(b)) = DataOf(f) \o BitsOf(AsByte(b))
  <1> DEFINE n == Len(f)
             g == Append(f, b)
             d == BitsOf(AsByte(b))
  <1>1. f \in Bytes /\ n \in Nat
    BY LenProperties DEF CodedData, Bytes
  <1>2. ~ (n > 0 /\ f[n] = 255)
    <2>1. n > 0 => n \in 1 .. n
      BY <1>1
    <2>2. \A i \in 1 .. n : f[i] = 255 => i < n
      BY DEF CodedData, NoMarker
    <2> HIDE DEF n
    <2> QED
      BY <1>1, <2>1, <2>2
  <1>3. DataOf(g) = DataOf(f) \o d
    BY <1>1, <1>2, DataAppend
  <1>4. /\ g \in Seq(0 .. 255) /\ Len(g) = n + 1 /\ g[n + 1] = b
        /\ g = f \o <<b>>
    <2> DEFINE S == 0 .. 255
    <2>1. f \in Seq(S) /\ b \in S
      BY <1>1 DEF Bytes
    <2> HIDE DEF S
    <2>2. g \in Seq(S) /\ Len(g) = n + 1 /\ g[n + 1] = b
      BY <2>1, AppendProperties
    <2>3. g = f \o <<b>>
      BY <2>1, AppendIsConcat
    <2> QED
      BY <2>2, <2>3 DEF S
  <1>5. CASE b # 255
    BY <1>3, <1>4, <1>5 DEF Stuffed
  <1>6. CASE b = 255
    <2> DEFINE h == Append(g, 0)
               z == 0
    <2> HIDE DEF g
    <2>1. h = g \o <<0>>
      <3>1. z \in 0 .. 255
        OBVIOUS
      <3>2. Append(g, z) = g \o <<z>>
        <4> HIDE DEF z
        <4> QED
          BY <1>4, <3>1, AppendIsConcat
      <3> QED
        BY <3>2
    <2>2. h = f \o Stuffed(b)
      <3>1. <<b>> \in Seq(0 .. 255) /\ <<0>> \in Seq(0 .. 255)
        OBVIOUS
      <3>2. f \in Seq(0 .. 255)
        BY <1>1 DEF Bytes
      <3>3. (f \o <<b>>) \o <<0>> = f \o (<<b>> \o <<0>>)
        BY <3>1, <3>2, ConcatAssociative
      <3>4. <<b>> \o <<0>> = Stuffed(b)
        <4> DEFINE S == 0 .. 255
                   u == <<b>>
                   w == <<b, 0>>
                   c == u \o <<0>>
        <4>1. u \in Seq(S) /\ w \in Seq(S) /\ z \in S
          OBVIOUS
        <4>2. u[1] = b /\ Len(u) = 1 /\ w[1] = b /\ w[2] = 0 /\ Len(w) = 2
          OBVIOUS
        <4>3. c = Append(u, z)
          <5>1. Append(u, z) = u \o <<z>>
            <6> HIDE DEF u, z, S
            <6> QED
              BY <4>1, AppendIsConcat
          <5> QED
            BY <5>1
        <4> HIDE DEF u, w, c, S
        <4>4. c \in Seq(S) /\ Len(c) = 2 /\ c[1] = b /\ c[2] = z
          <5>1. /\ Append(u, z) \in Seq(S) /\ Len(Append(u, z)) = Len(u) + 1
                /\ \A i \in 1 .. Len(u) : Append(u, z)[i] = u[i]
                /\ Append(u, z)[Len(u) + 1] = z
            <6> HIDE DEF z
            <6> QED
              BY <4>1, AppendProperties
          <5> QED
            BY <4>2, <4>3, <5>1
        <4>5. ASSUME NEW i \in 1 .. 2 PROVE c[i] = w[i]
          <5>1. i = 1 \/ i = 2
            OBVIOUS
          <5> QED
            BY <4>2, <4>4, <5>1
        <4>6. c = w
          BY <4>1, <4>2, <4>4, <4>5, SeqEqual
        <4> QED
          BY <1>6, <4>6 DEF Stuffed, c, w, u
      <3> QED
        BY <1>4, <2>1, <3>3, <3>4
    <2>3. DataOf(h) = DataOf(g) \o <<>>
      <3>1. g \in Bytes /\ z \in 0 .. 255
        BY <1>4 DEF Bytes
      <3>2. Len(g) > 0 /\ g[Len(g)] = 255
        BY <1>1, <1>4, <1>6
      <3>3. DataOf(Append(g, z))
              = DataOf(g) \o (IF Len(g) > 0 /\ g[Len(g)] = 255
                              THEN <<>> ELSE BitsOf(AsByte(z)))
        <4> HIDE DEF z
        <4> QED
          BY <3>1, DataAppend
      <3> QED
        BY <3>2, <3>3
    <2>4. DataOf(g) \o <<>> = DataOf(g)
      <3>1. DataOf(g) \in Bits
        <4>1. g \in Bytes
          BY <1>4 DEF Bytes
        <4> QED
          BY <4>1, DataAppend
      <3> QED
        BY <3>1, ConcatEmptySeq DEF Bits
    <2> QED
      BY <1>3, <2>2, <2>3, <2>4
  <1> QED
    BY <1>5, <1>6

\* The bits of the byte made of eight bits are those bits.
LEMMA ByteOfBits ==
    ASSUME NEW s \in Bits, Len(s) = 8
    PROVE  BitsOf(AsByte(ByteOf(s))) = s
  <1> DEFINE v == ByteOf(s)
             t == BitsOf(AsByte(v))
             e(i) == (v \div 2 ^ (8 - i)) % 2
  <1>1. s \in Seq({0, 1}) /\ s = [i \in 1 .. 8 |-> s[i]]
    <2>1. s \in Seq({0, 1})
      BY DEF Bits
    <2>2. s \in [1 .. Len(s) -> {0, 1}]
      BY <2>1, LenProperties
    <2> QED
      BY <2>1, <2>2
  <1>2. /\ s[1] \in {0, 1} /\ s[2] \in {0, 1} /\ s[3] \in {0, 1} /\ s[4] \in {0, 1}
        /\ s[5] \in {0, 1} /\ s[6] \in {0, 1} /\ s[7] \in {0, 1} /\ s[8] \in {0, 1}
    BY <1>1, ElementOfSeq
  <1>3. t = [i \in 1 .. 8 |-> e(i)]
    BY DEF BitsOf, AsByte
  <1>4. v = s[1] * 128 + s[2] * 64 + s[3] * 32 + s[4] * 16
              + s[5] * 8 + s[6] * 4 + s[7] * 2 + s[8]
    BY DEF ByteOf
  <1> HIDE DEF v, t
  <1>5. /\ (v \div 128) % 2 = s[1] /\ (v \div 64) % 2 = s[2]
        /\ (v \div 32) % 2 = s[3] /\ (v \div 16) % 2 = s[4]
        /\ (v \div 8) % 2 = s[5] /\ (v \div 4) % 2 = s[6]
        /\ (v \div 2) % 2 = s[7] /\ (v \div 1) % 2 = s[8]
    <2> DEFINE a == s[1]
               b == s[2]
               c == s[3]
               d == s[4]
               f == s[5]
               g == s[6]
               h == s[7]
               k == s[8]
    <2>1. /\ a \in 0 .. 1 /\ b \in 0 .. 1 /\ c \in 0 .. 1 /\ d \in 0 .. 1
          /\ f \in 0 .. 1 /\ g \in 0 .. 1 /\ h \in 0 .. 1 /\ k \in 0 .. 1
      BY <1>2
    <2>2. v = a * 128 + b * 64 + c * 32 + d * 16 + f * 8 + g * 4 + h * 2 + k
      BY <1>4
    <2> HIDE DEF a, b, c, d, f, g, h, k
    <2>3. (v \div 128) % 2 = a /\ (v \div 64) % 2 = b
      BY <2>1, <2>2
    <2>4. (v \div 32) % 2 = c /\ (v \div 16) % 2 = d
      BY <2>1, <2>2
    <2>5. (v \div 8) % 2 = f /\ (v \div 4) % 2 = g
      BY <2>1, <2>2
    <2>6. (v \div 2) % 2 = h /\ (v \div 1) % 2 = k
      BY <2>1, <2>2
    <2> QED
      BY <2>3, <2>4, <2>5, <2>6 DEF a, b, c, d, f, g, h, k
  <1>6. /\ 2 ^ (8 - 1) = 128 /\ 2 ^ (8 - 2) = 64 /\ 2 ^ (8 - 3) = 32
        /\ 2 ^ (8 - 4) = 16 /\ 2 ^ (8 - 5) = 8 /\ 2 ^ (8 - 6) = 4
        /\ 2 ^ (8 - 7) = 2 /\ 2 ^ (8 - 8) = 1
    OBVIOUS
  <1>7. /\ e(1) = s[1] /\ e(2) = s[2] /\ e(3) = s[3] /\ e(4) = s[4]
        /\ e(5) = s[5] /\ e(6) = s[6] /\ e(7) = s[7] /\ e(8) = s[8]
    BY <1>5, <1>6
  <1>8. ASSUME NEW i \in 1 .. 8 PROVE e(i) = s[i]
    <2>1. i = 1 \/ i = 2 \/ i = 3 \/ i = 4 \/ i = 5 \/ i = 6 \/ i = 7 \/ i = 8
      OBVIOUS
    <2> HIDE DEF e
    <2> QED
      BY <1>7, <2>1, Zenon
  <1> HIDE DEF e
  <1>9. t = s
    BY <1>1, <1>3, <1>8
  <1> QED
    BY <1>9 DEF t, v

\* What has been coded up to now: the bits of the file, and those kept back.
Stream == DataOf(file) \o acc

\* Writing bit strings puts their bits at the end.
LEMMA StreamGrows ==
    ASSUME acc \in Bits, file \in CodedData, NEW bs \in Seq(BitStrings)
    PROVE  LET out == WriteBitString(bs)
           IN  DataOf(file \o out.bytes) \o out.acc = Stream \o Encoded(bs)
  <1> DEFINE new == FlattenSeq([n \in DOMAIN bs |-> BitsOf(bs[n])])
             bits == acc \o new
             piece(n) == SubSeq(bits, 8 * n - 7, 8 * n)
             F == Full(bits)
             L == Len(bits)
             rest == SubSeq(bits, 8 * F + 1, L)
             G(m) == FlattenSeq([n \in 1 .. m |-> Stuffed(ByteOf(piece(n)))])
             data == DataOf(file)
             T == {0, 1}
  <1>1. WriteBitString(bs) = [acc |-> rest, bytes |-> G(F)]
    BY DEF WriteBitString
  <1>2. Encoded(bs) = new /\ new \in Bits
    <2>1. Encoded(bs) = new
      BY DEF Encoded
    <2>2. Encoded(bs) \in Bits
      BY EncodedConcat
    <2> QED
      BY <2>1, <2>2
  <1>3. data \in Seq(T)
    <2>1. file \in Bytes /\ 0 \in 0 .. 255
      BY DEF CodedData
    <2> QED
      BY <2>1, DataAppend DEF Bits
  <1> HIDE DEF new, data
  <1>4. bits \in Seq(T) /\ acc \in Seq(T) /\ new \in Seq(T)
    BY <1>2, ConcatProperties DEF Bits
  <1>5. Stream \o Encoded(bs) = data \o bits
    <2>1. (data \o acc) \o new = data \o (acc \o new)
      BY <1>3, <1>4, ConcatAssociative, SMTT(30)
    <2> QED
      BY <1>2, <2>1 DEF Stream, data
  <1> HIDE DEF bits
  <1>6. L \in Nat
    BY <1>4, LenProperties
  <1>7. F = L \div 8
    BY DEF Full
  <1> HIDE DEF L, F
  <1>8. F \in Nat /\ 8 * F <= L
    BY <1>6, <1>7
  <1>9. ASSUME NEW n \in 1 .. F
        PROVE  /\ ByteOf(piece(n)) \in 0 .. 255
               /\ BitsOf(AsByte(ByteOf(piece(n)))) = piece(n)
    <2>1. piece(n) \in Seq(T) /\ Len(piece(n)) = 8
      BY <1>4, <1>6, <1>8, SubSeqProperties DEF L
    <2> HIDE DEF piece
    <2>2. piece(n) \in Bits
      BY <2>1 DEF Bits
    <2> QED
      BY <2>1, <2>2, ByteOfType, ByteOfBits
  <1> DEFINE byte(n) == ByteOf(piece(n))
             S(m) == [n \in 1 .. m |-> Stuffed(byte(n))]
             Good == {m \in 0 .. F : /\ G(m) \in CodedData
                                     /\ DataOf(file \o G(m))
                                          = data \o SubSeq(bits, 1, 8 * m)}
  <1>10. 0 \in Good
    <2>1. G(0) = <<>>
      <3>1. S(0) = <<>>
        OBVIOUS
      <3> QED
        BY <3>1, FlattenNothing
    <2>2. SubSeq(bits, 1, 8 * 0) = <<>>
      <3> DEFINE z == 8 * 0
      <3>1. 1 \in Int /\ z \in Int /\ z < 1
        OBVIOUS
      <3> HIDE DEF z
      <3>2. SubSeq(bits, 1, z) = <<>>
        BY <3>1, SubSeqEmpty
      <3> QED
        BY <3>2 DEF z
    <2>3. file \o <<>> = file
      <3>1. file \in Seq(0 .. 255)
        BY DEF CodedData, Bytes
      <3> QED
        BY <3>1, ConcatEmptySeq
    <2>4. data \o <<>> = data
      BY <1>3, ConcatEmptySeq
    <2>5. 0 \in 0 .. F
      BY <1>8
    <2>6. <<>> \in CodedData
      BY EmptyIsCoded
    <2> DEFINE g == G(0)
               b == SubSeq(bits, 1, 8 * 0)
    <2>7. g \in CodedData /\ DataOf(file \o g) = data \o b
      <3>1. g = <<>> /\ b = <<>>
        BY <2>1, <2>2
      <3> HIDE DEF g, b
      <3> QED
        BY <2>3, <2>4, <2>6, <3>1 DEF data
    <2> HIDE DEF G
    <2> QED
      BY <2>5, <2>7
  <1>11. ASSUME NEW m \in 0 .. F - 1, m \in Good PROVE m + 1 \in Good
    <2> DEFINE n == m + 1
               b == byte(n)
               sm == S(m)
               sn == S(n)
               gm == G(m)
               gn == G(n)
               before == SubSeq(bits, 1, 8 * m)
               this == piece(n)
    <2>1. n \in 1 .. F /\ m \in Nat /\ n \in 0 .. F
      BY <1>8
    <2>2. b \in 0 .. 255 /\ BitsOf(AsByte(b)) = this
      BY <1>9, <2>1
    <2>3. gm \in CodedData /\ DataOf(file \o gm) = data \o before
      BY <1>11
    <2>4. gn = gm \o Stuffed(b)
      <3> DEFINE A == Seq(0 .. 255)
      <3>1. \A i \in 1 .. n : Stuffed(byte(i)) \in A
        <4>1. ASSUME NEW i \in 1 .. n PROVE Stuffed(byte(i)) \in A
          <5>0. i \in 1 .. F
            BY <1>8, <2>1
          <5>1. byte(i) \in 0 .. 255
            BY <1>9, <5>0
          <5> HIDE DEF byte
          <5>2. Stuffed(byte(i)) \in CodedData
            BY <5>1, StuffedIsCoded
          <5> QED
            BY <5>2 DEF CodedData, Bytes
        <4> QED
          BY <4>1
      <3> DEFINE e(i) == Stuffed(byte(i))
                 last == e(n)
                 w == Append(sm, last)
      <3>1a. last = Stuffed(b)
        OBVIOUS
      <3> HIDE DEF e, A, b
      <3>2. sm = [i \in 1 .. m |-> e(i)] /\ sn = [i \in 1 .. n |-> e(i)]
        BY DEF e
      <3>3. \A i \in 1 .. n : e(i) \in A
        BY <3>1 DEF e
      <3> HIDE DEF byte, sm, sn
      <3>4. sm \in Seq(A) /\ Len(sm) = m /\ \A i \in 1 .. m : sm[i] = e(i)
        <4>1. sm \in [1 .. m -> A]
          BY <2>1, <3>2, <3>3
        <4>2. sm \in Seq(A)
          BY <2>1, <4>1, FunctionIsSequence
        <4>3. DOMAIN sm = 1 .. Len(sm) /\ Len(sm) \in Nat
          BY <4>2, LenProperties
        <4>4. DOMAIN sm = 1 .. m
          BY <3>2
        <4> QED
          BY <2>1, <3>2, <4>2, <4>3, <4>4
      <3>5. sn \in Seq(A) /\ Len(sn) = n /\ \A i \in 1 .. n : sn[i] = e(i)
        <4> HIDE DEF n
        <4>0. n \in Nat
          BY <2>1
        <4>1. sn \in [1 .. n -> A]
          BY <3>2, <3>3
        <4>2. sn \in Seq(A)
          BY <4>0, <4>1, FunctionIsSequence
        <4>3. DOMAIN sn = 1 .. Len(sn) /\ Len(sn) \in Nat
          BY <4>2, LenProperties
        <4>4. DOMAIN sn = 1 .. n
          BY <3>2
        <4> QED
          BY <3>2, <4>0, <4>2, <4>3, <4>4
      <3>6. last \in A
        <4>1. n \in 1 .. n
          BY <2>1
        <4> HIDE DEF n
        <4> QED
          BY <3>3, <4>1
      <3> HIDE DEF last
      <3>7. w \in Seq(A) /\ Len(w) = n /\ w[n] = last /\ \A i \in 1 .. m : w[i] = sm[i]
        BY <3>4, <3>6, AppendProperties
      <3> HIDE DEF w
      <3>8. ASSUME NEW i \in 1 .. n PROVE sn[i] = w[i]
        <4>1. CASE i = n
          BY <3>5, <3>7, <4>1 DEF last
        <4>2. CASE i # n
          <5>1. i \in 1 .. m
            BY <2>1, <4>2
          <5> QED
            BY <3>4, <3>5, <3>7, <5>1
        <4> QED
          BY <4>1, <4>2
      <3>9. sn = w
        BY <3>5, <3>7, <3>8, SeqEqual
      <3>10. FlattenSeq(w) = FlattenSeq(sm) \o last
        BY <3>4, <3>6, FlattenAppend DEF A, w
      <3>11. gm = FlattenSeq(sm) /\ gn = FlattenSeq(sn)
        BY DEF sm, sn, byte
      <3> QED
        BY <3>1a, <3>9, <3>10, <3>11
    <2> HIDE DEF G, b, gm, gn
    <2>5. Stuffed(b) \in CodedData
      BY <2>2, StuffedIsCoded
    <2>6. gn \in CodedData
      BY <2>3, <2>4, <2>5, CodedDataClosed
    <2>7. file \o gn = (file \o gm) \o Stuffed(b)
      <3>1. /\ file \in Seq(0 .. 255) /\ gm \in Seq(0 .. 255)
            /\ Stuffed(b) \in Seq(0 .. 255)
        BY <2>3, <2>5 DEF CodedData, Bytes
      <3> DEFINE coded == Stuffed(b)
                 D == 0 .. 255
      <3>2. /\ gn = gm \o coded
            /\ file \in Seq(D) /\ gm \in Seq(D) /\ coded \in Seq(D)
        BY <2>4, <3>1
      <3> HIDE DEF coded, D
      <3>3. file \o (gm \o coded) = (file \o gm) \o coded
        BY <3>2, ConcatAssociative, SMTT(30)
      <3> QED
        BY <3>2, <3>3 DEF coded
    <2>8. DataOf(file \o gn) = (data \o before) \o this
      <3>1. file \o gm \in CodedData
        BY <2>3, CodedDataClosed
      <3> DEFINE f == file \o gm
      <3>2. DataOf(f \o Stuffed(b)) = DataOf(f) \o BitsOf(AsByte(b))
        <4> HIDE DEF f
        <4> QED
          BY <2>2, <3>1, DataStuffed DEF f
      <3> QED
        BY <2>2, <2>3, <2>7, <3>2
    <2>9. before \o this = SubSeq(bits, 1, 8 * n)
      <3> DEFINE i == 8 * m
                 j == 8 * n
      <3>1. /\ 1 \in 1 .. L + 1 /\ i \in 1 - 1 .. L /\ j \in i .. L
            /\ i + 1 = 8 * n - 7
        BY <1>6, <1>8, <2>1
      <3>2. this = SubSeq(bits, i + 1, j)
        BY <3>1
      <3> HIDE DEF i, j, this
      <3> DEFINE one == 1
      <3>3. one \in 1 .. L + 1 /\ i \in one - 1 .. L
        BY <3>1
      <3> HIDE DEF one
      <3>4. SubSeq(bits, one, i) \o SubSeq(bits, i + 1, j) = SubSeq(bits, one, j)
        BY <1>4, <3>1, <3>3, ConcatAdjacentSubSeq DEF L
      <3> QED
        BY <3>2, <3>4 DEF one, i, j
    <2>10. before \in Seq(T) /\ this \in Seq(T)
      <3>1. \A i \in 1 .. L : bits[i] \in T
        BY <1>4, ElementOfSeq DEF L
      <3>2. before \in Seq(T)
        <4> DEFINE one == 1
                   i == 8 * m
        <4>1. one \in Int /\ i \in Int /\ \A k \in one .. i : bits[k] \in T
          BY <1>6, <1>8, <2>1, <3>1
        <4> HIDE DEF one, i
        <4>2. SubSeq(bits, one, i) \in Seq(T)
          BY <4>1, SubSeqProperties
        <4> QED
          BY <4>2 DEF one, i
      <3>3. this \in Seq(T)
        <4> DEFINE i == 8 * n - 7
                   j == 8 * n
        <4>1. i \in Int /\ j \in Int /\ \A k \in i .. j : bits[k] \in T
          BY <1>6, <1>8, <2>1, <3>1
        <4> HIDE DEF i, j
        <4>2. SubSeq(bits, i, j) \in Seq(T)
          BY <4>1, SubSeqProperties
        <4> QED
          BY <4>2 DEF i, j
      <3> QED
        BY <3>2, <3>3
    <2> HIDE DEF before, this
    <2>11. (data \o before) \o this = data \o (before \o this)
      BY <1>3, <2>10, ConcatAssociative, SMTT(30)
    <2> HIDE DEF n
    <2>12. DataOf(file \o G(n)) = data \o SubSeq(bits, 1, 8 * n) /\ G(n) \in CodedData
      BY <2>6, <2>8, <2>9, <2>11 DEF gn
    <2>13. n \in Good
      BY <2>1, <2>12
    <2> QED
      BY <2>13 DEF n
  <1>12. F \in Good
    <2> HIDE DEF Good
    <2>1. 0 \in Nat /\ F \in 0 .. F
      BY <1>8
    <2>2. \A m \in 0 .. F : m \in Good
      BY <1>8, <1>10, <1>11, <2>1, Induction
    <2> QED
      BY <2>1, <2>2
  <1>13. DataOf(file \o G(F)) = data \o SubSeq(bits, 1, 8 * F)
    BY <1>12
  <1> HIDE DEF G, Good
  <1> DEFINE whole == SubSeq(bits, 1, 8 * F)
  <1>14. whole \o rest = bits
    <2> DEFINE one == 1
               i == 8 * F
    <2>1. one \in 1 .. L + 1 /\ i \in one - 1 .. L /\ L \in i .. L
      BY <1>6, <1>8
    <2>2. whole = SubSeq(bits, one, i) /\ rest = SubSeq(bits, i + 1, L)
      OBVIOUS
    <2>3. SubSeq(bits, 1, L) = bits
      BY <1>4, SubSeqFull DEF L
    <2>3a. SubSeq(bits, one, L) = bits
      BY <2>3
    <2> HIDE DEF one, i, whole, rest
    <2>4. SubSeq(bits, one, i) \o SubSeq(bits, i + 1, L) = SubSeq(bits, one, L)
      BY <1>4, <2>1, ConcatAdjacentSubSeq DEF L
    <2> QED
      BY <2>2, <2>3a, <2>4
  <1>15. whole \in Seq(T) /\ rest \in Seq(T)
    <2>1. \A i \in 1 .. L : bits[i] \in T
      BY <1>4, ElementOfSeq DEF L
    <2>2. whole \in Seq(T)
      <3> DEFINE one == 1
                 i == 8 * F
      <3>1. one \in Int /\ i \in Int /\ \A k \in one .. i : bits[k] \in T
        BY <1>6, <1>8, <2>1
      <3> HIDE DEF one, i
      <3>2. SubSeq(bits, one, i) \in Seq(T)
        BY <3>1, SubSeqProperties
      <3> QED
        BY <3>2 DEF one, i
    <2>3. rest \in Seq(T)
      <3> DEFINE i == 8 * F + 1
      <3>1. i \in Int /\ L \in Int /\ \A k \in i .. L : bits[k] \in T
        BY <1>6, <1>8, <2>1
      <3> HIDE DEF i
      <3>2. SubSeq(bits, i, L) \in Seq(T)
        BY <3>1, SubSeqProperties
      <3> QED
        BY <3>2 DEF i
    <2> QED
      BY <2>2, <2>3
  <1> HIDE DEF whole, rest
  <1>16. (data \o whole) \o rest = data \o (whole \o rest)
    BY <1>3, <1>15, ConcatAssociative
  <1> DEFINE out == WriteBitString(bs)
  <1>17. out.bytes = G(F) /\ out.acc = rest
    BY <1>1
  <1> HIDE DEF out
  <1>18. DataOf(file \o out.bytes) \o out.acc = Stream \o Encoded(bs)
    BY <1>5, <1>13, <1>14, <1>16, <1>17 DEF whole
  <1> QED
    BY <1>18 DEF out

-----------------------------------------------------------------------------
(* The blocks sent, and the invariant of the scan *)

\* The blocks the transform can give.
Blocks == {DU \in [0 .. 63 -> Int] : IsBlock(DU)}

\* The components in the order of the scan, and the DC coefficient before that
\* of block n: of the same component.
ComponentOf(i) == <<"Y", "Cb", "Cr">>[i + 1]
PrevOf(s, n) == IF n <= 3 THEN 0 ELSE s[n - 3][0]

\* The bit strings of the blocks of a scan, block by block.
CodeOf(DU, prev, c) == DoHuffmanEncoding(DU, prev, HTDC(c), HTAC(c))
CodeOfBlock(s, n) == CodeOf(s[n], PrevOf(s, n), ComponentOf((n - 1) % 3))
CodesOfScan(s) == [n \in 1 .. Len(s) |-> CodeOfBlock(s, n)]

\* The component is one of the three.
LEMMA ComponentIsOne ==
    ASSUME NEW n \in Nat
    PROVE  ComponentOf(n % 3) \in Components
  <1>1. n % 3 \in 0 .. 2
    OBVIOUS
  <1>2. \A i \in 0 .. 2 : ComponentOf(i) \in Components
    BY DEF ComponentOf, Components
  <1> QED
    BY <1>1, <1>2

\* Blocks have DC coefficients.
LEMMA BlockDC ==
    ASSUME NEW DU \in Blocks
    PROVE  IsBlock(DU) /\ IsDC(DU[0])
  BY DEF Blocks, IsBlock, IsDC

\* The DC coefficient before that of a block is one.
LEMMA PrevIsDC ==
    ASSUME NEW s \in Seq(Blocks), NEW n \in 1 .. Len(s) + 1
    PROVE  IsDC(PrevOf(s, n))
  <1>0. Len(s) \in Nat
    BY LenProperties
  <1>1. CASE n <= 3
    BY <1>1 DEF PrevOf, IsDC
  <1>2. CASE ~(n <= 3)
    <2>1. n - 3 \in 1 .. Len(s)
      BY <1>0, <1>2
    <2>2. s[n - 3] \in Blocks
      BY <2>1, ElementOfSeq
    <2> QED
      BY <1>2, <2>2, BlockDC DEF PrevOf
  <1> QED
    BY <1>1, <1>2

\* A block's bit strings.
LEMMA CodeOfType ==
    ASSUME NEW DU \in Blocks, NEW prev, IsDC(prev), NEW c \in Components
    PROVE  CodeOf(DU, prev, c) \in Seq(BitStrings)
  <1>1. HTDC(c) \in [0 .. 11 -> BitStrings] /\ HTAC(c) \in [0 .. 255 -> BitStrings]
    BY HuffmanTables DEF Components
  <1>2. IsBlock(DU)
    BY BlockDC
  <1> QED
    BY <1>1, <1>2, EncodingType DEF CodeOf

\* A function on 1 .. n is a sequence of length n.
LEMMA FunctionLength ==
    ASSUME NEW T, NEW n \in Nat, NEW f \in [1 .. n -> T]
    PROVE  f \in Seq(T) /\ Len(f) = n
  <1>1. f \in Seq(T)
    BY FunctionIsSequence
  <1>2. DOMAIN f = 1 .. Len(f) /\ Len(f) \in Nat
    BY <1>1, LenProperties
  <1>3. DOMAIN f = 1 .. n
    OBVIOUS
  <1> DEFINE k == Len(f)
  <1>4. 1 .. k = 1 .. n /\ k \in Nat
    BY <1>2, <1>3
  <1> HIDE DEF k
  <1>5. k = n
    BY <1>4
  <1> QED
    BY <1>1, <1>5 DEF k

\* The bit strings of a scan, and of one block more.
LEMMA ScanGrows ==
    ASSUME NEW s \in Seq(Blocks), NEW DU \in Blocks
    PROVE  LET code == CodeOf(DU, PrevOf(s, Len(s) + 1), ComponentOf(Len(s) % 3))
           IN  /\ code \in Seq(BitStrings)
               /\ CodesOfScan(s) \in Seq(Seq(BitStrings))
               /\ CodesOfScan(Append(s, DU)) = Append(CodesOfScan(s), code)
  <1> DEFINE m == Len(s)
             n == m + 1
             t == Append(s, DU)
             A == Seq(BitStrings)
             code == CodeOf(DU, PrevOf(s, n), ComponentOf(m % 3))
             cs == CodesOfScan(s)
             ct == CodesOfScan(t)
             w == Append(cs, code)
  <1>1. m \in Nat /\ n \in Nat /\ n \in 1 .. m + 1 /\ n - 1 = m
    BY LenProperties
  <1>2. /\ t \in Seq(Blocks) /\ Len(t) = n /\ t[n] = DU
        /\ \A i \in 1 .. m : t[i] = s[i]
    BY AppendProperties
  <1> HIDE DEF t
  <1>3. code \in A
    <2>1. IsDC(PrevOf(s, n)) /\ ComponentOf(m % 3) \in Components
      BY <1>1, PrevIsDC, ComponentIsOne
    <2> QED
      BY <2>1, CodeOfType
  <1>4. ASSUME NEW i \in 1 .. m PROVE CodeOfBlock(s, i) \in A
    <2>1. s[i] \in Blocks
      BY ElementOfSeq
    <2>2. i - 1 \in Nat /\ i \in 1 .. m + 1
      BY <1>1
    <2>3. IsDC(PrevOf(s, i)) /\ ComponentOf((i - 1) % 3) \in Components
      BY <2>2, PrevIsDC, ComponentIsOne
    <2> QED
      BY <2>1, <2>3, CodeOfType DEF CodeOfBlock
  <1>5. PrevOf(t, n) = PrevOf(s, n) /\ \A i \in 1 .. m : PrevOf(t, i) = PrevOf(s, i)
    <2>1. ASSUME NEW i \in 1 .. n PROVE PrevOf(t, i) = PrevOf(s, i)
      <3>1. CASE i <= 3
        BY <3>1 DEF PrevOf
      <3>2. CASE ~(i <= 3)
        <4>1. i - 3 \in 1 .. m
          BY <1>1, <3>2
        <4> QED
          BY <1>2, <3>2, <4>1 DEF PrevOf
      <3> QED
        BY <3>1, <3>2
    <2>2. n \in 1 .. n /\ \A i \in 1 .. m : i \in 1 .. n
      BY <1>1
    <2> HIDE DEF n
    <2> QED
      BY <2>1, <2>2
  <1>6. CodeOfBlock(t, n) = code
    BY <1>1, <1>2, <1>5 DEF CodeOfBlock
  <1>7. \A i \in 1 .. m : CodeOfBlock(t, i) = CodeOfBlock(s, i)
    BY <1>2, <1>5 DEF CodeOfBlock
  <1>9. cs = [i \in 1 .. m |-> CodeOfBlock(s, i)]
    BY DEF CodesOfScan
  <1>10. ct = [i \in 1 .. n |-> CodeOfBlock(t, i)]
    BY <1>2 DEF CodesOfScan
  <1> HIDE DEF cs, ct, code, A
  <1>11. cs \in Seq(A) /\ Len(cs) = m
    <2> HIDE DEF m
    <2>1. cs \in [1 .. m -> A]
      BY <1>4, <1>9
    <2> QED
      BY <1>1, <2>1, FunctionLength
  <1>12. ct \in Seq(A) /\ Len(ct) = n
    <2>0. ASSUME NEW i \in 1 .. n PROVE CodeOfBlock(t, i) \in A
      <3>1. CASE i = n
        BY <1>3, <1>6, <3>1
      <3>2. CASE i # n
        <4>1. i \in 1 .. m
          BY <1>1, <3>2
        <4> QED
          BY <1>4, <1>7, <4>1
      <3> QED
        BY <3>1, <3>2
    <2> HIDE DEF n
    <2>1. ct \in [1 .. n -> A]
      BY <2>0, <1>10
    <2> QED
      BY <1>1, <2>1, FunctionLength
  <1>13. w \in Seq(A) /\ Len(w) = n /\ w[n] = code /\ \A i \in 1 .. m : w[i] = cs[i]
    BY <1>3, <1>11, AppendProperties
  <1> HIDE DEF w
  <1>14. ASSUME NEW i \in 1 .. n PROVE ct[i] = w[i]
    <2>1. ct[i] = CodeOfBlock(t, i)
      BY <1>10
    <2>2. CASE i = n
      BY <1>6, <1>13, <2>1, <2>2
    <2>3. CASE i # n
      <3>1. i \in 1 .. m
        BY <1>1, <2>3
      <3> QED
        BY <1>7, <1>9, <1>13, <2>1, <3>1
    <2> QED
      BY <2>2, <2>3
  <1>15. ct = w
    BY <1>12, <1>13, <1>14, SeqEqual
  <1> QED
    BY <1>3, <1>11, <1>15 DEF ct, w, cs, code, t, A

\* The invariant of the scan.  The blocks sent are those of the macro blocks up
\* to (x, y);
Columns == (job.width + 7) \div 8
Coded ==
    3 * ((y \div 8) * Columns + x \div 8)
      + (IF pc = "Cb" THEN 1 ELSE IF pc = "Cr" THEN 2 ELSE 0)

\* the DC coefficients kept are those of the last block of each component;
PrevKept ==
    \A j \in 0 .. 2 : prevDC[ComponentOf((Len(sent) + j) % 3)]
                        = PrevOf(sent, Len(sent) + 1 + j)

\* and the file, with the bits kept back, holds the codes of the blocks sent and
\* nothing else.
Streamed == Stream = Encoded(FlattenSeq(CodesOfScan(sent)))

TheHeader ==
    WriteJpegHeader(job.width, job.height,
                    QualityTable(Lum_Quantization_Tab, job.Qp),
                    QualityTable(Chroma_Quantization_Tab, job.Qp))

ScanInv ==
    /\ pc \in {"header", "crashed"} \/ header = TheHeader
    /\ x = 0 \/ (x < job.width /\ y < job.height)
    /\ pc = "closed" => ~MoreBlocks
    /\ Len(sent) = Coded
    /\ PrevKept
    /\ Streamed

\* The quantized blocks of the picture are blocks.
LEMMA SentAreBlocks ==
    ASSUME IInv
    PROVE  /\ job.blocks \subseteq Blocks /\ sent \in Seq(Blocks)
           /\ job.width \in Nat /\ job.height \in Nat /\ job.Qp \in Int
  <1>1. job \in Jobs /\ sent \in Seq(job.blocks)
    BY DEF IInv
  <1>2. ASSUME NEW DU \in job.blocks PROVE DU \in Blocks
    <2>1. IsBlock(DU)
      BY <1>1, JobsAssumption
    <2> QED
      BY <2>1 DEF IsBlock, Blocks
  <1> QED
    BY <1>1, <1>2, JobsAssumption

\* Coding a block of the component whose turn it is.
LEMMA BlockSent ==
    ASSUME IInv, PrevKept, Streamed, UNCHANGED job,
           NEW c, c = ComponentOf(Len(sent) % 3), CodeBlock(c)
    PROVE  Len(sent') = Len(sent) + 1 /\ PrevKept' /\ Streamed'
  <1> DEFINE m == Len(sent)
             n == m + 1
             prev == PrevOf(sent, n)
  <1>1. sent \in Seq(Blocks) /\ m \in Nat
    BY SentAreBlocks, LenProperties
  <1>2. prevDC[c] = prev
    <2> DEFINE j == 0
    <2>1. j \in 0 .. 2 /\ m + j = m /\ m + 1 + j = n
      BY <1>1
    <2> HIDE DEF j
    <2>2. prevDC[ComponentOf((m + j) % 3)] = PrevOf(sent, m + 1 + j)
      BY <2>1 DEF PrevKept
    <2> QED
      BY <2>1, <2>2
  <1>3. PICK DU \in job.blocks :
               /\ prevDC' = [prevDC EXCEPT ![c] = DU[0]]
               /\ acc' = WriteBitString(CodeOf(DU, prev, c)).acc
               /\ file' = file \o WriteBitString(CodeOf(DU, prev, c)).bytes
               /\ sent' = Append(sent, DU)
    <2>1. \E DU \in job.blocks :
               /\ prevDC' = [prevDC EXCEPT ![c] = DU[0]]
               /\ acc' = WriteBitString(CodeOf(DU, prevDC[c], c)).acc
               /\ file' = file \o WriteBitString(CodeOf(DU, prevDC[c], c)).bytes
               /\ sent' = Append(sent, DU)
      BY DEF CodeBlock, CodeOf
    <2> HIDE DEF prev
    <2> QED
      BY <1>2, <2>1
  <1> DEFINE bs == CodeOf(DU, prev, c)
             cs == CodesOfScan(sent)
  <1>4. DU \in Blocks
    BY SentAreBlocks
  <1>5. /\ bs \in Seq(BitStrings) /\ cs \in Seq(Seq(BitStrings))
        /\ CodesOfScan(Append(sent, DU)) = Append(cs, bs)
    BY <1>1, <1>4, ScanGrows
  <1>6. /\ sent' \in Seq(Blocks) /\ Len(sent') = n /\ sent'[n] = DU
        /\ \A i \in 1 .. m : sent'[i] = sent[i]
    BY <1>1, <1>3, <1>4, AppendProperties
  <1>7. Streamed'
    <2>1. acc \in Bits /\ file \in CodedData
      BY DEF IInv
    <2> HIDE DEF bs, cs
    <2>2. DataOf(file') \o acc' = Stream \o Encoded(bs)
      <3>1. /\ file' = file \o WriteBitString(bs).bytes
            /\ acc' = WriteBitString(bs).acc
        BY <1>3 DEF bs
      <3>2. DataOf(file \o WriteBitString(bs).bytes) \o WriteBitString(bs).acc
              = Stream \o Encoded(bs)
        BY <1>5, <2>1, StreamGrows
      <3> QED
        BY <3>1, <3>2
    <2>3. FlattenSeq(Append(cs, bs)) = FlattenSeq(cs) \o bs
      BY <1>5, FlattenAppend
    <2>4. FlattenSeq(cs) \in Seq(BitStrings)
      BY <1>5, FlattenInSeq
    <2>5. Encoded(FlattenSeq(cs) \o bs) = Encoded(FlattenSeq(cs)) \o Encoded(bs)
      BY <1>5, <2>4, EncodedConcat
    <2>6. Stream = Encoded(FlattenSeq(cs))
      BY DEF Streamed, cs
    <2>7. CodesOfScan(sent') = Append(cs, bs)
      BY <1>3, <1>5
    <2>8. DataOf(file') \o acc' = Encoded(FlattenSeq(CodesOfScan(sent')))
      BY <2>2, <2>3, <2>5, <2>6, <2>7
    <2> QED
      BY <2>8 DEF Streamed, Stream
  <1>8. PrevKept'
    <2> SUFFICES ASSUME NEW j \in 0 .. 2
                 PROVE  prevDC'[ComponentOf((n + j) % 3)] = PrevOf(sent', n + 1 + j)
      BY <1>6 DEF PrevKept
    <2>0. prevDC = [d \in Components |-> prevDC[d]]
      BY DEF IInv
    <2>1. \A i \in 0 .. 2 : ComponentOf(i) \in Components
      BY DEF ComponentOf, Components
    <2>2. CASE j = 2
      <3>1. (n + j) % 3 = m % 3 /\ m % 3 \in 0 .. 2
        BY <1>1, <2>2
      <3>2. prevDC'[c] = DU[0]
        BY <1>3, <2>0, <2>1, <3>1
      <3>3. n + 1 + j - 3 = n /\ ~(n + 1 + j <= 3)
        BY <1>1, <2>2
      <3>3a. CASE m = 0
        <4>1. n + 1 + j = 4
          BY <2>2, <3>3a
        <4> QED
          BY <1>6, <3>1, <3>2, <3>3 DEF PrevOf
      <3>4. PrevOf(sent', n + 1 + j) = sent'[n][0]
        BY <3>3 DEF PrevOf
      <3> QED
        BY <1>6, <3>1, <3>2, <3>4
    <2>3. CASE j # 2
      <3> DEFINE i == j + 1
                 k == (n + j) % 3
      <3>1. i \in 0 .. 2 /\ m + i = n + j /\ m + 1 + i = n + 1 + j
        BY <1>1, <2>3
      <3>2. prevDC[ComponentOf(k)] = PrevOf(sent, n + 1 + j)
        <4>1. prevDC[ComponentOf((m + i) % 3)] = PrevOf(sent, m + 1 + i)
          BY <3>1 DEF PrevKept
        <4> QED
          BY <3>1, <4>1
      <3>3. k \in 0 .. 2 /\ k # m % 3 /\ m % 3 \in 0 .. 2
        BY <1>1, <2>3
      <3>4. ComponentOf(k) # c
        <4> DEFINE l == m % 3
        <4>1. \A a \in 0 .. 2, b \in 0 .. 2 : a # b => ComponentOf(a) # ComponentOf(b)
          BY DEF ComponentOf
        <4>2. c = ComponentOf(l) /\ l \in 0 .. 2 /\ k # l
          BY <3>3
        <4> HIDE DEF k, l
        <4> QED
          BY <3>3, <4>1, <4>2
      <3>5. prevDC'[ComponentOf(k)] = prevDC[ComponentOf(k)]
        <4>1. ComponentOf(k) \in Components
          BY <2>1, <3>3
        <4> QED
          BY <1>3, <2>0, <3>4, <4>1
      <3>6. PrevOf(sent', n + 1 + j) = PrevOf(sent, n + 1 + j)
        <4>1. CASE n + 1 + j <= 3
          BY <4>1 DEF PrevOf
        <4>2. CASE ~(n + 1 + j <= 3)
          <5>1. n + 1 + j - 3 \in 1 .. m
            BY <1>1, <2>3, <4>2
          <5> QED
            BY <1>6, <4>2, <5>1 DEF PrevOf
        <4> QED
          BY <4>1, <4>2
      <3> QED
        BY <3>2, <3>5, <3>6
    <2> QED
      BY <2>2, <2>3
  <1> QED
    BY <1>6, <1>7, <1>8

\* The number of the macro block behind (x, y): the next of the line, or the
\* first of the next line.
LEMMA NextPlace ==
    ASSUME NEW px \in Nat, NEW py \in Nat, NEW w \in Nat,
           px % 8 = 0, py % 8 = 0, px < w
    PROVE  LET n == (py \div 8) * ((w + 7) \div 8) + px \div 8
           IN  IF px + 8 < w
                 THEN (py \div 8) * ((w + 7) \div 8) + (px + 8) \div 8 = n + 1
                 ELSE ((py + 8) \div 8) * ((w + 7) \div 8) + 0 \div 8 = n + 1
  <1> DEFINE a == py \div 8
             b == (w + 7) \div 8
             i == px \div 8
             m == a * b
  <1>1. a \in Nat /\ b \in Nat /\ i \in Nat /\ (py + 8) \div 8 = a + 1
    OBVIOUS
  <1>2. (px + 8) \div 8 = i + 1 /\ (px + 8 >= w => b = i + 1)
    OBVIOUS
  <1>3. 0 \div 8 = 0
    OBVIOUS
  <1> HIDE DEF a, b, i
  <1>4. m \in Nat /\ (a + 1) * b = m + b
    BY <1>1
  <1> HIDE DEF m
  <1>5. CASE px + 8 < w
    <2>1. m + (i + 1) = (m + i) + 1
      BY <1>1, <1>4
    <2> QED
      BY <1>2, <1>5, <2>1 DEF m, a, b, i
  <1>6. CASE ~(px + 8 < w)
    <2>1. b = i + 1
      BY <1>2, <1>6
    <2>2. (m + b) + 0 = (m + i) + 1
      BY <1>1, <1>4, <2>1
    <2>3. (a + 1) * b + 0 = (m + i) + 1
      BY <1>4, <2>2
    <2>4. ((py + 8) \div 8) * b + 0 \div 8 = (m + i) + 1
      BY <1>1, <1>3, <2>3
    <2> QED
      BY <1>6, <2>4 DEF m, a, b, i
  <1> QED
    BY <1>5, <1>6

\* Nothing is coded at the start,
LEMMA InitScanInv == Init => ScanInv
  <1> SUFFICES ASSUME Init PROVE ScanInv
    OBVIOUS
  <1>1. pc = "header" /\ x = 0 /\ y = 0 /\ acc = <<>> /\ file = <<>> /\ sent = <<>>
    BY DEF Init
  <1>2. job.width \in Nat /\ job.height \in Nat
    BY JobsAssumption DEF Init
  <1>3. Len(sent) = Coded
    <2> DEFINE w == (job.width + 7) \div 8
    <2>1. w \in Nat /\ 0 \div 8 = 0 /\ Len(<<>>) = 0
      BY <1>2
    <2> HIDE DEF w
    <2>2. 3 * (0 * w + 0) + 0 = 0
      BY <2>1
    <2>3. Coded = 3 * ((0 \div 8) * w + 0 \div 8) + 0
      BY <1>1 DEF Coded, Columns, w
    <2> QED
      BY <1>1, <2>1, <2>2, <2>3
  <1>4. PrevKept
    <2> SUFFICES ASSUME NEW j \in 0 .. 2
                 PROVE  prevDC[ComponentOf((0 + j) % 3)] = PrevOf(sent, 0 + 1 + j)
      BY <1>1 DEF PrevKept
    <2>1. ComponentOf((0 + j) % 3) \in Components
      BY ComponentIsOne
    <2>2. prevDC[ComponentOf((0 + j) % 3)] = 0
      BY <2>1 DEF Init, Components
    <2>3. PrevOf(sent, 0 + 1 + j) = 0
      BY DEF PrevOf
    <2> QED
      BY <2>2, <2>3
  <1>5. Streamed
    <2>1. DataOf(<<>>) = <<>>
      BY FlattenNothing DEF DataOf
    <2>2. CodesOfScan(<<>>) = <<>>
      BY DEF CodesOfScan
    <2>3. Encoded(<<>>) = <<>>
      BY FlattenNothing DEF Encoded
    <2>4. Stream = <<>>
      BY <1>1, <2>1 DEF Stream
    <2> QED
      BY <1>1, <2>2, <2>3, <2>4, FlattenNothing DEF Streamed
  <1> QED
    BY <1>1, <1>3, <1>4, <1>5 DEF ScanInv

\* every step keeps the account,
LEMMA NextScanInv == IInv /\ ScanInv /\ [Next]_vars => ScanInv'
  <1> SUFFICES ASSUME IInv, ScanInv, [Next]_vars PROVE ScanInv'
    OBVIOUS
  <1>1. /\ job.width \in Nat /\ job.height \in Nat
        /\ x \in Nat /\ x % 8 = 0 /\ y \in Nat /\ y % 8 = 0
        /\ Len(sent) \in Nat
    <2>1. /\ job.width \in Nat /\ job.height \in Nat /\ sent \in Seq(Blocks)
      BY SentAreBlocks
    <2>2. /\ x \in 0 .. job.width /\ x % 8 = 0
          /\ y \in 0 .. job.height + 7 /\ y % 8 = 0
      BY DEF IInv
    <2> QED
      BY <2>1, <2>2, LenProperties
  <1> DEFINE blocks == 3 * ((y \div 8) * Columns + x \div 8)
             place == (y \div 8) * Columns + x \div 8
  <1>2. place \in Nat /\ blocks = 3 * place
    <2> DEFINE a == y \div 8
               b == Columns
               i == x \div 8
    <2>1. a \in Nat /\ b \in Nat /\ i \in Nat
      BY <1>1 DEF Columns
    <2> HIDE DEF a, b, i
    <2>2. a * b + i \in Nat
      BY <2>1
    <2> QED
      BY <2>2 DEF a, b, i
  <1>3. /\ Len(sent) = Coded /\ PrevKept /\ Streamed
        /\ pc \in {"header", "crashed"} \/ header = TheHeader
        /\ x = 0 \/ (x < job.width /\ y < job.height)
    BY DEF ScanInv
  <1>4. ASSUME UNCHANGED <<job, x, y, sent, prevDC, acc, file>>,
               {pc, pc'} \cap {"Cb", "Cr"} = {} \/ pc' = pc
        PROVE  Len(sent') = Coded' /\ PrevKept' /\ Streamed'
    <2>1. Coded' = Coded
      BY <1>4 DEF Coded, Columns
    <2>2. PrevKept'
      BY <1>3, <1>4 DEF PrevKept
    <2>3. Streamed'
      BY <1>3, <1>4 DEF Streamed, Stream
    <2> QED
      BY <1>3, <1>4, <2>1, <2>2, <2>3
  <1>5. CASE WriteHeader
    <2>1. /\ pc = "header" /\ pc' = "convert" /\ header' = TheHeader
          /\ UNCHANGED <<job, x, y, mb, prevDC, acc, file, entries, sent>>
      BY <1>5 DEF WriteHeader, TheHeader
    <2>2. Len(sent') = Coded' /\ PrevKept' /\ Streamed'
      BY <1>4, <2>1
    <2>3. header' = TheHeader'
      BY <2>1 DEF TheHeader
    <2> QED
      BY <1>3, <2>1, <2>2, <2>3 DEF ScanInv
  <1>6. CASE OpenFails
    <2>1. /\ pc = "header" /\ pc' = "crashed"
          /\ UNCHANGED <<job, x, y, header, mb, prevDC, acc, file, entries, sent>>
      BY <1>6 DEF OpenFails
    <2>2. Len(sent') = Coded' /\ PrevKept' /\ Streamed'
      BY <1>4, <2>1
    <2> QED
      BY <1>3, <2>1, <2>2 DEF ScanInv
  <1>7. ASSUME NEW input, NEW samples, Convert(input, samples)
        PROVE  ScanInv'
    <2>1. /\ pc = "convert" /\ pc' = "Y"
          /\ UNCHANGED <<job, x, y, header, prevDC, acc, file, entries, sent>>
      BY <1>7 DEF Convert
    <2>2. Len(sent') = Coded' /\ PrevKept' /\ Streamed'
      BY <1>4, <2>1
    <2>3. header' = TheHeader'
      BY <1>3, <2>1 DEF TheHeader
    <2> QED
      BY <1>3, <2>1, <2>2, <2>3 DEF ScanInv
  <1>8. CASE CodeY
    <2>1. /\ CodeBlock("Y") /\ pc = "Y" /\ pc' = "Cb"
          /\ UNCHANGED <<job, x, y, header, mb>>
      BY <1>8 DEF CodeY
    <2>2. Len(sent) = 3 * place /\ Coded' = 3 * place + 1
      BY <1>2, <1>3, <2>1 DEF Coded, Columns
    <2>3. Len(sent) % 3 = 0
      <3> HIDE DEF place
      <3> QED
        BY <1>2, <2>2
    <2>4. "Y" = ComponentOf(Len(sent) % 3)
      BY <2>3 DEF ComponentOf
    <2>5. Len(sent') = Len(sent) + 1 /\ PrevKept' /\ Streamed'
      BY <1>3, <2>1, <2>4, BlockSent
    <2>6. header' = TheHeader'
      BY <1>3, <2>1 DEF TheHeader
    <2> QED
      BY <1>3, <2>1, <2>2, <2>5, <2>6 DEF ScanInv
  <1>9. CASE CodeCb
    <2>1. /\ CodeBlock("Cb") /\ pc = "Cb" /\ pc' = "Cr"
          /\ UNCHANGED <<job, x, y, header, mb>>
      BY <1>9 DEF CodeCb
    <2>2. Len(sent) = 3 * place + 1 /\ Coded' = 3 * place + 2
      BY <1>2, <1>3, <2>1 DEF Coded, Columns
    <2>3. Len(sent) % 3 = 1 /\ Len(sent) + 1 = 3 * place + 2
      <3> HIDE DEF place
      <3> QED
        BY <1>2, <2>2
    <2>4. "Cb" = ComponentOf(Len(sent) % 3)
      BY <2>3 DEF ComponentOf
    <2>5. Len(sent') = Len(sent) + 1 /\ PrevKept' /\ Streamed'
      BY <1>3, <2>1, <2>4, BlockSent
    <2>6. header' = TheHeader'
      BY <1>3, <2>1 DEF TheHeader
    <2> QED
      BY <1>3, <2>1, <2>2, <2>3, <2>5, <2>6 DEF ScanInv
  <1>10. CASE CodeCr
    <2>1. /\ CodeBlock("Cr") /\ pc = "Cr" /\ pc' = "convert"
          /\ UNCHANGED <<job, header, mb>>
          /\ IF x + 8 < job.width THEN x' = x + 8 /\ y' = y
                                  ELSE x' = 0 /\ y' = y + 8
      BY <1>10 DEF CodeCr
    <2>2. Len(sent) = 3 * place + 2
      BY <1>2, <1>3, <2>1 DEF Coded, Columns
    <2>3. Len(sent) % 3 = 2 /\ Len(sent) + 1 = 3 * (place + 1)
      <3> HIDE DEF place
      <3> QED
        BY <1>2, <2>2
    <2>4. "Cr" = ComponentOf(Len(sent) % 3)
      BY <2>3 DEF ComponentOf
    <2>5. Len(sent') = Len(sent) + 1 /\ PrevKept' /\ Streamed'
      BY <1>3, <2>1, <2>4, BlockSent
    <2>6. header' = TheHeader'
      BY <1>3, <2>1 DEF TheHeader
    <2>7. x < job.width /\ y < job.height
      BY <2>1 DEF IInv, MoreBlocks, Components
    <2>8. (y' \div 8) * Columns + x' \div 8 = place + 1
      <3>1. IF x + 8 < job.width
              THEN (y \div 8) * Columns + (x + 8) \div 8 = place + 1
              ELSE ((y + 8) \div 8) * Columns + 0 \div 8 = place + 1
        BY <1>1, <2>7, NextPlace, ZenonT(30) DEF Columns
      <3> QED
        BY <2>1, <3>1
    <2>9. Len(sent') = Coded'
      <3>1. Coded' = 3 * ((y' \div 8) * Columns + x' \div 8) + 0
        BY <2>1 DEF Coded, Columns
      <3> HIDE DEF place
      <3> QED
        BY <1>2, <2>3, <2>5, <2>8, <3>1
    <2>10. x' = 0 \/ (x' < job'.width /\ y' < job'.height)
      BY <2>1, <2>7
    <2> QED
      BY <2>1, <2>5, <2>6, <2>9, <2>10 DEF ScanInv
  <1>11. CASE Finish
    <2>1. /\ pc = "convert" /\ pc' = "closed" /\ ~MoreBlocks
          /\ UNCHANGED <<job, x, y, header, mb, prevDC, acc, file, entries, sent>>
      BY <1>11 DEF Finish
    <2>2. Len(sent') = Coded' /\ PrevKept' /\ Streamed'
      BY <1>4, <2>1
    <2>3. header' = TheHeader' /\ ~MoreBlocks'
      BY <1>3, <2>1 DEF TheHeader, MoreBlocks
    <2> QED
      BY <1>3, <2>1, <2>2, <2>3 DEF ScanInv
  <1>12. CASE UNCHANGED vars
    <2>1. UNCHANGED <<job, pc, x, y, header, mb, prevDC, acc, file, entries, sent>>
      BY <1>12 DEF vars
    <2>2. Len(sent') = Coded' /\ PrevKept' /\ Streamed'
      BY <1>4, <2>1
    <2>3. (pc' \in {"header", "crashed"} \/ header' = TheHeader')
          /\ (pc' = "closed" => ~MoreBlocks')
      BY <1>3, <2>1 DEF TheHeader, MoreBlocks, ScanInv
    <2> QED
      BY <1>3, <2>1, <2>2, <2>3 DEF ScanInv
  <1> QED
    BY <1>5, <1>6, <1>7, <1>8, <1>9, <1>10, <1>11, <1>12
       DEF Next, encode_rgb2jpg, encode_yuyvjpg, encode_yuv444Tojpg

\* and so it is always right.
THEOREM ScanInvariant == Spec => [](IInv /\ ScanInv)
  BY InitIInv, NextIInv, InitScanInv, NextScanInv, PTL DEF Spec

\* A decoder has the tables of every component.
Coders(bits, told) ==
    /\ bits \in Bits
    /\ \A i \in 0 .. 2 : BlockCoder(bits, HTDC(ComponentOf(i)), HTAC(ComponentOf(i)),
                                    told.dc[i], told.ac[i])

\* One block more is read.
LEMMA BlockOfScanRead ==
    ASSUME NEW bits, NEW told, Coders(bits, told), NEW s \in Seq(Blocks),
           NEW m \in 1 .. Len(s), NEW p \in Nat \ {0}, NEW q,
           Spells(bits, p, CodeOfBlock(s, m), q)
    PROVE  ReadBlock(bits, told, [next |-> p, done |-> SubSeq(s, 1, m - 1)])
             = [next |-> q, done |-> SubSeq(s, 1, m)]
  <1> DEFINE l == m - 1
             i == l % 3
             done == SubSeq(s, 1, l)
             prev == PrevOf(s, m)
             DU == s[m]
             dct == told.dc[i]
             act == told.ac[i]
             d == DecodeBlock(bits, p, prev, dct, act)
             state == [next |-> p, done |-> done]
  <1>1. l \in Nat /\ i \in 0 .. 2 /\ Len(s) \in Nat /\ m \in Nat /\ l < Len(s)
    BY LenProperties
  <1>2. /\ done \in Seq(Blocks) /\ Len(done) = l
        /\ \A k \in 1 .. l : done[k] = s[k]
    <2> DEFINE one == 1
    <2>1. one \in Int /\ l \in Int /\ \A k \in one .. l : s[k] \in Blocks
      BY <1>1, ElementOfSeq
    <2>2. /\ SubSeq(s, one, l) \in Seq(Blocks)
          /\ Len(SubSeq(s, one, l)) = IF one <= l THEN l - one + 1 ELSE 0
          /\ \A k \in 1 .. l - one + 1 : SubSeq(s, one, l)[k] = s[one + k - 1]
      <3> HIDE DEF one, l
      <3> QED
        BY <2>1, SubSeqProperties
    <2>3. (IF one <= l THEN l - one + 1 ELSE 0) = l
      BY <1>1
    <2>4. l - one + 1 = l /\ \A k \in 1 .. l : one + k - 1 = k
      BY <1>1
    <2>5. done = SubSeq(s, one, l)
      OBVIOUS
    <2> HIDE DEF done, one, l
    <2> QED
      BY <2>2, <2>3, <2>4, <2>5
  <1>3. DU \in Blocks /\ IsDC(prev) /\ IsBlock(DU)
    <2>1. DU \in Blocks
      BY <1>1, ElementOfSeq
    <2>2. m \in 1 .. Len(s) + 1
      BY <1>1
    <2> QED
      BY <2>1, <2>2, PrevIsDC, BlockDC
  <1>4. PrevDC(done) = prev
    <2>1. CASE m <= 3
      <3>1. Len(done) < 3
        BY <1>1, <1>2, <2>1
      <3> QED
        BY <2>1, <3>1 DEF PrevDC, PrevOf
    <2>2. CASE ~(m <= 3)
      <3>1. ~(Len(done) < 3) /\ Len(done) - 2 = m - 3 /\ m - 3 \in 1 .. l
        BY <1>1, <1>2, <2>2
      <3>2. done[m - 3] = s[m - 3]
        BY <1>2, <3>1
      <3> HIDE DEF done
      <3> QED
        BY <2>2, <3>1, <3>2 DEF PrevDC, PrevOf
    <2> QED
      BY <2>1, <2>2
  <1> HIDE DEF done, prev, DU
  <1>5. d = [block |-> DU, next |-> q]
    <2> DEFINE c == ComponentOf(i)
               dc == HTDC(c)
               ac == HTAC(c)
    <2>1. BlockCoder(bits, dc, ac, dct, act)
      BY <1>1 DEF Coders
    <2>2. Spells(bits, p, DoHuffmanEncoding(DU, prev, dc, ac), q)
      BY DEF CodeOfBlock, CodeOf, DU, prev
    <2> HIDE DEF dc, ac, dct, act
    <2> QED
      BY <1>3, <2>1, <2>2, BlockRead
  <1>6. ReadBlock(bits, told, state)
          = IF p = 0 \/ d.next = 0 THEN [next |-> 0, done |-> <<>>]
            ELSE [next |-> d.next, done |-> Append(done, d.block)]
    BY <1>2, <1>4 DEF ReadBlock
  <1> HIDE DEF d
  <1>7. q # 0 /\ p # 0 /\ d.next = q /\ d.block = DU
    BY <1>5 DEF Spells
  <1>8. Append(done, DU) = SubSeq(s, 1, m)
    <2> DEFINE one == 1
    <2>1. one \in 1 .. Len(s) /\ m \in one .. Len(s) /\ m - 1 = l
      BY <1>1
    <2> HIDE DEF one
    <2>2. SubSeq(s, one, m) = SubSeq(s, one, m - 1) \o <<s[m]>>
      BY <2>1, SubSeqRecursiveSecond
    <2>3. Append(done, DU) = done \o <<DU>>
      BY <1>2, <1>3, AppendIsConcat
    <2> QED
      BY <2>1, <2>2, <2>3 DEF one, done, DU
  <1>9. ReadBlock(bits, told, state) = [next |-> q, done |-> SubSeq(s, 1, m)]
    BY <1>6, <1>7, <1>8
  <1> QED
    BY <1>9 DEF done

\* A decoder that has the tables of the encoder takes every block from the bits.
LEMMA ScanRead ==
    ASSUME NEW bits, NEW told, Coders(bits, told), NEW s \in Seq(Blocks),
           bits = Encoded(FlattenSeq(CodesOfScan(s)))
    PROVE  DecodeScan(bits, Len(s), told) = s
  <1> DEFINE cs == CodesOfScan(s)
             N == Len(s)
             top == N + 1
             q == Len(bits) + 1
             R(v) == ReadBlock(bits, told, v)
             a == [next |-> 1, done |-> <<>>]
             Step(c) == [i \in 1 .. N + 1 |-> IF i = 1 THEN a ELSE R(c[i - 1])]
             scan == CHOOSE c : c = Step(c)
  <1>1. N \in Nat /\ top \in Nat /\ bits \in Bits /\ Len(bits) \in Nat /\ q \in Nat \ {0}
    BY LenProperties DEF Coders, Bits
  <1>2. cs \in Seq(Seq(BitStrings)) /\ Len(cs) = N
    <2> DEFINE A == Seq(BitStrings)
    <2>1. ASSUME NEW n \in 1 .. N PROVE CodeOfBlock(s, n) \in A
      <3>1. s[n] \in Blocks
        BY ElementOfSeq
      <3>2. n - 1 \in Nat /\ n \in 1 .. N + 1
        BY <1>1
      <3>3. IsDC(PrevOf(s, n)) /\ ComponentOf((n - 1) % 3) \in Components
        BY <3>2, PrevIsDC, ComponentIsOne
      <3> QED
        BY <3>1, <3>3, CodeOfType DEF CodeOfBlock
    <2> HIDE DEF A, N
    <2>2. cs = [n \in 1 .. N |-> CodeOfBlock(s, n)]
      BY DEF CodesOfScan, N
    <2> HIDE DEF cs
    <2>3. cs \in [1 .. N -> A]
      BY <2>1, <2>2
    <2>4. cs \in Seq(A) /\ Len(cs) = N
      BY <1>1, <2>3, FunctionLength
    <2> QED
      BY <2>4 DEF A
  <1>3. Spells(bits, 1, FlattenSeq(cs), q)
    <2>1. FlattenSeq(cs) \in Seq(BitStrings)
      BY <1>2, FlattenInSeq
    <2>2. Stands(bits, 1, bits)
      <3>1. 1 + Len(bits) <= Len(bits) + 1 /\ \A i \in 1 .. Len(bits) : 1 + i - 1 = i
        BY <1>1
      <3> QED
        BY <3>1 DEF Stands
    <2>3. q = 1 + Len(bits)
      BY <1>1
    <2> HIDE DEF q
    <2> QED
      BY <1>1, <2>1, <2>2, <2>3 DEF Spells
  <1>4. PICK r : Pieces(bits, 1, cs, q, r)
    <2> DEFINE one == 1
    <2>1. one \in Nat \ {0} /\ Spells(bits, one, FlattenSeq(cs), q)
      BY <1>3
    <2> HIDE DEF one, cs, q
    <2>2. \E r : Pieces(bits, one, cs, q, r)
      BY <1>1, <1>2, <2>1, SpellsPieces
    <2> QED
      BY <2>2 DEF one
  <1>5. /\ r[0] = 1 /\ \A n \in 0 .. N : r[n] \in Nat \ {0}
        /\ \A n \in 1 .. N : Spells(bits, r[n - 1], cs[n], r[n])
    BY <1>2, <1>4 DEF Pieces
  <1> DEFINE State(n) == [next |-> r[n], done |-> SubSeq(s, 1, n)]
             g == [i \in 1 .. N + 1 |-> State(i - 1)]
  <1>6. State(0) = a
    <2> DEFINE one == 1
               z == 0
    <2>1. one \in Int /\ z \in Int /\ z < one
      OBVIOUS
    <2> HIDE DEF one, z
    <2>2. SubSeq(s, one, z) = <<>>
      BY <2>1, SubSeqEmpty
    <2> QED
      BY <1>5, <2>2 DEF one, z
  <1>7. ASSUME NEW n \in 1 .. N PROVE State(n) = R(State(n - 1))
    <2>1. n - 1 \in 0 .. N
      BY <1>1
    <2>2. cs[n] = CodeOfBlock(s, n)
      BY DEF CodesOfScan
    <2> DEFINE p == r[n - 1]
               e == r[n]
    <2>3. p \in Nat \ {0} /\ Spells(bits, p, CodeOfBlock(s, n), e)
      BY <1>5, <2>1, <2>2
    <2> HIDE DEF p, e
    <2>4. ReadBlock(bits, told, [next |-> p, done |-> SubSeq(s, 1, n - 1)])
            = [next |-> e, done |-> SubSeq(s, 1, n)]
      BY <2>3, BlockOfScanRead
    <2> QED
      BY <2>4 DEF p, e
  <1>8. DecodeScan(bits, N, told) = scan[top].done
    BY DEF DecodeScan
  <1> HIDE DEF State, R, a, N
  <1>9. g = Step(g)
    <2>1. ASSUME NEW n \in 1 .. N + 1
          PROVE  g[n] = IF n = 1 THEN a ELSE R(g[n - 1])
      <3>1. CASE n = 1
        BY <1>1, <1>6, <3>1
      <3>2. CASE n # 1
        <4>1. n - 1 \in 1 .. N /\ n - 1 \in 1 .. N + 1
          BY <1>1, <3>2
        <4>2. /\ State(n - 1) = R(State((n - 1) - 1)) /\ g[n] = State(n - 1)
              /\ g[n - 1] = State((n - 1) - 1)
          BY <1>7, <4>1
        <4> QED
          BY <3>2, <4>2
      <3> QED
        BY <3>1, <3>2
    <2> HIDE DEF g
    <2>2. g = [n \in 1 .. N + 1 |-> g[n]]
      BY DEF g
    <2> QED
      BY <2>1, <2>2
  <1>10. scan = Step(scan)
    <2> HIDE DEF Step
    <2> QED
      BY <1>9
  <1> HIDE DEF scan
  <1>11. scan[1] = a /\ \A n \in 2 .. top : scan[n] = R(scan[n - 1])
    <2>1. scan[1] = a
      <3>1. 1 \in 1 .. N + 1
        BY <1>1
      <3> QED
        BY <1>10, <3>1
    <2>2. ASSUME NEW n \in 2 .. top PROVE scan[n] = R(scan[n - 1])
      <3>1. n \in 1 .. N + 1 /\ n # 1
        BY <1>1
      <3> QED
        BY <1>10, <3>1
    <2> QED
      BY <2>1, <2>2
  <1> DEFINE Good == {n \in 1 .. top : scan[n] = State(n - 1)}
  <1>12. 1 \in Good
    BY <1>1, <1>6, <1>11
  <1>13. ASSUME NEW n \in 1 .. top - 1, n \in Good PROVE n + 1 \in Good
    <2>1. n \in 1 .. N /\ n + 1 \in 2 .. top /\ n + 1 \in 1 .. top /\ (n + 1) - 1 = n
      BY <1>1
    <2>2. scan[n + 1] = R(scan[n])
      BY <1>11, <2>1
    <2>3. State(n) = R(State(n - 1))
      BY <1>7, <2>1
    <2>4. scan[n] = State(n - 1)
      BY <1>13
    <2> QED
      BY <2>1, <2>2, <2>3, <2>4
  <1>14. top \in Good
    <2>1. 1 \in Nat /\ top \in Nat /\ top \in 1 .. top
      BY <1>1
    <2> HIDE DEF Good, top
    <2>2. \A n \in 1 .. top : n \in Good
      BY <1>12, <1>13, <2>1, Induction
    <2> QED
      BY <2>1, <2>2
  <1>15. scan[top].done = SubSeq(s, 1, N)
    <2>1. scan[top] = State(N)
      <3>1. top - 1 = N
        BY <1>1
      <3> QED
        BY <1>14, <3>1
    <2>2. State(N).done = SubSeq(s, 1, N)
      BY DEF State
    <2> HIDE DEF top
    <2> QED
      BY <2>1, <2>2
  <1>16. SubSeq(s, 1, N) = s
    BY SubSeqFull DEF N
  <1> QED
    BY <1>8, <1>15, <1>16 DEF N

\* The tables of one component, of which the decoder's hold the standard's counts
\* and begin with the standard's values.
HoldTables(dct, act, dcCounts, dcValues, acCounts, acValues) ==
    /\ \E tv : Continues(tv, dcValues) /\ dct = Table(dcCounts, tv)
    /\ \E tv : Continues(tv, acValues) /\ act = Table(acCounts, tv)

\* A decoder has, for every component, the tables of the standard.
HoldsStandard(told) ==
    /\ HoldTables(told.dc[0], told.ac[0],
                  Standard_DC_Lum_NRCodes, Standard_DC_Lum_Values,
                  Standard_AC_Lum_NRCodes, Standard_AC_Lum_Values)
    /\ \A i \in 1 .. 2 :
         HoldTables(told.dc[i], told.ac[i],
                    Standard_DC_Chroma_NRCodes, Standard_DC_Chroma_Values,
                    Standard_AC_Chroma_NRCodes, Standard_AC_Chroma_Values)

\* With them it reads every symbol the encoder may write.
LEMMA StandardDecodes ==
    ASSUME NEW bits \in Bits, NEW told, HoldsStandard(told)
    PROVE  Coders(bits, told)
  <1>1. /\ HTDC("Y") = Y_DC_Huffman_Tab /\ HTAC("Y") = Y_AC_Huffman_Tab
        /\ \A c \in {"Cb", "Cr"} : HTDC(c) = CbCr_DC_Huffman_Tab
                                   /\ HTAC(c) = CbCr_AC_Huffman_Tab
    BY DEF HTDC, HTAC
  <1>2. \A c \in Components : HTDC(c) \in [0 .. 11 -> BitStrings]
                              /\ HTAC(c) \in [0 .. 255 -> BitStrings]
    BY HuffmanTables DEF Components
  <1>3. /\ ComponentOf(0) = "Y" /\ \A i \in 1 .. 2 : ComponentOf(i) \in {"Cb", "Cr"}
        /\ \A i \in 0 .. 2 : ComponentOf(i) \in Components
    BY DEF ComponentOf, Components
  <1>4. ASSUME NEW i \in 0 .. 2
        PROVE  /\ Decodes(HTDC(ComponentOf(i)), told.dc[i], 0 .. 11)
               /\ Decodes(HTAC(ComponentOf(i)), told.ac[i], ACSymbols)
    <2>1. CASE i = 0
      <3>1. PICK tv : /\ Continues(tv, Standard_DC_Lum_Values)
                      /\ told.dc[0] = Table(Standard_DC_Lum_NRCodes, tv)
        BY DEF HoldsStandard, HoldTables
      <3>2. PICK tw : /\ Continues(tw, Standard_AC_Lum_Values)
                      /\ told.ac[0] = Table(Standard_AC_Lum_NRCodes, tw)
        BY DEF HoldsStandard, HoldTables
      <3>3. /\ Decodes(Y_DC_Huffman_Tab, Table(Standard_DC_Lum_NRCodes, tv), 0 .. 11)
            /\ Decodes(Y_AC_Huffman_Tab, Table(Standard_AC_Lum_NRCodes, tw), ACSymbols)
        BY <3>1, <3>2, DCLumDecodes, ACLumDecodes
      <3> QED
        BY <1>1, <1>3, <2>1, <3>1, <3>2, <3>3
    <2>2. CASE i # 0
      <3>0. i \in 1 .. 2
        BY <2>2
      <3>1. PICK tv : /\ Continues(tv, Standard_DC_Chroma_Values)
                      /\ told.dc[i] = Table(Standard_DC_Chroma_NRCodes, tv)
        BY <3>0 DEF HoldsStandard, HoldTables
      <3>2. PICK tw : /\ Continues(tw, Standard_AC_Chroma_Values)
                      /\ told.ac[i] = Table(Standard_AC_Chroma_NRCodes, tw)
        BY <3>0 DEF HoldsStandard, HoldTables
      <3>3. /\ Decodes(CbCr_DC_Huffman_Tab, Table(Standard_DC_Chroma_NRCodes, tv), 0 .. 11)
            /\ Decodes(CbCr_AC_Huffman_Tab, Table(Standard_AC_Chroma_NRCodes, tw), ACSymbols)
        BY <3>1, <3>2, DCChromaDecodes, ACChromaDecodes
      <3> QED
        BY <1>1, <1>3, <3>0, <3>1, <3>2, <3>3
    <2> QED
      BY <2>1, <2>2
  <1> QED
    BY <1>2, <1>3, <1>4 DEF Coders, BlockCoder, ACCoder

-----------------------------------------------------------------------------
(* The segments of the header *)

\* Bytes that stand one behind the other.
LEMMA BytesSplit ==
    ASSUME NEW t \in Bytes, NEW p \in Nat \ {0}, NEW s \in Bytes, NEW u \in Bytes
    PROVE  /\ s \o u \in Bytes /\ Len(s \o u) = Len(s) + Len(u)
           /\ Stands(t, p, s \o u) => Stands(t, p, s) /\ Stands(t, p + Len(s), u)
  <1> DEFINE T == 0 .. 255
  <1>1. t \in Seq(T) /\ s \in Seq(T) /\ u \in Seq(T)
    BY DEF Bytes
  <1> HIDE DEF T
  <1>2. s \o u \in Seq(T) /\ Len(s \o u) = Len(s) + Len(u)
    BY <1>1, ConcatProperties
  <1>3. Stands(t, p, s \o u) => Stands(t, p, s) /\ Stands(t, p + Len(s), u)
    BY <1>1, StandsConcat
  <1> QED
    BY <1>2, <1>3 DEF T, Bytes

\* A number of 16 bits is written as two bytes,
LEMMA BytesOfNumber ==
    ASSUME NEW v \in Nat, v < 65536
    PROVE  LET a == v \div 256
               b == v % 256
           IN  /\ a \in 0 .. 255 /\ b \in 0 .. 255 /\ 256 * a + b = v
               /\ Word(v) = <<a, b>>
  <1> DEFINE a == v \div 256
             b == v % 256
  <1>1. a \in 0 .. 255
    OBVIOUS
  <1>2. b \in 0 .. 255
    OBVIOUS
  <1>3. 256 * a + b = v
    OBVIOUS
  <1>4. Word(v) = <<a % 256, b>>
    BY DEF Word
  <1> HIDE DEF a, b
  <1>5. a % 256 = a
    BY <1>1
  <1> QED
    BY <1>1, <1>2, <1>3, <1>4, <1>5 DEF a, b

\* and read back where they stand.
LEMMA WordStands ==
    ASSUME NEW t, NEW p \in Nat \ {0}, NEW v \in Nat, v < 65536, Stands(t, p, Word(v))
    PROVE  t[p] = v \div 256 /\ t[p + 1] = v % 256 /\ Short(t, p) = v
  <1> DEFINE a == v \div 256
             b == v % 256
             w == <<a, b>>
             i == 2
  <1>1. a \in 0 .. 255 /\ b \in 0 .. 255 /\ 256 * a + b = v /\ Word(v) = w
    BY BytesOfNumber
  <1>2. w[1] = a /\ w[i] = b /\ Len(w) = 2
    OBVIOUS
  <1> HIDE DEF a, b, w
  <1>3. \A k \in 1 .. 2 : t[p + k - 1] = w[k]
    BY <1>1, <1>2 DEF Stands
  <1>4. t[p + 1 - 1] = a /\ t[p + i - 1] = b
    BY <1>2, <1>3
  <1>5. p + 1 - 1 = p /\ p + i - 1 = p + 1
    OBVIOUS
  <1>6. t[p] = a /\ t[p + 1] = b
    BY <1>4, <1>5
  <1>7. Short(t, p) = 256 * a + b
    BY <1>6 DEF Short
  <1> QED
    BY <1>1, <1>6, <1>7 DEF a, b

\* The marker of a segment, and its length.
Begins(t, p, marker, length) ==
    t[p] = 255 /\ t[p + 1] = marker /\ Short(t, p + 2) = length

\* A marker, and a number of 16 bits.
Marks(v, marker) == v \in Nat /\ v < 65536 /\ v \div 256 = 255 /\ v % 256 = marker
IsShort(v) == v \in Nat /\ v < 65536

\* They are the first two words.
LEMMA MarkerStands ==
    ASSUME NEW t \in Bytes, NEW p \in Nat \ {0}, NEW v, NEW marker, Marks(v, marker),
           NEW length, IsShort(length), Stands(t, p, Word(v) \o Word(length))
    PROVE  Begins(t, p, marker, length)
  <1> DEFINE s == Word(v)
             u == Word(length)
             q == p + 2
  <1>1. /\ v \in Nat /\ v < 65536 /\ v \div 256 = 255 /\ v % 256 = marker
        /\ length \in Nat /\ length < 65536
    BY DEF Marks, IsShort
  <1>2. q \in Nat \ {0}
    OBVIOUS
  <1>4. s \in Bytes /\ u \in Bytes
    BY <1>1, WordIsBytes
  <1>5. Len(s) = 2
    BY DEF Word
  <1> HIDE DEF s, u
  <1>6. Stands(t, p, s) /\ Stands(t, p + Len(s), u)
    BY <1>4, BytesSplit DEF s, u
  <1>7. t[p] = 255 /\ t[p + 1] = marker
    BY <1>1, <1>6, WordStands DEF s
  <1> HIDE DEF q
  <1>8. Stands(t, q, u)
    BY <1>5, <1>6 DEF q
  <1>9. Short(t, q) = length
    BY <1>1, <1>2, <1>8, WordStands DEF u
  <1> QED
    BY <1>7, <1>9 DEF Begins, q

\* Its two first words are bytes, four.
LEMMA TwoWords ==
    ASSUME NEW a, NEW b, IsShort(a), IsShort(b)
    PROVE  Word(a) \o Word(b) \in Bytes /\ Len(Word(a) \o Word(b)) = 4
  <1>1. Word(a) \in Bytes /\ Word(b) \in Bytes
    BY WordIsBytes DEF IsShort
  <1>2. Len(Word(a)) = 2 /\ Len(Word(b)) = 2
    BY DEF Word
  <1>3. Len(Word(a) \o Word(b)) = Len(Word(a)) + Len(Word(b))
    BY <1>1 DEF Bytes
  <1> QED
    BY <1>1, <1>2, <1>3, BytesClosed

\* The first segment is 18 bytes,
LEMMA APP0Stands ==
    ASSUME NEW t \in Bytes, NEW p \in Nat \ {0}
    PROVE  /\ APP0 \in Bytes /\ Len(APP0) = 18
           /\ Stands(t, p, APP0) => Begins(t, p, 224, 16)
  <1> DEFINE v == 65504
             l == 16
             marker == 224
             words == Word(v) \o Word(l)
             a == <<74, 70, 73, 70, 0, 1, 1, 0>>
             b == Word(1)
             c == <<0, 0>>
             s1 == words \o a
             s2 == s1 \o b
             s3 == s2 \o b
             s4 == s3 \o c
  <1>1. APP0 = s4
    BY DEF APP0
  <1>2. a \in Bytes /\ b \in Bytes /\ c \in Bytes
    BY DEF Bytes, Word
  <1>2l. Len(a) = 8 /\ Len(b) = 2 /\ Len(c) = 2
    BY DEF Word
  <1>3. Marks(v, marker) /\ IsShort(v) /\ IsShort(l)
    BY DEF Marks, IsShort
  <1> HIDE DEF v, l, marker
  <1>4. words \in Bytes
    BY <1>3, TwoWords
  <1>4a. Len(words) = 4
    BY <1>3, TwoWords
  <1> HIDE DEF words, a, b, c
  <1>5. /\ s1 \in Bytes /\ Len(s1) = Len(words) + Len(a)
        /\ Stands(t, p, s1) => Stands(t, p, words)
    BY <1>2, <1>4, BytesSplit
  <1> HIDE DEF s1
  <1>6. /\ s2 \in Bytes /\ Len(s2) = Len(s1) + Len(b)
        /\ Stands(t, p, s2) => Stands(t, p, s1)
    BY <1>2, <1>5, BytesSplit
  <1> HIDE DEF s2
  <1>7. /\ s3 \in Bytes /\ Len(s3) = Len(s2) + Len(b)
        /\ Stands(t, p, s3) => Stands(t, p, s2)
    BY <1>2, <1>6, BytesSplit
  <1> HIDE DEF s3
  <1>8. /\ s4 \in Bytes /\ Len(s4) = Len(s3) + Len(c)
        /\ Stands(t, p, s4) => Stands(t, p, s3)
    BY <1>2, <1>7, BytesSplit
  <1> HIDE DEF s4
  <1>9. Len(s4) = 18
    BY <1>2l, <1>4a, <1>5, <1>6, <1>7, <1>8
  <1>10. ASSUME Stands(t, p, words) PROVE Begins(t, p, marker, l)
    <2>1. Stands(t, p, Word(v) \o Word(l))
      BY <1>10 DEF words
    <2> QED
      BY <1>3, <2>1, MarkerStands, Zenon
  <1> QED
    BY <1>1, <1>5, <1>6, <1>7, <1>8, <1>9, <1>10 DEF marker, l

\* The quantizer tables of a header, byte by byte.
TableBytes(tab) == [i \in 1 .. 64 |-> tab[i - 1]]

\* the second, with the quantizers, 134,
LEMMA DQTStands ==
    ASSUME NEW t \in Bytes, NEW p \in Nat \ {0},
           NEW YTab \in QuantizerTables, NEW CbCrTab \in QuantizerTables
    PROVE  /\ DQT(YTab, CbCrTab) \in Bytes /\ Len(DQT(YTab, CbCrTab)) = 134
           /\ Stands(t, p, DQT(YTab, CbCrTab)) =>
                /\ Begins(t, p, 219, 132)
                /\ t[p + 4] = 0 /\ Stands(t, p + 5, TableBytes(YTab))
                /\ t[p + 69] = 1 /\ Stands(t, p + 70, TableBytes(CbCrTab))
  <1> DEFINE v == 65499
             l == 132
             marker == 219
             words == Word(v) \o Word(l)
             a == <<0>>
             y64 == TableBytes(YTab)
             b == <<1>>
             c64 == TableBytes(CbCrTab)
             s1 == words \o a
             s2 == s1 \o y64
             s3 == s2 \o b
             s4 == s3 \o c64
  <1>1. DQT(YTab, CbCrTab) = s4
    BY DEF DQT, TableBytes
  <1>2. a \in Bytes /\ b \in Bytes
    BY DEF Bytes
  <1>2l. Len(a) = 1 /\ Len(b) = 1 /\ a[1] = 0 /\ b[1] = 1
    OBVIOUS
  <1>2b. y64 \in Bytes /\ c64 \in Bytes /\ Len(y64) = 64 /\ Len(c64) = 64
    <2>1. y64 \in Bytes /\ c64 \in Bytes
      BY TableIsBytes DEF TableBytes
    <2>2. DOMAIN y64 = 1 .. 64 /\ DOMAIN c64 = 1 .. 64
      BY DEF TableBytes
    <2>3. DOMAIN y64 = 1 .. Len(y64) /\ DOMAIN c64 = 1 .. Len(c64)
          /\ Len(y64) \in Nat /\ Len(c64) \in Nat
      BY <2>1, LenProperties DEF Bytes
    <2> DEFINE k == Len(y64)
               m == Len(c64)
    <2>4. 1 .. k = 1 .. 64 /\ 1 .. m = 1 .. 64 /\ k \in Nat /\ m \in Nat
      BY <2>2, <2>3
    <2> HIDE DEF k, m
    <2>5. k = 64 /\ m = 64
      BY <2>4
    <2> QED
      BY <2>1, <2>5 DEF k, m
  <1>2a. y64 \in Bytes /\ c64 \in Bytes
    BY <1>2b
  <1>3. Marks(v, marker) /\ IsShort(v) /\ IsShort(l)
    BY DEF Marks, IsShort
  <1> HIDE DEF v, l, marker
  <1>4. words \in Bytes
    BY <1>3, TwoWords
  <1>4a. Len(words) = 4
    BY <1>3, TwoWords
  <1> HIDE DEF words, a, b, y64, c64
  <1>5. /\ s1 \in Bytes /\ Len(s1) = Len(words) + Len(a)
        /\ Stands(t, p, s1) => Stands(t, p, words) /\ Stands(t, p + Len(words), a)
    BY <1>2, <1>4, BytesSplit
  <1> HIDE DEF s1
  <1>6. /\ s2 \in Bytes /\ Len(s2) = Len(s1) + Len(y64)
        /\ Stands(t, p, s2) => Stands(t, p, s1) /\ Stands(t, p + Len(s1), y64)
    BY <1>2a, <1>5, BytesSplit
  <1> HIDE DEF s2
  <1>7. /\ s3 \in Bytes /\ Len(s3) = Len(s2) + Len(b)
        /\ Stands(t, p, s3) => Stands(t, p, s2) /\ Stands(t, p + Len(s2), b)
    BY <1>2, <1>6, BytesSplit
  <1> HIDE DEF s3
  <1>8. /\ s4 \in Bytes /\ Len(s4) = Len(s3) + Len(c64)
        /\ Stands(t, p, s4) => Stands(t, p, s3) /\ Stands(t, p + Len(s3), c64)
    BY <1>2a, <1>7, BytesSplit
  <1> HIDE DEF s4
  <1>9. Len(s1) = 5 /\ Len(s2) = 69 /\ Len(s3) = 70 /\ Len(s4) = 134
    BY <1>2b, <1>2l, <1>4a, <1>5, <1>6, <1>7, <1>8
  <1>10. ASSUME Stands(t, p, words) PROVE Begins(t, p, marker, l)
    <2>1. Stands(t, p, Word(v) \o Word(l))
      BY <1>10 DEF words
    <2> QED
      BY <1>3, <2>1, MarkerStands, Zenon
  <1>11. ASSUME NEW n \in Nat, NEW u, Len(u) = 1, Stands(t, n, u) PROVE t[n] = u[1]
    <2>1. n + 1 - 1 = n
      OBVIOUS
    <2> QED
      BY <1>11, <2>1 DEF Stands
  <1>12. ASSUME Stands(t, p, s4)
         PROVE  /\ Begins(t, p, 219, 132)
                /\ t[p + 4] = 0 /\ Stands(t, p + 5, y64)
                /\ t[p + 69] = 1 /\ Stands(t, p + 70, c64)
    <2>1. Stands(t, p + 70, c64) /\ Stands(t, p, s3)
      BY <1>8, <1>9, <1>12
    <2>2. Stands(t, p + 69, b) /\ Stands(t, p, s2)
      BY <1>7, <1>9, <2>1
    <2>3. Stands(t, p + 5, y64) /\ Stands(t, p, s1)
      BY <1>6, <1>9, <2>2
    <2>4. Stands(t, p + 4, a) /\ Stands(t, p, words)
      BY <1>4a, <1>5, <2>3
    <2>5. Begins(t, p, 219, 132)
      BY <1>10, <2>4 DEF marker, l
    <2> DEFINE i == p + 4
               j == p + 69
    <2>6. i \in Nat /\ j \in Nat
      OBVIOUS
    <2> HIDE DEF i, j
    <2>7. t[i] = 0 /\ t[j] = 1
      BY <1>2l, <1>11, <2>2, <2>4, <2>6 DEF i, j
    <2> QED
      BY <2>1, <2>3, <2>5, <2>7 DEF i, j
  <1> QED
    BY <1>1, <1>8, <1>9, <1>12 DEF y64, c64

\* The start of the frame in the header.
FrameAt(t, p, width, height) ==
    /\ Begins(t, p, 192, 17)
    /\ height < 65536 => Short(t, p + 5) = height
    /\ width < 65536 => Short(t, p + 7) = width
    /\ t[p + 12] = 0 /\ t[p + 15] = 1 /\ t[p + 18] = 1

\* the third, with the size and the numbers of the quantizer tables, 19,
LEMMA SOF0Stands ==
    ASSUME NEW t \in Bytes, NEW p \in Nat \ {0}, NEW width \in Nat, NEW height \in Nat
    PROVE  /\ SOF0(width, height) \in Bytes /\ Len(SOF0(width, height)) = 19
           /\ Stands(t, p, SOF0(width, height)) => FrameAt(t, p, width, height)
  <1> DEFINE v == 65472
             l == 17
             marker == 192
             words == Word(v) \o Word(l)
             a == <<8>>
             b == Word(height)
             c == Word(width)
             d == <<3, 1, 17, 0, 2, 17, 1, 3, 17, 1>>
             s1 == words \o a
             s2 == s1 \o b
             s3 == s2 \o c
             s4 == s3 \o d
  <1>1. SOF0(width, height) = s4
    BY DEF SOF0
  <1>2. a \in Bytes /\ b \in Bytes /\ c \in Bytes /\ d \in Bytes
    <2>1. b \in Bytes /\ c \in Bytes
      BY WordIsBytes
    <2>2. a \in Bytes /\ d \in Bytes
      BY DEF Bytes
    <2> QED
      BY <2>1, <2>2
  <1>2l. Len(a) = 1 /\ Len(b) = 2 /\ Len(c) = 2 /\ Len(d) = 10
    BY DEF Word
  <1>2d. d[4] = 0 /\ d[7] = 1 /\ d[10] = 1
    OBVIOUS
  <1>3. Marks(v, marker) /\ IsShort(v) /\ IsShort(l)
    BY DEF Marks, IsShort
  <1> HIDE DEF v, l, marker
  <1>4. words \in Bytes
    BY <1>3, TwoWords
  <1>4a. Len(words) = 4
    BY <1>3, TwoWords
  <1> HIDE DEF words, a, b, c, d
  <1>5. /\ s1 \in Bytes /\ Len(s1) = Len(words) + Len(a)
        /\ Stands(t, p, s1) => Stands(t, p, words)
    BY <1>2, <1>4, BytesSplit
  <1> HIDE DEF s1
  <1>6. /\ s2 \in Bytes /\ Len(s2) = Len(s1) + Len(b)
        /\ Stands(t, p, s2) => Stands(t, p, s1) /\ Stands(t, p + Len(s1), b)
    BY <1>2, <1>5, BytesSplit
  <1> HIDE DEF s2
  <1>7. /\ s3 \in Bytes /\ Len(s3) = Len(s2) + Len(c)
        /\ Stands(t, p, s3) => Stands(t, p, s2) /\ Stands(t, p + Len(s2), c)
    BY <1>2, <1>6, BytesSplit
  <1> HIDE DEF s3
  <1>8. /\ s4 \in Bytes /\ Len(s4) = Len(s3) + Len(d)
        /\ Stands(t, p, s4) => Stands(t, p, s3) /\ Stands(t, p + Len(s3), d)
    BY <1>2, <1>7, BytesSplit
  <1> HIDE DEF s4
  <1>9. Len(s1) = 5 /\ Len(s2) = 7 /\ Len(s3) = 9 /\ Len(s4) = 19
    BY <1>2l, <1>4a, <1>5, <1>6, <1>7, <1>8
  <1>10. ASSUME Stands(t, p, words) PROVE Begins(t, p, marker, l)
    <2>1. Stands(t, p, Word(v) \o Word(l))
      BY <1>10 DEF words
    <2> QED
      BY <1>3, <2>1, MarkerStands, Zenon
  <1>11. ASSUME Stands(t, p, s4)
         PROVE  FrameAt(t, p, width, height)
    <2>1. Stands(t, p + 9, d) /\ Stands(t, p, s3)
      BY <1>8, <1>9, <1>11
    <2>2. Stands(t, p + 7, c) /\ Stands(t, p, s2)
      BY <1>7, <1>9, <2>1
    <2>3. Stands(t, p + 5, b) /\ Stands(t, p, s1)
      BY <1>6, <1>9, <2>2
    <2>4. Stands(t, p, words)
      BY <1>5, <2>3
    <2>5. Begins(t, p, 192, 17)
      BY <1>10, <2>4 DEF marker, l
    <2> DEFINE i == p + 5
               j == p + 7
               k == p + 9
    <2>6. i \in Nat \ {0} /\ j \in Nat \ {0} /\ k \in Nat
      OBVIOUS
    <2>7. k + 4 - 1 = p + 12 /\ k + 7 - 1 = p + 15 /\ k + 10 - 1 = p + 18
      OBVIOUS
    <2> HIDE DEF i, j, k
    <2>8. Stands(t, i, Word(height)) /\ Stands(t, j, Word(width))
      BY <2>2, <2>3 DEF i, j, b, c
    <2>9. /\ height < 65536 => Short(t, i) = height
          /\ width < 65536 => Short(t, j) = width
      BY <2>6, <2>8, WordStands
    <2>10. \A n \in 1 .. 10 : t[k + n - 1] = d[n]
      BY <1>2l, <2>1 DEF Stands, k
    <2>11. t[k + 4 - 1] = d[4] /\ t[k + 7 - 1] = d[7] /\ t[k + 10 - 1] = d[10]
      BY <2>10
    <2>12. t[p + 12] = 0 /\ t[p + 15] = 1 /\ t[p + 18] = 1
      BY <1>2d, <2>7, <2>11
    <2> QED
      BY <2>5, <2>9, <2>12 DEF i, j, FrameAt
  <1> QED
    BY <1>1, <1>8, <1>9, <1>11

\* the last, with the tables of each component, 14.
LEMMA SOSStands ==
    ASSUME NEW t \in Bytes, NEW p \in Nat \ {0}
    PROVE  /\ SOS \in Bytes /\ Len(SOS) = 14
           /\ Stands(t, p, SOS) =>
                /\ Begins(t, p, 218, 12)
                /\ t[p + 6] = 0 /\ t[p + 8] = 17 /\ t[p + 10] = 17
  <1> DEFINE v == 65498
             l == 12
             marker == 218
             words == Word(v) \o Word(l)
             d == <<3, 1, 0, 2, 17, 3, 17, 0, 63, 0>>
             s1 == words \o d
  <1>1. SOS = s1
    BY DEF SOS
  <1>2. d \in Bytes
    BY DEF Bytes
  <1>2l. Len(d) = 10
    OBVIOUS
  <1>2d. d[3] = 0 /\ d[5] = 17 /\ d[7] = 17
    OBVIOUS
  <1>3. Marks(v, marker) /\ IsShort(v) /\ IsShort(l)
    BY DEF Marks, IsShort
  <1> HIDE DEF v, l, marker
  <1>4. words \in Bytes
    BY <1>3, TwoWords
  <1>4a. Len(words) = 4
    BY <1>3, TwoWords
  <1> HIDE DEF words, d
  <1>5. /\ s1 \in Bytes /\ Len(s1) = Len(words) + Len(d)
        /\ Stands(t, p, s1) => Stands(t, p, words) /\ Stands(t, p + Len(words), d)
    BY <1>2, <1>4, BytesSplit
  <1> HIDE DEF s1
  <1>9. Len(s1) = 14
    BY <1>2l, <1>4a, <1>5
  <1>10. ASSUME Stands(t, p, words) PROVE Begins(t, p, marker, l)
    <2>1. Stands(t, p, Word(v) \o Word(l))
      BY <1>10 DEF words
    <2> QED
      BY <1>3, <2>1, MarkerStands, Zenon
  <1>11. ASSUME Stands(t, p, s1)
         PROVE  /\ Begins(t, p, 218, 12)
                /\ t[p + 6] = 0 /\ t[p + 8] = 17 /\ t[p + 10] = 17
    <2>1. Stands(t, p + 4, d) /\ Stands(t, p, words)
      BY <1>4a, <1>5, <1>11
    <2>5. Begins(t, p, 218, 12)
      BY <1>10, <2>1 DEF marker, l
    <2> DEFINE k == p + 4
    <2>7. k + 3 - 1 = p + 6 /\ k + 5 - 1 = p + 8 /\ k + 7 - 1 = p + 10
      OBVIOUS
    <2> HIDE DEF k
    <2>10. \A n \in 1 .. 10 : t[k + n - 1] = d[n]
      BY <1>2l, <2>1 DEF Stands, k
    <2>11. t[k + 3 - 1] = d[3] /\ t[k + 5 - 1] = d[5] /\ t[k + 7 - 1] = d[7]
      BY <2>10
    <2>12. t[p + 6] = 0 /\ t[p + 8] = 17 /\ t[p + 10] = 17
      BY <1>2d, <2>7, <2>11
    <2> QED
      BY <2>5, <2>12
  <1> QED
    BY <1>1, <1>5, <1>9, <1>11

\* A Huffman table in the header: its number, the counts and the values.
SpecAt(t, p, id, nr, values) ==
    t[p] = id /\ Stands(t, p + 1, nr) /\ Stands(t, p + 17, values)

\* There it stands if it was written there.
LEMMA SpecStands ==
    ASSUME NEW t \in Bytes, NEW p \in Nat \ {0}, NEW id, <<id>> \in Bytes,
           NEW nr \in Bytes, Len(nr) = 16, NEW values \in Bytes
    PROVE  /\ HuffmanSpec(id, nr, values) \in Bytes
           /\ Len(HuffmanSpec(id, nr, values)) = 17 + Len(values)
           /\ Stands(t, p, HuffmanSpec(id, nr, values)) => SpecAt(t, p, id, nr, values)
  <1> DEFINE a == <<id>>
             s1 == a \o nr
             s2 == s1 \o values
  <1>1. HuffmanSpec(id, nr, values) = s2
    BY DEF HuffmanSpec
  <1>2. a \in Bytes
    OBVIOUS
  <1>2l. Len(a) = 1 /\ a[1] = id
    OBVIOUS
  <1>2n. Len(values) \in Nat
    BY LenProperties DEF Bytes
  <1> HIDE DEF a
  <1>5. /\ s1 \in Bytes /\ Len(s1) = Len(a) + Len(nr)
        /\ Stands(t, p, s1) => Stands(t, p, a) /\ Stands(t, p + Len(a), nr)
    BY <1>2, BytesSplit
  <1> HIDE DEF s1
  <1>6. /\ s2 \in Bytes /\ Len(s2) = Len(s1) + Len(values)
        /\ Stands(t, p, s2) => Stands(t, p, s1) /\ Stands(t, p + Len(s1), values)
    BY <1>5, BytesSplit
  <1> HIDE DEF s2
  <1>7. Len(s1) = 17 /\ Len(s2) = 17 + Len(values)
    BY <1>2l, <1>2n, <1>5, <1>6
  <1>8. ASSUME Stands(t, p, s2) PROVE SpecAt(t, p, id, nr, values)
    <2>1. Stands(t, p + 17, values) /\ Stands(t, p, s1)
      BY <1>6, <1>7, <1>8
    <2>2. Stands(t, p + 1, nr) /\ Stands(t, p, a)
      BY <1>2l, <1>5, <2>1
    <2>3. t[p] = id
      <3>1. p + 1 - 1 = p
        OBVIOUS
      <3>2. \A n \in 1 .. 1 : t[p + n - 1] = a[n]
        BY <1>2l, <2>2 DEF Stands
      <3>3. t[p + 1 - 1] = a[1]
        BY <3>2
      <3> QED
        BY <1>2l, <3>1, <3>3
    <2> QED
      BY <2>1, <2>2, <2>3 DEF SpecAt
  <1> QED
    BY <1>1, <1>6, <1>7, <1>8

\* The Huffman tables in the header.
HuffmanAt(t, p) ==
    /\ Begins(t, p, 196, 418)
    /\ SpecAt(t, p + 4, 0, Standard_DC_Lum_NRCodes, Standard_DC_Lum_Values)
    /\ SpecAt(t, p + 33, 16, Standard_AC_Lum_NRCodes, Standard_AC_Lum_Values)
    /\ SpecAt(t, p + 212, 1, Standard_DC_Chroma_NRCodes, Standard_DC_Chroma_Values)
    /\ SpecAt(t, p + 241, 17, Standard_AC_Chroma_NRCodes, Standard_AC_Chroma_Values)

\* The counts are bytes, and so are the values.
LEMMA TablesAreBytes ==
    /\ Standard_DC_Lum_NRCodes \in Bytes /\ Standard_DC_Lum_Values \in Bytes
    /\ Standard_AC_Lum_NRCodes \in Bytes /\ Standard_AC_Lum_Values \in Bytes
    /\ Standard_DC_Chroma_NRCodes \in Bytes /\ Standard_DC_Chroma_Values \in Bytes
    /\ Standard_AC_Chroma_NRCodes \in Bytes /\ Standard_AC_Chroma_Values \in Bytes
  <1>1. /\ Standard_DC_Lum_NRCodes \in Bytes
        /\ Standard_DC_Chroma_NRCodes \in Bytes
        /\ Standard_AC_Lum_NRCodes \in Bytes
        /\ Standard_AC_Chroma_NRCodes \in Bytes
    BY DEF Bytes, Standard_DC_Lum_NRCodes, Standard_DC_Chroma_NRCodes,
           Standard_AC_Lum_NRCodes, Standard_AC_Chroma_NRCodes
  <1>2. /\ Standard_DC_Lum_Values \in Bytes
        /\ Standard_DC_Chroma_Values \in Bytes
        /\ Standard_AC_Lum_Values \in Bytes
        /\ Standard_AC_Chroma_Values \in Bytes
    BY DCLumTable, DCChromaTable, ACLumTable, ACChromaTable DEF Bytes
  <1> QED
    BY <1>1, <1>2

\* There are sixteen counts in each table.
LEMMA SixteenCounts ==
    /\ Len(Standard_DC_Lum_NRCodes) = 16 /\ Len(Standard_AC_Lum_NRCodes) = 16
    /\ Len(Standard_DC_Chroma_NRCodes) = 16 /\ Len(Standard_AC_Chroma_NRCodes) = 16
  BY DEF Standard_DC_Lum_NRCodes, Standard_DC_Chroma_NRCodes,
         Standard_AC_Lum_NRCodes, Standard_AC_Chroma_NRCodes

\* The segment of the Huffman tables is 420 bytes.
LEMMA DHTStands ==
    ASSUME NEW t \in Bytes, NEW p \in Nat \ {0}
    PROVE  /\ DHT \in Bytes /\ Len(DHT) = 420
           /\ Stands(t, p, DHT) => HuffmanAt(t, p)
  <1> DEFINE v == 65476
             l == 418
             marker == 196
             words == Word(v) \o Word(l)
             i1 == 0
             i2 == 16
             i3 == 1
             i4 == 17
             n1 == Standard_DC_Lum_NRCodes
             n2 == Standard_AC_Lum_NRCodes
             n3 == Standard_DC_Chroma_NRCodes
             n4 == Standard_AC_Chroma_NRCodes
             v1 == Standard_DC_Lum_Values
             v2 == Standard_AC_Lum_Values
             v3 == Standard_DC_Chroma_Values
             v4 == Standard_AC_Chroma_Values
             a == HuffmanSpec(i1, n1, v1)
             b == HuffmanSpec(i2, n2, v2)
             c == HuffmanSpec(i3, n3, v3)
             d == HuffmanSpec(i4, n4, v4)
             s1 == words \o a
             s2 == s1 \o b
             s3 == s2 \o c
             s4 == s3 \o d
             p1 == p + 4
             p2 == p + 33
             p3 == p + 212
             p4 == p + 241
  <1>1. DHT = s4
    BY DEF DHT, DHTLength
  <1>2. /\ n1 \in Bytes /\ v1 \in Bytes /\ n2 \in Bytes /\ v2 \in Bytes
        /\ n3 \in Bytes /\ v3 \in Bytes /\ n4 \in Bytes /\ v4 \in Bytes
    BY TablesAreBytes
  <1>2n. Len(n1) = 16 /\ Len(n2) = 16 /\ Len(n3) = 16 /\ Len(n4) = 16
    BY SixteenCounts
  <1>2v. Len(v1) = 12 /\ Len(v2) = 162 /\ Len(v3) = 12 /\ Len(v4) = 162
    BY DCLumTable, DCChromaTable, ACLumTable, ACChromaTable
  <1>2i. <<i1>> \in Bytes /\ <<i2>> \in Bytes /\ <<i3>> \in Bytes /\ <<i4>> \in Bytes
    BY DEF Bytes
  <1>2p. p1 \in Nat \ {0} /\ p2 \in Nat \ {0} /\ p3 \in Nat \ {0} /\ p4 \in Nat \ {0}
    OBVIOUS
  <1>3. Marks(v, marker) /\ IsShort(v) /\ IsShort(l)
    BY DEF Marks, IsShort
  <1> HIDE DEF v, l, marker, p1, p2, p3, p4, i1, i2, i3, i4, n1, n2, n3, n4,
               v1, v2, v3, v4
  <1>4. words \in Bytes
    BY <1>3, TwoWords
  <1>4a. Len(words) = 4
    BY <1>3, TwoWords
  <1> HIDE DEF words
  <1>5a. /\ a \in Bytes /\ Len(a) = 17 + Len(v1)
         /\ Stands(t, p1, a) => SpecAt(t, p1, i1, n1, v1)
    <2>1. n1 \in Bytes /\ v1 \in Bytes /\ p1 \in Nat \ {0} /\ <<i1>> \in Bytes
      BY <1>2, <1>2i, <1>2p
    <2>2. Len(n1) = 16
      BY <1>2n
    <2> QED
      BY <2>1, <2>2, SpecStands
  <1>5b. /\ b \in Bytes /\ Len(b) = 17 + Len(v2)
         /\ Stands(t, p2, b) => SpecAt(t, p2, i2, n2, v2)
    <2>1. n2 \in Bytes /\ v2 \in Bytes /\ p2 \in Nat \ {0} /\ <<i2>> \in Bytes
      BY <1>2, <1>2i, <1>2p
    <2>2. Len(n2) = 16
      BY <1>2n
    <2> QED
      BY <2>1, <2>2, SpecStands
  <1>5c. /\ c \in Bytes /\ Len(c) = 17 + Len(v3)
         /\ Stands(t, p3, c) => SpecAt(t, p3, i3, n3, v3)
    <2>1. n3 \in Bytes /\ v3 \in Bytes /\ p3 \in Nat \ {0} /\ <<i3>> \in Bytes
      BY <1>2, <1>2i, <1>2p
    <2>2. Len(n3) = 16
      BY <1>2n
    <2> QED
      BY <2>1, <2>2, SpecStands
  <1>5d. /\ d \in Bytes /\ Len(d) = 17 + Len(v4)
         /\ Stands(t, p4, d) => SpecAt(t, p4, i4, n4, v4)
    <2>1. n4 \in Bytes /\ v4 \in Bytes /\ p4 \in Nat \ {0} /\ <<i4>> \in Bytes
      BY <1>2, <1>2i, <1>2p
    <2>2. Len(n4) = 16
      BY <1>2n
    <2> QED
      BY <2>1, <2>2, SpecStands
  <1> HIDE DEF a, b, c, d
  <1>5l. Len(a) = 29 /\ Len(b) = 179 /\ Len(c) = 29 /\ Len(d) = 179
    <2>1. /\ Len(a) = 17 + Len(v1) /\ Len(b) = 17 + Len(v2)
          /\ Len(c) = 17 + Len(v3) /\ Len(d) = 17 + Len(v4)
      BY <1>5a, <1>5b, <1>5c, <1>5d, Zenon
    <2> QED
      BY <1>2v, <2>1
  <1>5t. a \in Bytes /\ b \in Bytes /\ c \in Bytes /\ d \in Bytes
    BY <1>5a, <1>5b, <1>5c, <1>5d, Zenon
  <1>5. /\ s1 \in Bytes /\ Len(s1) = Len(words) + Len(a)
        /\ Stands(t, p, s1) => Stands(t, p, words) /\ Stands(t, p + Len(words), a)
    BY <1>4, <1>5t, BytesSplit
  <1> HIDE DEF s1
  <1>6. /\ s2 \in Bytes /\ Len(s2) = Len(s1) + Len(b)
        /\ Stands(t, p, s2) => Stands(t, p, s1) /\ Stands(t, p + Len(s1), b)
    BY <1>5, <1>5t, BytesSplit
  <1> HIDE DEF s2
  <1>7. /\ s3 \in Bytes /\ Len(s3) = Len(s2) + Len(c)
        /\ Stands(t, p, s3) => Stands(t, p, s2) /\ Stands(t, p + Len(s2), c)
    BY <1>6, <1>5t, BytesSplit
  <1> HIDE DEF s3
  <1>8. /\ s4 \in Bytes /\ Len(s4) = Len(s3) + Len(d)
        /\ Stands(t, p, s4) => Stands(t, p, s3) /\ Stands(t, p + Len(s3), d)
    BY <1>7, <1>5t, BytesSplit
  <1> HIDE DEF s4
  <1>9. Len(s1) = 33 /\ Len(s2) = 212 /\ Len(s3) = 241 /\ Len(s4) = 420
    <2>1. /\ Len(s1) = Len(words) + Len(a) /\ Len(s2) = Len(s1) + Len(b)
          /\ Len(s3) = Len(s2) + Len(c) /\ Len(s4) = Len(s3) + Len(d)
      BY <1>5, <1>6, <1>7, <1>8, Zenon
    <2> QED
      BY <1>4a, <1>5l, <2>1
  <1>10. ASSUME Stands(t, p, words) PROVE Begins(t, p, marker, l)
    <2>1. Stands(t, p, Word(v) \o Word(l))
      BY <1>10 DEF words
    <2> QED
      BY <1>3, <2>1, MarkerStands, Zenon
  <1>11. ASSUME Stands(t, p, s4) PROVE HuffmanAt(t, p)
    <2>1. Stands(t, p4, d) /\ Stands(t, p, s3)
      BY <1>8, <1>9, <1>11 DEF p4
    <2>2. Stands(t, p3, c) /\ Stands(t, p, s2)
      BY <1>7, <1>9, <2>1 DEF p3
    <2>3. Stands(t, p2, b) /\ Stands(t, p, s1)
      BY <1>6, <1>9, <2>2 DEF p2
    <2>4. Stands(t, p1, a) /\ Stands(t, p, words)
      BY <1>4a, <1>5, <2>3 DEF p1
    <2>5. Begins(t, p, 196, 418)
      BY <1>10, <2>4 DEF marker, l
    <2>6. /\ SpecAt(t, p1, i1, n1, v1) /\ SpecAt(t, p2, i2, n2, v2)
          /\ SpecAt(t, p3, i3, n3, v3) /\ SpecAt(t, p4, i4, n4, v4)
      BY <1>5a, <1>5b, <1>5c, <1>5d, <2>1, <2>2, <2>3, <2>4, Zenon
    <2> QED
      BY <2>5, <2>6 DEF HuffmanAt, p1, p2, p3, p4, i1, i2, i3, i4,
                        n1, n2, n3, n4, v1, v2, v3, v4
  <1> QED
    BY <1>1, <1>8, <1>9, <1>11

\* The quantizers in the header.
QuantizersAt(t, p, YTab, CbCrTab) ==
    /\ Begins(t, p, 219, 132)
    /\ t[p + 4] = 0 /\ Stands(t, p + 5, TableBytes(YTab))
    /\ t[p + 69] = 1 /\ Stands(t, p + 70, TableBytes(CbCrTab))

\* The start of the scan in the header.
ScanAt(t, p) ==
    /\ Begins(t, p, 218, 12)
    /\ t[p + 6] = 0 /\ t[p + 8] = 17 /\ t[p + 10] = 17

\* What is where in the header.
HeaderIs(h, width, height, YTab, CbCrTab) ==
    /\ h \in Bytes /\ Len(h) = 607
    /\ Begins(h, 3, 224, 16)
    /\ QuantizersAt(h, 21, YTab, CbCrTab)
    /\ FrameAt(h, 155, width, height)
    /\ HuffmanAt(h, 174)
    /\ ScanAt(h, 594)

\* The header consists of its segments.
LEMMA HeaderStands ==
    ASSUME NEW width \in Nat, NEW height \in Nat,
           NEW YTab \in QuantizerTables, NEW CbCrTab \in QuantizerTables
    PROVE  HeaderIs(WriteJpegHeader(width, height, YTab, CbCrTab),
                    width, height, YTab, CbCrTab)
  <1> DEFINE h == WriteJpegHeader(width, height, YTab, CbCrTab)
             soi == Word(65496)
             a == APP0
             b == DQT(YTab, CbCrTab)
             c == SOF0(width, height)
             d == DHT
             e == SOS
             s1 == soi \o a
             s2 == s1 \o b
             s3 == s2 \o c
             s4 == s3 \o d
             s5 == s4 \o e
             one == 1
             pa == 3
             pb == 21
             pc1 == 155
             pd == 174
             pe == 594
  <1>1. h = s5
    BY DEF WriteJpegHeader
  <1>2. h \in Bytes
    BY HeaderIsBytes
  <1>3. soi \in Bytes
    BY DEF Word, Bytes
  <1>3l. Len(soi) = 2
    BY DEF Word
  <1>4. /\ one \in Nat \ {0} /\ pa \in Nat \ {0} /\ pb \in Nat \ {0}
        /\ pc1 \in Nat \ {0} /\ pd \in Nat \ {0} /\ pe \in Nat \ {0}
    OBVIOUS
  <1>5. Stands(h, one, h)
    <2>1. Len(h) \in Nat
      BY <1>2, LenProperties DEF Bytes
    <2> HIDE DEF h
    <2>2. 1 + Len(h) <= Len(h) + 1 /\ \A i \in 1 .. Len(h) : 1 + i - 1 = i
      BY <2>1
    <2> QED
      BY <2>2 DEF Stands
  <1>6. /\ one + 2 = pa /\ one + 20 = pb /\ one + 154 = pc1
        /\ one + 173 = pd /\ one + 593 = pe
    OBVIOUS
  <1> HIDE DEF h, soi, one, pa, pb, pc1, pd, pe
  <1>7. /\ a \in Bytes /\ Len(a) = 18
        /\ Stands(h, pa, a) => Begins(h, pa, 224, 16)
    BY <1>2, <1>4, APP0Stands
  <1>8. /\ b \in Bytes /\ Len(b) = 134
        /\ Stands(h, pb, b) => QuantizersAt(h, pb, YTab, CbCrTab)
    BY <1>2, <1>4, DQTStands DEF QuantizersAt
  <1>9. /\ c \in Bytes /\ Len(c) = 19
        /\ Stands(h, pc1, c) => FrameAt(h, pc1, width, height)
    BY <1>2, <1>4, SOF0Stands
  <1>10. /\ d \in Bytes /\ Len(d) = 420
         /\ Stands(h, pd, d) => HuffmanAt(h, pd)
    BY <1>2, <1>4, DHTStands
  <1>11. /\ e \in Bytes /\ Len(e) = 14
         /\ Stands(h, pe, e) => ScanAt(h, pe)
    BY <1>2, <1>4, SOSStands DEF ScanAt
  <1> HIDE DEF a, b, c, d, e
  <1>12. a \in Bytes /\ b \in Bytes /\ c \in Bytes /\ d \in Bytes /\ e \in Bytes
    BY <1>7, <1>8, <1>9, <1>10, <1>11, Zenon
  <1>13. /\ Len(a) = 18 /\ Len(b) = 134 /\ Len(c) = 19 /\ Len(d) = 420 /\ Len(e) = 14
    BY <1>7, <1>8, <1>9, <1>10, <1>11, Zenon
  <1>14. /\ s1 \in Bytes /\ Len(s1) = Len(soi) + Len(a)
         /\ Stands(h, one, s1) => Stands(h, one + Len(soi), a)
    BY <1>2, <1>3, <1>4, <1>12, BytesSplit
  <1> HIDE DEF s1
  <1>15. /\ s2 \in Bytes /\ Len(s2) = Len(s1) + Len(b)
         /\ Stands(h, one, s2) => Stands(h, one, s1) /\ Stands(h, one + Len(s1), b)
    BY <1>2, <1>4, <1>12, <1>14, BytesSplit
  <1> HIDE DEF s2
  <1>16. /\ s3 \in Bytes /\ Len(s3) = Len(s2) + Len(c)
         /\ Stands(h, one, s3) => Stands(h, one, s2) /\ Stands(h, one + Len(s2), c)
    BY <1>2, <1>4, <1>12, <1>15, BytesSplit
  <1> HIDE DEF s3
  <1>17. /\ s4 \in Bytes /\ Len(s4) = Len(s3) + Len(d)
         /\ Stands(h, one, s4) => Stands(h, one, s3) /\ Stands(h, one + Len(s3), d)
    BY <1>2, <1>4, <1>12, <1>16, BytesSplit
  <1> HIDE DEF s4
  <1>18. /\ s5 \in Bytes /\ Len(s5) = Len(s4) + Len(e)
         /\ Stands(h, one, s5) => Stands(h, one, s4) /\ Stands(h, one + Len(s4), e)
    BY <1>2, <1>4, <1>12, <1>17, BytesSplit
  <1> HIDE DEF s5
  <1>19. /\ Len(s1) = 20 /\ Len(s2) = 154 /\ Len(s3) = 173 /\ Len(s4) = 593
         /\ Len(s5) = 607
    BY <1>3l, <1>13, <1>14, <1>15, <1>16, <1>17, <1>18
  <1>20. Stands(h, pe, e) /\ Stands(h, one, s4)
    BY <1>1, <1>5, <1>6, <1>18, <1>19
  <1>21. Stands(h, pd, d) /\ Stands(h, one, s3)
    BY <1>6, <1>17, <1>19, <1>20
  <1>22. Stands(h, pc1, c) /\ Stands(h, one, s2)
    BY <1>6, <1>16, <1>19, <1>21
  <1>23. Stands(h, pb, b) /\ Stands(h, one, s1)
    BY <1>6, <1>15, <1>19, <1>22
  <1>24. Stands(h, pa, a)
    BY <1>3l, <1>6, <1>14, <1>23
  <1>25. /\ Begins(h, pa, 224, 16) /\ QuantizersAt(h, pb, YTab, CbCrTab)
         /\ FrameAt(h, pc1, width, height) /\ HuffmanAt(h, pd) /\ ScanAt(h, pe)
    BY <1>7, <1>8, <1>9, <1>10, <1>11, <1>20, <1>21, <1>22, <1>23, <1>24, Zenon
  <1>26. h \in Bytes /\ Len(h) = 607
    BY <1>1, <1>2, <1>19
  <1> QED
    BY <1>25, <1>26 DEF HeaderIs, h, pa, pb, pc1, pd, pe

-----------------------------------------------------------------------------
(* What the decoder finds in the header *)

\* The lengths lead from segment to segment, and no further than the end.
LEMMA HeaderWalk ==
    ASSUME NEW h, NEW width, NEW height, NEW YTab, NEW CbCrTab,
           HeaderIs(h, width, height, YTab, CbCrTab)
    PROVE  /\ EndOf(h, 3) = 21 /\ EndOf(h, 21) = 155 /\ EndOf(h, 155) = 174
           /\ EndOf(h, 174) = 594 /\ EndOf(h, 594) = 608
           /\ Begin(h) = {3, 21, 155, 174, 594, 608}
  <1>1. Len(h) = 607
    BY DEF HeaderIs
  <1>2. /\ Begins(h, 3, 224, 16) /\ Begins(h, 21, 219, 132) /\ Begins(h, 155, 192, 17)
        /\ Begins(h, 174, 196, 418) /\ Begins(h, 594, 218, 12)
    BY DEF HeaderIs, QuantizersAt, FrameAt, HuffmanAt, ScanAt
  <1>3. EndOf(h, 3) = 21 /\ EndOf(h, 21) = 155 /\ EndOf(h, 155) = 174
    <2>1. Short(h, 3 + 2) = 16 /\ Short(h, 21 + 2) = 132 /\ Short(h, 155 + 2) = 17
      BY <1>2 DEF Begins
    <2> QED
      BY <2>1 DEF EndOf
  <1>4. EndOf(h, 174) = 594 /\ EndOf(h, 594) = 608
    <2>1. Short(h, 174 + 2) = 418 /\ Short(h, 594 + 2) = 12
      BY <1>2 DEF Begins
    <2> QED
      BY <2>1 DEF EndOf
  <1> DEFINE R(p) == SegmentAfter(h, p)
             Step(c) == [n \in 1 .. 16 |-> IF n = 1 THEN 3 ELSE R(c[n - 1])]
             at == CHOOSE c : c = Step(c)
             g == [n \in 1 .. 16 |-> IF n = 1 THEN 3 ELSE IF n = 2 THEN 21
                                     ELSE IF n = 3 THEN 155 ELSE IF n = 4 THEN 174
                                     ELSE IF n = 5 THEN 594 ELSE 608]
  <1>5. R(3) = 21 /\ R(21) = 155 /\ R(155) = 174 /\ R(174) = 594 /\ R(594) = 608
        /\ R(608) = 608
    BY <1>1, <1>3, <1>4 DEF SegmentAfter
  <1>6. Begin(h) = {at[n] : n \in 1 .. 16}
    BY DEF Begin
  <1> HIDE DEF R
  <1>7. g = Step(g)
    <2>1. ASSUME NEW n \in 1 .. 16
          PROVE  g[n] = IF n = 1 THEN 3 ELSE R(g[n - 1])
      <3>1. CASE n \in 1 .. 5
        <4>1. n = 1 \/ n = 2 \/ n = 3 \/ n = 4 \/ n = 5
          BY <3>1
        <4> QED
          BY <1>5, <4>1
      <3>2. CASE n = 6
        BY <1>5, <3>2
      <3>3. CASE n \in 7 .. 16
        <4>1. n - 1 \in 6 .. 16 /\ n - 1 \in 1 .. 16
          BY <3>3
        <4>2. g[n] = 608 /\ g[n - 1] = 608
          BY <3>3, <4>1
        <4> HIDE DEF g
        <4> QED
          BY <1>5, <3>3, <4>2
      <3> QED
        BY <3>1, <3>2, <3>3
    <2> HIDE DEF g
    <2>2. g = [n \in 1 .. 16 |-> g[n]]
      BY DEF g
    <2> QED
      BY <2>1, <2>2
  <1>8. at = Step(at)
    <2> HIDE DEF Step
    <2> QED
      BY <1>7
  <1> HIDE DEF at, g
  <1>9. at[1] = 3 /\ \A n \in 2 .. 16 : at[n] = R(at[n - 1])
    <2>1. at[1] = 3
      BY <1>8
    <2>2. ASSUME NEW n \in 2 .. 16 PROVE at[n] = R(at[n - 1])
      <3>1. n \in 1 .. 16 /\ n # 1
        OBVIOUS
      <3> QED
        BY <1>8, <3>1
    <2> QED
      BY <2>1, <2>2
  <1>10. at[2] = 21 /\ at[3] = 155 /\ at[4] = 174 /\ at[5] = 594 /\ at[6] = 608
    <2>1. /\ at[2] = R(at[1]) /\ at[3] = R(at[2]) /\ at[4] = R(at[3])
          /\ at[5] = R(at[4]) /\ at[6] = R(at[5])
      BY <1>9
    <2> QED
      BY <1>5, <1>9, <2>1
  <1> DEFINE top == 16
             low == 6
             Good == {n \in low .. top : at[n] = 608}
  <1>11. \A n \in low .. top : n \in Good
    <2>1. low \in Good
      BY <1>10
    <2>2. ASSUME NEW n \in low .. top - 1, n \in Good PROVE n + 1 \in Good
      <3>1. n + 1 \in 2 .. 16 /\ (n + 1) - 1 = n /\ n + 1 \in low .. top
        OBVIOUS
      <3>2. at[n + 1] = R(at[n])
        BY <1>9, <3>1
      <3> QED
        BY <1>5, <2>2, <3>1, <3>2
    <2>3. low \in Nat /\ top \in Nat
      OBVIOUS
    <2> HIDE DEF Good, low, top
    <2> QED
      BY <2>1, <2>2, <2>3, Induction
  <1>12. \A n \in 1 .. 16 : at[n] \in {3, 21, 155, 174, 594, 608}
    <2>1. ASSUME NEW n \in 1 .. 16 PROVE at[n] \in {3, 21, 155, 174, 594, 608}
      <3>1. n = 1 \/ n = 2 \/ n = 3 \/ n = 4 \/ n = 5 \/ n \in low .. top
        OBVIOUS
      <3>2. n \in low .. top => at[n] = 608
        BY <1>11
      <3> QED
        BY <1>9, <1>10, <3>1, <3>2
    <2> QED
      BY <2>1
  <1>13. \A p \in {3, 21, 155, 174, 594, 608} : \E n \in 1 .. 16 : at[n] = p
    <2>1. at[1] = 3
      BY <1>9
    <2>2. 1 \in 1 .. 16 /\ 2 \in 1 .. 16 /\ 3 \in 1 .. 16 /\ 4 \in 1 .. 16
          /\ 5 \in 1 .. 16 /\ 6 \in 1 .. 16
      OBVIOUS
    <2> QED
      BY <1>10, <2>1, <2>2
  <1>14. {at[n] : n \in 1 .. 16} = {3, 21, 155, 174, 594, 608}
    BY <1>12, <1>13
  <1> QED
    BY <1>3, <1>4, <1>6, <1>14

\* Each segment is found by its marker.
LEMMA MarkedOnce ==
    ASSUME NEW h, NEW width, NEW height, NEW YTab, NEW CbCrTab,
           HeaderIs(h, width, height, YTab, CbCrTab)
    PROVE  /\ Marked(h, 192) = {155} /\ Marked(h, 196) = {174}
           /\ Marked(h, 218) = {594} /\ Marked(h, 219) = {21}
  <1>1. Len(h) = 607 /\ Begin(h) = {3, 21, 155, 174, 594, 608}
    BY HeaderWalk DEF HeaderIs
  <1>2. /\ Begins(h, 3, 224, 16) /\ Begins(h, 21, 219, 132) /\ Begins(h, 155, 192, 17)
        /\ Begins(h, 174, 196, 418) /\ Begins(h, 594, 218, 12)
    BY DEF HeaderIs, QuantizersAt, FrameAt, HuffmanAt, ScanAt
  <1>3. /\ h[3] = 255 /\ h[21] = 255 /\ h[155] = 255 /\ h[174] = 255 /\ h[594] = 255
        /\ h[3 + 1] = 224 /\ h[21 + 1] = 219 /\ h[155 + 1] = 192
        /\ h[174 + 1] = 196 /\ h[594 + 1] = 218
    BY <1>2 DEF Begins
  <1>4. ASSUME NEW m
        PROVE  Marked(h, m) = {p \in {3, 21, 155, 174, 594} : h[p + 1] = m}
    <2>1. Marked(h, m) = {p \in Begin(h) : p + 3 <= 607 /\ h[p] = 255 /\ h[p + 1] = m}
      BY <1>1 DEF Marked
    <2>2. \A p \in {3, 21, 155, 174, 594} :
             p \in Begin(h) /\ p + 3 <= 607 /\ h[p] = 255
      BY <1>1, <1>3
    <2>3. \A p \in Begin(h) : p + 3 <= 607 => p \in {3, 21, 155, 174, 594}
      BY <1>1
    <2> QED
      BY <2>1, <2>2, <2>3
  <1>5. \A p \in {3, 21, 155, 174, 594} :
           /\ h[p + 1] = 192 <=> p = 155
           /\ h[p + 1] = 196 <=> p = 174
           /\ h[p + 1] = 218 <=> p = 594
           /\ h[p + 1] = 219 <=> p = 21
    <2>1. ASSUME NEW p \in {3, 21, 155, 174, 594}
          PROVE  /\ h[p + 1] = 192 <=> p = 155
                 /\ h[p + 1] = 196 <=> p = 174
                 /\ h[p + 1] = 218 <=> p = 594
                 /\ h[p + 1] = 219 <=> p = 21
      BY <1>3
    <2> QED
      BY <2>1
  <1>6. /\ Marked(h, 192) = {155} /\ Marked(h, 196) = {174}
        /\ Marked(h, 218) = {594} /\ Marked(h, 219) = {21}
    <2>1. Marked(h, 192) = {155}
      BY <1>4, <1>5
    <2>2. Marked(h, 196) = {174}
      BY <1>4, <1>5
    <2>3. Marked(h, 218) = {594}
      BY <1>4, <1>5
    <2>4. Marked(h, 219) = {21}
      BY <1>4, <1>5
    <2> QED
      BY <2>1, <2>2, <2>3, <2>4
  <1> QED
    BY <1>6

\* What stands in a sequence is a part of it.
LEMMA StandsIsPart ==
    ASSUME NEW T, NEW s \in Seq(T), NEW u \in Seq(T), NEW a \in Nat \ {0},
           NEW b, b = a + Len(u) - 1, Stands(s, a, u)
    PROVE  SubSeq(s, a, b) = u
  <1> DEFINE n == Len(u)
             l == Len(s)
             w == SubSeq(s, a, b)
  <1>1. n \in Nat /\ l \in Nat
    BY LenProperties
  <1>2. a + n <= l + 1 /\ \A i \in 1 .. n : s[a + i - 1] = u[i]
    BY DEF Stands
  <1>3. \A i \in 1 .. l : s[i] \in T
    BY ElementOfSeq
  <1> HIDE DEF n, l
  <1>4. b = a + n - 1
    BY DEF n
  <1>5. b \in Int /\ a \in Int /\ b - a + 1 = n /\ (IF a <= b THEN b - a + 1 ELSE 0) = n
    BY <1>1, <1>4
  <1>6. \A i \in a .. b : s[i] \in T
    BY <1>1, <1>2, <1>3, <1>4
  <1>7. /\ w \in Seq(T) /\ Len(w) = IF a <= b THEN b - a + 1 ELSE 0
        /\ \A i \in 1 .. b - a + 1 : w[i] = s[a + i - 1]
    BY <1>5, <1>6, SubSeqProperties
  <1> HIDE DEF w
  <1>8. Len(w) = Len(u) /\ \A i \in 1 .. Len(u) : w[i] = u[i]
    BY <1>2, <1>5, <1>7 DEF n
  <1>9. w = u
    BY <1>7, <1>8, SeqEqual
  <1> QED
    BY <1>9 DEF w

\* The content of a segment.
LEMMA ContentIs ==
    ASSUME NEW h \in Bytes, NEW p \in Nat \ {0}, NEW e \in Nat, EndOf(h, p) = e,
           NEW n \in Nat, e = p + 4 + n, e <= Len(h) + 1
    PROVE  /\ Content(h, p) \in Bytes /\ Len(Content(h, p)) = n
           /\ \A i \in 1 .. n : Content(h, p)[i] = h[p + 3 + i]
  <1> DEFINE a == p + 4
             b == e - 1
             l == Len(h)
             T == 0 .. 255
             s == SubSeq(h, a, b)
  <1>1. h \in Seq(T) /\ l \in Nat /\ \A i \in 1 .. l : h[i] \in T
    BY LenProperties, ElementOfSeq DEF Bytes
  <1> HIDE DEF T, l
  <1>2. a \in Int /\ b \in Int /\ b - a + 1 = n /\ (IF a <= b THEN b - a + 1 ELSE 0) = n
    OBVIOUS
  <1>3. \A i \in a .. b : h[i] \in T
    BY <1>1 DEF l
  <1>4. \A i \in 1 .. n : a + i - 1 = p + 3 + i
    OBVIOUS
  <1>5. Content(h, p) = s
    BY DEF Content
  <1> HIDE DEF a, b
  <1>6. /\ s \in Seq(T) /\ Len(s) = IF a <= b THEN b - a + 1 ELSE 0
        /\ \A i \in 1 .. b - a + 1 : s[i] = h[a + i - 1]
    BY <1>2, <1>3, SubSeqProperties
  <1> HIDE DEF s
  <1>7. s \in Bytes /\ Len(s) = n
    BY <1>2, <1>6 DEF T, Bytes
  <1>8. ASSUME NEW i \in 1 .. n PROVE s[i] = h[p + 3 + i]
    <2>1. s[i] = h[a + i - 1]
      BY <1>2, <1>6
    <2> QED
      BY <1>4, <2>1
  <1> QED
    BY <1>5, <1>7, <1>8

\* What stands in the segment stands in its content.
LEMMA StandsInContent ==
    ASSUME NEW h, NEW p \in Nat \ {0}, NEW n \in Nat, NEW s, Len(s) = n,
           \A i \in 1 .. n : s[i] = h[p + 3 + i],
           NEW T, NEW u \in Seq(T), NEW q \in Nat \ {0}, NEW r, r = p + 3 + q,
           Stands(h, r, u), q + Len(u) <= n + 1
    PROVE  Stands(s, q, u)
  <1> DEFINE k == Len(u)
  <1>1. k \in Nat
    BY LenProperties
  <1>2. \A i \in 1 .. k : h[r + i - 1] = u[i]
    BY DEF Stands
  <1>3. q + k <= n + 1
    OBVIOUS
  <1> HIDE DEF k
  <1>4. ASSUME NEW i \in 1 .. k PROVE s[q + i - 1] = u[i]
    <2> DEFINE j == q + i - 1
    <2>1. j \in 1 .. n /\ p + 3 + j = r + i - 1
      BY <1>1, <1>3
    <2> HIDE DEF j
    <2>2. s[j] = h[p + 3 + j]
      BY <2>1
    <2> QED
      BY <1>2, <2>1, <2>2 DEF j
  <1> QED
    BY <1>3, <1>4 DEF Stands, k

\* A quantizer table is 64 bytes.
LEMMA TableBytesType ==
    ASSUME NEW tab \in QuantizerTables
    PROVE  /\ TableBytes(tab) \in Bytes /\ Len(TableBytes(tab)) = 64
           /\ \A k \in 0 .. 63 : TableBytes(tab)[k + 1] = tab[k]
  <1> DEFINE s == TableBytes(tab)
             n == 64
             T == 0 .. 255
  <1>1. s \in Seq(T)
    BY TableIsBytes DEF TableBytes, Bytes
  <1>2. DOMAIN s = 1 .. n /\ n \in Nat
    BY DEF TableBytes
  <1>3. \A k \in 0 .. 63 : s[k + 1] = tab[k]
    BY DEF TableBytes
  <1> DEFINE m == Len(s)
  <1> HIDE DEF s, T, n
  <1>4. DOMAIN s = 1 .. m /\ m \in Nat
    BY <1>1, LenProperties
  <1> HIDE DEF m
  <1>5. 1 .. m = 1 .. n
    BY <1>2, <1>4
  <1>6. m = n
    BY <1>2, <1>4, <1>5
  <1> QED
    BY <1>1, <1>3, <1>6 DEF m, n, s, T, Bytes

\* The decoder finds both quantizer tables.
LEMMA QuantizersFound ==
    ASSUME NEW h, NEW width, NEW height, NEW YTab \in QuantizerTables,
           NEW CbCrTab \in QuantizerTables,
           HeaderIs(h, width, height, YTab, CbCrTab)
    PROVE  LET s == Content(h, 21)
           IN  QuantTable(s, 0) = TableBytes(YTab) /\ QuantTable(s, 1) = TableBytes(CbCrTab)
  <1> DEFINE s == Content(h, 21)
             p == 21
             e == 155
             n == 130
             y64 == TableBytes(YTab)
             c64 == TableBytes(CbCrTab)
  <1>1. h \in Bytes /\ Len(h) = 607 /\ EndOf(h, 21) = 155
    BY HeaderWalk DEF HeaderIs
  <1>2. /\ h[21 + 4] = 0 /\ Stands(h, 21 + 5, y64)
        /\ h[21 + 69] = 1 /\ Stands(h, 21 + 70, c64)
    BY DEF HeaderIs, QuantizersAt
  <1>3. y64 \in Bytes /\ Len(y64) = 64 /\ c64 \in Bytes /\ Len(c64) = 64
    BY TableBytesType
  <1>4. p \in Nat \ {0} /\ e \in Nat /\ n \in Nat /\ e = p + 4 + n /\ e <= Len(h) + 1
        /\ EndOf(h, p) = e
    BY <1>1
  <1> HIDE DEF y64, c64
  <1>5. s \in Bytes /\ Len(s) = n /\ \A i \in 1 .. n : s[i] = h[p + 3 + i]
    <2>1. s = Content(h, p)
      OBVIOUS
    <2>2. h \in Bytes /\ EndOf(h, p) = e /\ p \in Nat \ {0} /\ e \in Nat /\ n \in Nat
          /\ e = p + 4 + n /\ e <= Len(h) + 1
      BY <1>1, <1>4
    <2> HIDE DEF s, p, e, n
    <2> QED
      BY <2>1, <2>2, ContentIs
  <1> HIDE DEF s
  <1>6. s[1] = 0 /\ s[66] = 1
    <2>1. 1 \in 1 .. n /\ 66 \in 1 .. n /\ p + 3 + 1 = 21 + 4 /\ p + 3 + 66 = 21 + 69
      OBVIOUS
    <2> HIDE DEF n, p
    <2>2. s[1] = h[p + 3 + 1] /\ s[66] = h[p + 3 + 66]
      BY <1>5, <2>1
    <2> QED
      BY <1>2, <2>1, <2>2
  <1> DEFINE T == 0 .. 255
  <1>7. y64 \in Seq(T) /\ c64 \in Seq(T) /\ s \in Seq(T)
    BY <1>3, <1>5 DEF Bytes
  <1>8. SubSeq(s, 2, 65) = y64
    <2> DEFINE q == 2
               r == 26
               b == 65
    <2>1. q \in Nat \ {0} /\ r = p + 3 + q /\ q + Len(y64) <= n + 1 /\ b = q + Len(y64) - 1
          /\ Stands(h, r, y64)
      BY <1>2, <1>3
    <2> HIDE DEF q, r, b, n, p, T
    <2>2. Stands(s, q, y64)
      BY <1>4, <1>5, <1>7, <2>1, StandsInContent, SMTT(30)
    <2>3. SubSeq(s, q, b) = y64
      BY <1>7, <2>1, <2>2, StandsIsPart
    <2> QED
      BY <2>3 DEF q, b
  <1>9. SubSeq(s, 67, 130) = c64
    <2> DEFINE q == 67
               r == 91
               b == 130
    <2>1. q \in Nat \ {0} /\ r = p + 3 + q /\ q + Len(c64) <= n + 1 /\ b = q + Len(c64) - 1
          /\ Stands(h, r, c64)
      BY <1>2, <1>3
    <2>2. p \in Nat \ {0} /\ n \in Nat
      OBVIOUS
    <2> HIDE DEF q, r, b, n, p, T
    <2>3. Stands(s, q, c64)
      <3>1. c64 \in Seq(T)
        BY <1>7
      <3>2. Len(s) = n /\ \A i \in 1 .. n : s[i] = h[p + 3 + i]
        BY <1>5
      <3> QED
        BY <2>1, <2>2, <3>1, <3>2, StandsInContent
    <2>4. SubSeq(s, q, b) = c64
      BY <1>7, <2>1, <2>3, StandsIsPart
    <2> QED
      BY <2>4 DEF q, b
  <1>10. \A i \in 0 .. Len(s) \div 65 - 1 : i = 0 \/ i = 1
    BY <1>5
  <1>11. 0 \in 0 .. Len(s) \div 65 - 1 /\ 1 \in 0 .. Len(s) \div 65 - 1
    BY <1>5
  <1>12. s[65 * 0 + 1] = 0 /\ s[65 * 1 + 1] = 1
    BY <1>6
  <1>13. QuantTable(s, 0) = y64
    <2> DEFINE i == CHOOSE i \in 0 .. Len(s) \div 65 - 1 : s[65 * i + 1] = 0
    <2>1. i = 0
      BY <1>10, <1>11, <1>12
    <2>2. QuantTable(s, 0) = SubSeq(s, 65 * i + 2, 65 * i + 65)
      BY DEF QuantTable
    <2> HIDE DEF i
    <2>3. 65 * i + 2 = 2 /\ 65 * i + 65 = 65
      BY <2>1
    <2> QED
      BY <1>8, <2>2, <2>3
  <1>14. QuantTable(s, 1) = c64
    <2> DEFINE i == CHOOSE i \in 0 .. Len(s) \div 65 - 1 : s[65 * i + 1] = 1
    <2>1. i = 1
      BY <1>10, <1>11, <1>12
    <2>2. QuantTable(s, 1) = SubSeq(s, 65 * i + 2, 65 * i + 65)
      BY DEF QuantTable
    <2> HIDE DEF i
    <2>3. 65 * i + 2 = 67 /\ 65 * i + 65 = 130
      BY <2>1
    <2> QED
      BY <1>9, <2>2, <2>3
  <1> QED
    BY <1>13, <1>14 DEF s, y64, c64

\* With the codes of sixteen bits, the sum counts all codes of the table.
LEMMA CodesCounted ==
    ASSUME NEW nr \in [1 .. 16 -> Nat], NEW values
    PROVE  Table(nr, values).before[16] + Table(nr, values).count[16] = CodesIn(nr)
  <1> DEFINE t == Table(nr, values)
             b == t.before
  <1>1. t.count = nr /\ FirstCodes(nr, t.first, b)
    BY TableIs
  <1> HIDE DEF t
  <1>2. /\ b \in [1 .. 16 -> Nat] /\ b[1] = 0
        /\ \A k \in 2 .. 16 : b[k] = 1 * (b[k - 1] + nr[k - 1])
    BY <1>1 DEF FirstCodes, Sums
  <1> HIDE DEF b
  <1>3. ASSUME NEW k \in 2 .. 16 PROVE b[k] = b[k - 1] + nr[k - 1]
    <2>1. k - 1 \in 1 .. 16
      OBVIOUS
    <2>2. b[k - 1] \in Nat /\ nr[k - 1] \in Nat
      BY <1>2, <2>1
    <2> QED
      BY <1>2, <2>2
  <1>4. /\ b[2] = b[1] + nr[1] /\ b[3] = b[2] + nr[2] /\ b[4] = b[3] + nr[3]
        /\ b[5] = b[4] + nr[4] /\ b[6] = b[5] + nr[5] /\ b[7] = b[6] + nr[6]
        /\ b[8] = b[7] + nr[7] /\ b[9] = b[8] + nr[8]
    BY <1>3
  <1>5. /\ b[10] = b[9] + nr[9] /\ b[11] = b[10] + nr[10] /\ b[12] = b[11] + nr[11]
        /\ b[13] = b[12] + nr[12] /\ b[14] = b[13] + nr[13] /\ b[15] = b[14] + nr[14]
        /\ b[16] = b[15] + nr[15]
    BY <1>3
  <1>6. \A k \in 1 .. 16 : b[k] \in Nat /\ nr[k] \in Nat
    BY <1>2
  <1>7. /\ nr[1] \in Nat /\ nr[2] \in Nat /\ nr[3] \in Nat /\ nr[4] \in Nat
        /\ nr[5] \in Nat /\ nr[6] \in Nat /\ nr[7] \in Nat /\ nr[8] \in Nat
        /\ nr[9] \in Nat /\ nr[10] \in Nat /\ nr[11] \in Nat /\ nr[12] \in Nat
        /\ nr[13] \in Nat /\ nr[14] \in Nat /\ nr[15] \in Nat /\ nr[16] \in Nat
    BY <1>6
  <1>8. b[9] = nr[1] + nr[2] + nr[3] + nr[4] + nr[5] + nr[6] + nr[7] + nr[8]
    BY <1>2, <1>4, <1>7
  <1>9. b[16] = b[9] + nr[9] + nr[10] + nr[11] + nr[12] + nr[13] + nr[14] + nr[15]
    BY <1>5, <1>6, <1>7
  <1>10. b[16] + nr[16] = CodesIn(nr)
    BY <1>7, <1>8, <1>9 DEF CodesIn
  <1> QED
    BY <1>1, <1>10 DEF b, t

\* The rest of a sequence.
LEMMA RestIs ==
    ASSUME NEW T, NEW s \in Seq(T), NEW a \in Nat \ {0}
    PROVE  /\ SubSeq(s, a, Len(s)) \in Seq(T)
           /\ Len(SubSeq(s, a, Len(s))) = IF a <= Len(s) THEN Len(s) - a + 1 ELSE 0
           /\ \A i \in 1 .. Len(s) - a + 1 : SubSeq(s, a, Len(s))[i] = s[a + i - 1]
  <1> DEFINE l == Len(s)
  <1>1. l \in Nat /\ \A i \in 1 .. l : s[i] \in T
    BY LenProperties, ElementOfSeq
  <1> HIDE DEF l
  <1>2. l \in Int /\ a \in Int /\ \A i \in a .. l : s[i] \in T
    BY <1>1
  <1>3. /\ SubSeq(s, a, l) \in Seq(T)
        /\ Len(SubSeq(s, a, l)) = IF a <= l THEN l - a + 1 ELSE 0
        /\ \A i \in 1 .. l - a + 1 : SubSeq(s, a, l)[i] = s[a + i - 1]
    BY <1>2, SubSeqProperties
  <1> QED
    BY <1>3 DEF l

\* Sixteen counts and as many values as they say.
IsSpec(nr, values) ==
    /\ nr \in [1 .. 16 -> Nat] /\ nr \in Bytes /\ Len(nr) = 16
    /\ values \in Bytes /\ Len(values) = CodesIn(nr)

\* The decoder's table, where one stands, and where the next one begins.
LEMMA SpecRead ==
    ASSUME NEW s \in Bytes, NEW q \in Nat \ {0}, NEW id,
           NEW nr, NEW values, IsSpec(nr, values), SpecAt(s, q, id, nr, values)
    PROVE  /\ \E tv : Continues(tv, values) /\ TableAt(s, q) = Table(nr, tv)
           /\ q + 16 <= Len(s) /\ s[q] = id
           /\ TableAfter(s, q) = q + 17 + Len(values)
  <1> DEFINE T == 0 .. 255
             l == Len(s)
             m == Len(values)
             a == q + 17
             tv == SubSeq(s, a, l)
             w == SubSeq(s, q + 1, q + 16)
  <1>0. nr \in [1 .. 16 -> Nat] /\ Len(nr) = 16 /\ Len(values) = CodesIn(nr)
    BY DEF IsSpec
  <1>1. s \in Seq(T) /\ nr \in Seq(T) /\ values \in Seq(T)
    BY DEF IsSpec, Bytes
  <1> HIDE DEF T
  <1>2. l \in Nat /\ m \in Nat /\ \A i \in 1 .. l : s[i] \in T
    BY <1>1, LenProperties, ElementOfSeq
  <1>3. DOMAIN values = 1 .. m
    BY <1>1, LenProperties
  <1>4. a + m <= l + 1 /\ \A i \in 1 .. m : s[a + i - 1] = values[i]
    BY DEF SpecAt, Stands
  <1>5. w = nr
    <2> DEFINE x1 == q + 1
               x2 == q + 16
    <2>1. x1 \in Nat \ {0} /\ Stands(s, x1, nr)
      BY DEF SpecAt
    <2>2. x2 = x1 + Len(nr) - 1
      BY <1>0
    <2> HIDE DEF x1, x2
    <2>3. SubSeq(s, x1, x2) = nr
      BY <1>1, <2>1, <2>2, StandsIsPart
    <2> QED
      BY <2>3 DEF x1, x2
  <1>6. TableAt(s, q) = Table(nr, tv)
    BY <1>5 DEF TableAt
  <1> HIDE DEF w, l, m
  <1>7. a \in Nat \ {0} /\ a - 1 <= l
    BY <1>2, <1>4
  <1>8. Continues(tv, values)
    <2>1. /\ tv \in Seq(T) /\ Len(tv) = IF a <= l THEN l - a + 1 ELSE 0
          /\ \A i \in 1 .. l - a + 1 : tv[i] = s[a + i - 1]
      BY <1>1, <1>7, RestIs DEF l
    <2> HIDE DEF tv
    <2>3. DOMAIN tv = 1 .. Len(tv)
      BY <2>1, LenProperties
    <2> HIDE DEF a
    <2>4. ASSUME NEW i \in 1 .. m PROVE i \in DOMAIN tv /\ tv[i] = values[i]
      <3>1. i \in 1 .. l - a + 1 /\ a <= l
        BY <1>2, <1>4, <1>7
      <3>2. Len(tv) = l - a + 1
        BY <2>1, <3>1
      <3>3. i \in DOMAIN tv
        BY <2>3, <3>1, <3>2
      <3>4. tv[i] = s[a + i - 1] /\ s[a + i - 1] = values[i]
        BY <1>4, <2>1, <3>1
      <3> QED
        BY <3>3, <3>4
    <2> QED
      BY <1>3, <2>4 DEF Continues
  <1> HIDE DEF tv
  <1>9. q + 16 <= l /\ s[q] = id
    <2>1. s[q] = id /\ q + 1 + 16 <= l + 1
      BY <1>0 DEF SpecAt, Stands, l
    <2> QED
      BY <1>2, <2>1
  <1>10. TableAfter(s, q) = q + 17 + m
    <2> DEFINE t == Table(nr, tv)
               sum == t.before[16] + t.count[16]
    <2>1. sum = m
      BY <1>0, CodesCounted DEF m
    <2>2. t.before[16] \in Nat /\ t.count[16] \in Nat
      <3>1. t.count = nr /\ FirstCodes(nr, t.first, t.before)
        BY <1>0, TableIs
      <3> HIDE DEF t
      <3>2. t.before \in [1 .. 16 -> Nat]
        BY <3>1 DEF FirstCodes, Sums
      <3>3. 16 \in 1 .. 16
        OBVIOUS
      <3> QED
        BY <1>0, <3>1, <3>2, <3>3
    <2>3. TableAfter(s, q) = q + 17 + t.before[16] + t.count[16]
      BY <1>2, <1>6, <1>9 DEF TableAfter, l
    <2> DEFINE u == t.before[16]
               v == t.count[16]
    <2>4. u \in Nat /\ v \in Nat /\ u + v = m /\ TableAfter(s, q) = q + 17 + u + v
      BY <2>1, <2>2, <2>3
    <2> HIDE DEF u, v
    <2> QED
      BY <2>4
  <1> QED
    BY <1>6, <1>8, <1>9, <1>10 DEF l, m

\* The four Huffman tables, as the decoder gets them.
HuffmanIn(s) ==
    /\ SpecAt(s, 1, 0, Standard_DC_Lum_NRCodes, Standard_DC_Lum_Values)
    /\ SpecAt(s, 30, 16, Standard_AC_Lum_NRCodes, Standard_AC_Lum_Values)
    /\ SpecAt(s, 209, 1, Standard_DC_Chroma_NRCodes, Standard_DC_Chroma_Values)
    /\ SpecAt(s, 238, 17, Standard_AC_Chroma_NRCodes, Standard_AC_Chroma_Values)

\* A decoder's table is the one of these counts and values.
IsTable(t, nr, values) == \E tv : Continues(tv, values) /\ t = Table(nr, tv)

\* The n elements of s are those behind the first four of the segment at p.
IsContent(s, h, p, n) == Len(s) = n /\ \A i \in 1 .. n : s[i] = h[p + 3 + i]

\* Where bytes stand in the content of a segment.
LEMMA BytesInContent ==
    ASSUME NEW h, NEW p \in Nat \ {0}, NEW n \in Nat, NEW s, IsContent(s, h, p, n),
           NEW u \in Bytes, NEW q \in Nat \ {0}, NEW r, r = p + 3 + q,
           Stands(h, r, u), q + Len(u) <= n + 1
    PROVE  Stands(s, q, u)
  <1> DEFINE T == 0 .. 255
  <1>1. u \in Seq(T)
    BY DEF Bytes
  <1> HIDE DEF T
  <1>2. Len(s) = n /\ \A i \in 1 .. n : s[i] = h[p + 3 + i]
    BY DEF IsContent
  <1> QED
    BY <1>1, <1>2, StandsInContent, SMTT(30)

\* Where a table stands in the content of a segment.
LEMMA SpecInContent ==
    ASSUME NEW h, NEW p \in Nat \ {0}, NEW n \in Nat, NEW s, IsContent(s, h, p, n),
           NEW q \in Nat \ {0}, NEW r, r = p + 3 + q, NEW id,
           NEW nr \in Bytes, q + 1 + Len(nr) <= n + 1,
           NEW values \in Bytes, q + 17 + Len(values) <= n + 1,
           SpecAt(h, r, id, nr, values)
    PROVE  SpecAt(s, q, id, nr, values)
  <1> DEFINE T == 0 .. 255
             q1 == q + 1
             q2 == q + 17
             r1 == r + 1
             r2 == r + 17
             m == Len(values)
  <1>1. nr \in Seq(T) /\ values \in Seq(T)
    BY DEF Bytes
  <1> HIDE DEF T
  <1>2. m \in Nat /\ Len(nr) \in Nat
    BY <1>1, LenProperties
  <1>3. /\ h[r] = id /\ Stands(h, r1, nr) /\ Stands(h, r2, values)
    BY DEF SpecAt
  <1>4. /\ q1 \in Nat \ {0} /\ q2 \in Nat \ {0} /\ r1 = p + 3 + q1 /\ r2 = p + 3 + q2
        /\ q1 + Len(nr) <= n + 1 /\ q2 + m <= n + 1
    BY <1>2
  <1>5. s[q] = h[p + 3 + q]
    <2>1. q \in 1 .. n
      BY <1>2
    <2> QED
      BY <2>1 DEF IsContent
  <1> HIDE DEF q1, q2, r1, r2
  <1>6. Stands(s, q1, nr)
    <2>1. nr \in Bytes /\ Stands(h, r1, nr)
      BY <1>3
    <2>2. q1 \in Nat \ {0} /\ r1 = p + 3 + q1 /\ q1 + Len(nr) <= n + 1
      BY <1>4
    <2> QED
      BY <2>1, <2>2, BytesInContent
  <1>7. Stands(s, q2, values)
    <2>1. values \in Bytes /\ Stands(h, r2, values)
      BY <1>3
    <2>2. q2 \in Nat \ {0} /\ r2 = p + 3 + q2 /\ q2 + Len(values) <= n + 1
      BY <1>4
    <2> QED
      BY <2>1, <2>2, BytesInContent
  <1> QED
    BY <1>3, <1>5, <1>6, <1>7 DEF SpecAt, q1, q2

\* So the tables stand in the content of their segment.
LEMMA HuffmanContent ==
    ASSUME NEW h, NEW width, NEW height, NEW YTab, NEW CbCrTab,
           HeaderIs(h, width, height, YTab, CbCrTab)
    PROVE  /\ Content(h, 174) \in Bytes /\ Len(Content(h, 174)) = 416
           /\ HuffmanIn(Content(h, 174))
  <1> DEFINE s == Content(h, 174)
             p == 174
             e == 594
             n == 416
             n1 == Standard_DC_Lum_NRCodes
             n2 == Standard_AC_Lum_NRCodes
             n3 == Standard_DC_Chroma_NRCodes
             n4 == Standard_AC_Chroma_NRCodes
             v1 == Standard_DC_Lum_Values
             v2 == Standard_AC_Lum_Values
             v3 == Standard_DC_Chroma_Values
             v4 == Standard_AC_Chroma_Values
  <1>1. h \in Bytes
    BY DEF HeaderIs
  <1>2. EndOf(h, p) = e /\ e <= Len(h) + 1
    BY HeaderWalk DEF HeaderIs
  <1>3. p \in Nat \ {0} /\ e \in Nat /\ n \in Nat /\ e = p + 4 + n
    OBVIOUS
  <1>4. s \in Bytes /\ Len(s) = n /\ \A i \in 1 .. n : s[i] = h[p + 3 + i]
    <2>1. s = Content(h, p)
      OBVIOUS
    <2> HIDE DEF s, p, e, n
    <2> QED
      BY <1>1, <1>2, <1>3, <2>1, ContentIs
  <1> HIDE DEF s
  <1>5. /\ n1 \in Bytes /\ n2 \in Bytes /\ n3 \in Bytes /\ n4 \in Bytes
        /\ v1 \in Bytes /\ v2 \in Bytes /\ v3 \in Bytes /\ v4 \in Bytes
    BY TablesAreBytes
  <1>6. Len(n1) = 16 /\ Len(n2) = 16 /\ Len(n3) = 16 /\ Len(n4) = 16
    BY SixteenCounts
  <1>7. Len(v1) = 12 /\ Len(v2) = 162 /\ Len(v3) = 12 /\ Len(v4) = 162
    BY DCLumTable, ACLumTable, DCChromaTable, ACChromaTable
  <1> DEFINE q1 == 1
             q2 == 30
             q3 == 209
             q4 == 238
             r1 == 178
             r2 == 207
             r3 == 386
             r4 == 415
  <1>8. /\ SpecAt(h, r1, 0, n1, v1) /\ SpecAt(h, r2, 16, n2, v2)
        /\ SpecAt(h, r3, 1, n3, v3) /\ SpecAt(h, r4, 17, n4, v4)
    <2>1. HuffmanAt(h, 174)
      BY DEF HeaderIs
    <2> HIDE DEF n1, n2, n3, n4, v1, v2, v3, v4
    <2>2. /\ SpecAt(h, 174 + 4, 0, n1, v1) /\ SpecAt(h, 174 + 33, 16, n2, v2)
          /\ SpecAt(h, 174 + 212, 1, n3, v3) /\ SpecAt(h, 174 + 241, 17, n4, v4)
      BY <2>1 DEF HuffmanAt, n1, n2, n3, n4, v1, v2, v3, v4
    <2>3. 174 + 4 = 178 /\ 174 + 33 = 207 /\ 174 + 212 = 386 /\ 174 + 241 = 415
      OBVIOUS
    <2> QED
      BY <2>2, <2>3
  <1>9. /\ q1 \in Nat \ {0} /\ q2 \in Nat \ {0} /\ q3 \in Nat \ {0} /\ q4 \in Nat \ {0}
        /\ r1 = p + 3 + q1 /\ r2 = p + 3 + q2 /\ r3 = p + 3 + q3 /\ r4 = p + 3 + q4
    OBVIOUS
  <1> HIDE DEF n1, n2, n3, n4, v1, v2, v3, v4
  <1>10. /\ q1 + 1 + Len(n1) <= n + 1 /\ q2 + 1 + Len(n2) <= n + 1
         /\ q3 + 1 + Len(n3) <= n + 1 /\ q4 + 1 + Len(n4) <= n + 1
    BY <1>6
  <1>11. /\ q1 + 17 + Len(v1) <= n + 1 /\ q2 + 17 + Len(v2) <= n + 1
         /\ q3 + 17 + Len(v3) <= n + 1 /\ q4 + 17 + Len(v4) <= n + 1
    BY <1>7
  <1> DEFINE i1 == 0
             i2 == 16
             i3 == 1
             i4 == 17
  <1> HIDE DEF p, e, n, q1, q2, q3, q4, r1, r2, r3, r4, i1, i2, i3, i4
  <1>12. SpecAt(s, q1, i1, n1, v1)
    <2>1. SpecAt(h, r1, i1, n1, v1)
      BY <1>8 DEF i1
    <2>2. p \in Nat \ {0} /\ n \in Nat /\ q1 \in Nat \ {0} /\ r1 = p + 3 + q1
      BY <1>3, <1>9
    <2>3. n1 \in Bytes /\ v1 \in Bytes
      BY <1>5
    <2>4. q1 + 1 + Len(n1) <= n + 1 /\ q1 + 17 + Len(v1) <= n + 1
      BY <1>10, <1>11
    <2>5. IsContent(s, h, p, n)
      BY <1>4 DEF IsContent
    <2> QED
      BY <2>1, <2>2, <2>3, <2>4, <2>5, SpecInContent
  <1>13. SpecAt(s, q2, i2, n2, v2)
    <2>1. SpecAt(h, r2, i2, n2, v2)
      BY <1>8 DEF i2
    <2>2. p \in Nat \ {0} /\ n \in Nat /\ q2 \in Nat \ {0} /\ r2 = p + 3 + q2
      BY <1>3, <1>9
    <2>3. n2 \in Bytes /\ v2 \in Bytes
      BY <1>5
    <2>4. q2 + 1 + Len(n2) <= n + 1 /\ q2 + 17 + Len(v2) <= n + 1
      BY <1>10, <1>11
    <2>5. IsContent(s, h, p, n)
      BY <1>4 DEF IsContent
    <2> QED
      BY <2>1, <2>2, <2>3, <2>4, <2>5, SpecInContent
  <1>14. SpecAt(s, q3, i3, n3, v3)
    <2>1. SpecAt(h, r3, i3, n3, v3)
      BY <1>8 DEF i3
    <2>2. p \in Nat \ {0} /\ n \in Nat /\ q3 \in Nat \ {0} /\ r3 = p + 3 + q3
      BY <1>3, <1>9
    <2>3. n3 \in Bytes /\ v3 \in Bytes
      BY <1>5
    <2>4. q3 + 1 + Len(n3) <= n + 1 /\ q3 + 17 + Len(v3) <= n + 1
      BY <1>10, <1>11
    <2>5. IsContent(s, h, p, n)
      BY <1>4 DEF IsContent
    <2> QED
      BY <2>1, <2>2, <2>3, <2>4, <2>5, SpecInContent
  <1>15. SpecAt(s, q4, i4, n4, v4)
    <2>1. SpecAt(h, r4, i4, n4, v4)
      BY <1>8 DEF i4
    <2>2. p \in Nat \ {0} /\ n \in Nat /\ q4 \in Nat \ {0} /\ r4 = p + 3 + q4
      BY <1>3, <1>9
    <2>3. n4 \in Bytes /\ v4 \in Bytes
      BY <1>5
    <2>4. q4 + 1 + Len(n4) <= n + 1 /\ q4 + 17 + Len(v4) <= n + 1
      BY <1>10, <1>11
    <2>5. IsContent(s, h, p, n)
      BY <1>4 DEF IsContent
    <2> QED
      BY <2>1, <2>2, <2>3, <2>4, <2>5, SpecInContent
  <1>16. HuffmanIn(s)
    BY <1>12, <1>13, <1>14, <1>15
       DEF HuffmanIn, i1, i2, i3, i4, q1, q2, q3, q4, n1, n2, n3, n4, v1, v2, v3, v4
  <1> QED
    BY <1>4, <1>16 DEF s, n

\* Each table is read where it stands, and the next one behind it.
LEMMA TablesRead ==
    ASSUME NEW s \in Bytes, HuffmanIn(s)
    PROVE  /\ IsTable(TableAt(s, 1), Standard_DC_Lum_NRCodes, Standard_DC_Lum_Values)
           /\ 1 + 16 <= Len(s) /\ s[1] = 0 /\ TableAfter(s, 1) = 30
           /\ IsTable(TableAt(s, 30), Standard_AC_Lum_NRCodes, Standard_AC_Lum_Values)
           /\ 30 + 16 <= Len(s) /\ s[30] = 16 /\ TableAfter(s, 30) = 209
           /\ IsTable(TableAt(s, 209), Standard_DC_Chroma_NRCodes, Standard_DC_Chroma_Values)
           /\ 209 + 16 <= Len(s) /\ s[209] = 1 /\ TableAfter(s, 209) = 238
           /\ IsTable(TableAt(s, 238), Standard_AC_Chroma_NRCodes, Standard_AC_Chroma_Values)
           /\ 238 + 16 <= Len(s) /\ s[238] = 17 /\ TableAfter(s, 238) = 417
  <1>1. /\ IsTable(TableAt(s, 1), Standard_DC_Lum_NRCodes, Standard_DC_Lum_Values)
        /\ 1 + 16 <= Len(s) /\ s[1] = 0 /\ TableAfter(s, 1) = 30
    <2> DEFINE q == 1
               id == 0
               nr == Standard_DC_Lum_NRCodes
               values == Standard_DC_Lum_Values
    <2>1. nr \in [1 .. 16 -> Nat] /\ nr \in Bytes /\ values \in Bytes
      BY DCLumTable, TablesAreBytes
    <2>2. Len(nr) = 16 /\ Len(values) = 12 /\ CodesIn(nr) = 12
      BY DCLumTable, SixteenCounts
    <2>3. q \in Nat \ {0} /\ SpecAt(s, q, id, nr, values)
      BY DEF HuffmanIn
    <2> HIDE DEF q, id, nr, values
    <2>4. IsSpec(nr, values)
      BY <2>1, <2>2 DEF IsSpec
    <2>5. /\ \E tv : Continues(tv, values) /\ TableAt(s, q) = Table(nr, tv)
          /\ q + 16 <= Len(s) /\ s[q] = id
          /\ TableAfter(s, q) = q + 17 + Len(values)
      BY <2>3, <2>4, SpecRead
    <2>6. IsTable(TableAt(s, q), nr, values)
      BY <2>5 DEF IsTable
    <2>7. q + 17 + Len(values) = 30
      BY <2>2 DEF q
    <2> QED
      BY <2>5, <2>6, <2>7 DEF q, id, nr, values
  <1>2. /\ IsTable(TableAt(s, 30), Standard_AC_Lum_NRCodes, Standard_AC_Lum_Values)
        /\ 30 + 16 <= Len(s) /\ s[30] = 16 /\ TableAfter(s, 30) = 209
    <2> DEFINE q == 30
               id == 16
               nr == Standard_AC_Lum_NRCodes
               values == Standard_AC_Lum_Values
    <2>1. nr \in [1 .. 16 -> Nat] /\ nr \in Bytes /\ values \in Bytes
      BY ACLumTable, TablesAreBytes
    <2>2. Len(nr) = 16 /\ Len(values) = 162 /\ CodesIn(nr) = 162
      BY ACLumTable, SixteenCounts
    <2>3. q \in Nat \ {0} /\ SpecAt(s, q, id, nr, values)
      BY DEF HuffmanIn
    <2> HIDE DEF q, id, nr, values
    <2>4. IsSpec(nr, values)
      BY <2>1, <2>2 DEF IsSpec
    <2>5. /\ \E tv : Continues(tv, values) /\ TableAt(s, q) = Table(nr, tv)
          /\ q + 16 <= Len(s) /\ s[q] = id
          /\ TableAfter(s, q) = q + 17 + Len(values)
      BY <2>3, <2>4, SpecRead
    <2>6. IsTable(TableAt(s, q), nr, values)
      BY <2>5 DEF IsTable
    <2>7. q + 17 + Len(values) = 209
      BY <2>2 DEF q
    <2> QED
      BY <2>5, <2>6, <2>7 DEF q, id, nr, values
  <1>3. /\ IsTable(TableAt(s, 209), Standard_DC_Chroma_NRCodes, Standard_DC_Chroma_Values)
        /\ 209 + 16 <= Len(s) /\ s[209] = 1 /\ TableAfter(s, 209) = 238
    <2> DEFINE q == 209
               id == 1
               nr == Standard_DC_Chroma_NRCodes
               values == Standard_DC_Chroma_Values
    <2>1. nr \in [1 .. 16 -> Nat] /\ nr \in Bytes /\ values \in Bytes
      BY DCChromaTable, TablesAreBytes
    <2>2. Len(nr) = 16 /\ Len(values) = 12 /\ CodesIn(nr) = 12
      BY DCChromaTable, SixteenCounts
    <2>3. q \in Nat \ {0} /\ SpecAt(s, q, id, nr, values)
      BY DEF HuffmanIn
    <2> HIDE DEF q, id, nr, values
    <2>4. IsSpec(nr, values)
      BY <2>1, <2>2 DEF IsSpec
    <2>5. /\ \E tv : Continues(tv, values) /\ TableAt(s, q) = Table(nr, tv)
          /\ q + 16 <= Len(s) /\ s[q] = id
          /\ TableAfter(s, q) = q + 17 + Len(values)
      BY <2>3, <2>4, SpecRead
    <2>6. IsTable(TableAt(s, q), nr, values)
      BY <2>5 DEF IsTable
    <2>7. q + 17 + Len(values) = 238
      BY <2>2 DEF q
    <2> QED
      BY <2>5, <2>6, <2>7 DEF q, id, nr, values
  <1>4. /\ IsTable(TableAt(s, 238), Standard_AC_Chroma_NRCodes, Standard_AC_Chroma_Values)
        /\ 238 + 16 <= Len(s) /\ s[238] = 17 /\ TableAfter(s, 238) = 417
    <2> DEFINE q == 238
               id == 17
               nr == Standard_AC_Chroma_NRCodes
               values == Standard_AC_Chroma_Values
    <2>1. nr \in [1 .. 16 -> Nat] /\ nr \in Bytes /\ values \in Bytes
      BY ACChromaTable, TablesAreBytes
    <2>2. Len(nr) = 16 /\ Len(values) = 162 /\ CodesIn(nr) = 162
      BY ACChromaTable, SixteenCounts
    <2>3. q \in Nat \ {0} /\ SpecAt(s, q, id, nr, values)
      BY DEF HuffmanIn
    <2> HIDE DEF q, id, nr, values
    <2>4. IsSpec(nr, values)
      BY <2>1, <2>2 DEF IsSpec
    <2>5. /\ \E tv : Continues(tv, values) /\ TableAt(s, q) = Table(nr, tv)
          /\ q + 16 <= Len(s) /\ s[q] = id
          /\ TableAfter(s, q) = q + 17 + Len(values)
      BY <2>3, <2>4, SpecRead
    <2>6. IsTable(TableAt(s, q), nr, values)
      BY <2>5 DEF IsTable
    <2>7. q + 17 + Len(values) = 417
      BY <2>2 DEF q
    <2> QED
      BY <2>5, <2>6, <2>7 DEF q, id, nr, values
  <1> QED
    BY <1>1, <1>2, <1>3, <1>4

\* The tables begin where those before end.
LEMMA TableWalk ==
    ASSUME NEW s \in Bytes, Len(s) = 416, HuffmanIn(s)
    PROVE  TableBegin(s) = {1, 30, 209, 238, 417}
  <1> DEFINE R(p) == TableAfter(s, p)
             Step(c) == [n \in 1 .. 8 |-> IF n = 1 THEN 1 ELSE R(c[n - 1])]
             at == CHOOSE c : c = Step(c)
             g == [n \in 1 .. 8 |-> IF n = 1 THEN 1 ELSE IF n = 2 THEN 30
                                    ELSE IF n = 3 THEN 209 ELSE IF n = 4 THEN 238
                                    ELSE 417]
             Places == {1, 30, 209, 238, 417}
  <1>1. R(1) = 30 /\ R(30) = 209 /\ R(209) = 238 /\ R(238) = 417
    BY TablesRead
  <1>2. R(417) = 417
    <2>1. 417 + 16 > Len(s)
      OBVIOUS
    <2> QED
      BY <2>1 DEF TableAfter
  <1>3. TableBegin(s) = {at[n] : n \in 1 .. 8}
    BY DEF TableBegin
  <1> HIDE DEF R
  <1>4. g = Step(g)
    <2>1. ASSUME NEW n \in 1 .. 8
          PROVE  g[n] = IF n = 1 THEN 1 ELSE R(g[n - 1])
      <3>1. n = 1 \/ n = 2 \/ n = 3 \/ n = 4 \/ n = 5 \/ n = 6 \/ n = 7 \/ n = 8
        OBVIOUS
      <3> QED
        BY <1>1, <1>2, <3>1
    <2> HIDE DEF g
    <2>2. g = [n \in 1 .. 8 |-> g[n]]
      BY DEF g
    <2> QED
      BY <2>1, <2>2
  <1>5. at = Step(at)
    <2> HIDE DEF Step
    <2> QED
      BY <1>4
  <1> HIDE DEF at, g
  <1>6. /\ at[1] = 1 /\ at[2] = R(at[1]) /\ at[3] = R(at[2]) /\ at[4] = R(at[3])
        /\ at[5] = R(at[4]) /\ at[6] = R(at[5]) /\ at[7] = R(at[6]) /\ at[8] = R(at[7])
    <2>1. ASSUME NEW n \in 2 .. 8 PROVE at[n] = R(at[n - 1])
      <3>1. n \in 1 .. 8 /\ n # 1
        OBVIOUS
      <3> QED
        BY <1>5, <3>1
    <2>2. at[1] = 1
      BY <1>5
    <2> QED
      BY <2>1, <2>2
  <1>7. /\ at[1] = 1 /\ at[2] = 30 /\ at[3] = 209 /\ at[4] = 238
        /\ at[5] = 417 /\ at[6] = 417 /\ at[7] = 417 /\ at[8] = 417
    BY <1>1, <1>2, <1>6
  <1>8. ASSUME NEW n \in 1 .. 8 PROVE at[n] \in Places
    <2>1. n = 1 \/ n = 2 \/ n = 3 \/ n = 4 \/ n = 5 \/ n = 6 \/ n = 7 \/ n = 8
      OBVIOUS
    <2> QED
      BY <1>7, <2>1
  <1>9. ASSUME NEW p \in Places PROVE \E n \in 1 .. 8 : at[n] = p
    <2>1. 1 \in 1 .. 8 /\ 2 \in 1 .. 8 /\ 3 \in 1 .. 8 /\ 4 \in 1 .. 8 /\ 5 \in 1 .. 8
      OBVIOUS
    <2> QED
      BY <1>7, <2>1
  <1> HIDE DEF Places
  <1>10. {at[n] : n \in 1 .. 8} = Places
    BY <1>8, <1>9
  <1> QED
    BY <1>3, <1>10 DEF Places

\* The decoder finds each Huffman table by its number.
LEMMA HuffmanFound ==
    ASSUME NEW s \in Bytes, Len(s) = 416, HuffmanIn(s)
    PROVE  /\ IsTable(HuffmanTable(s, 0), Standard_DC_Lum_NRCodes, Standard_DC_Lum_Values)
           /\ IsTable(HuffmanTable(s, 16), Standard_AC_Lum_NRCodes, Standard_AC_Lum_Values)
           /\ IsTable(HuffmanTable(s, 1),
                      Standard_DC_Chroma_NRCodes, Standard_DC_Chroma_Values)
           /\ IsTable(HuffmanTable(s, 17),
                      Standard_AC_Chroma_NRCodes, Standard_AC_Chroma_Values)
  <1> DEFINE Places == {1, 30, 209, 238, 417}
  <1>1. TableBegin(s) = Places
    BY TableWalk
  <1>2. /\ 1 + 16 <= Len(s) /\ 30 + 16 <= Len(s) /\ 209 + 16 <= Len(s)
        /\ 238 + 16 <= Len(s) /\ ~(417 + 16 <= Len(s))
    OBVIOUS
  <1>3. s[1] = 0 /\ s[30] = 16 /\ s[209] = 1 /\ s[238] = 17
    BY TablesRead
  <1>4. ASSUME NEW id, NEW q \in {1, 30, 209, 238}, s[q] = id, id \in {0, 1, 16, 17}
        PROVE  HuffmanTable(s, id) = TableAt(s, q)
    <2> DEFINE P(p) == p + 16 <= Len(s) /\ s[p] = id
    <2>1. q \in Places /\ P(q)
      BY <1>2, <1>4
    <2>2. \A p \in Places : P(p) => p = q
      <3>1. ASSUME NEW p \in Places, P(p) PROVE p = q
        <4>1. p + 16 <= Len(s) /\ s[p] = s[q]
          BY <1>4, <3>1
        <4>2. p = 1 \/ p = 30 \/ p = 209 \/ p = 238
          BY <1>2, <4>1
        <4>3. q = 1 \/ q = 30 \/ q = 209 \/ q = 238
          OBVIOUS
        <4>4. /\ s[1] # s[30] /\ s[1] # s[209] /\ s[1] # s[238]
              /\ s[30] # s[209] /\ s[30] # s[238] /\ s[209] # s[238]
          BY <1>3
        <4> QED
          BY <4>1, <4>2, <4>3, <4>4
      <3> QED
        BY <3>1
    <2> DEFINE c == CHOOSE p \in TableBegin(s) : P(p)
    <2>3. HuffmanTable(s, id) = TableAt(s, c)
      BY DEF HuffmanTable
    <2>4. c = q
      <3> HIDE DEF P, Places
      <3> QED
        BY <1>1, <2>1, <2>2
    <2> HIDE DEF c
    <2> QED
      BY <2>3, <2>4
  <1>5. /\ HuffmanTable(s, 0) = TableAt(s, 1) /\ HuffmanTable(s, 16) = TableAt(s, 30)
        /\ HuffmanTable(s, 1) = TableAt(s, 209) /\ HuffmanTable(s, 17) = TableAt(s, 238)
    BY <1>3, <1>4
  <1> QED
    BY <1>5, TablesRead

\* A decoder finds all segments, and looks for the scan behind the header.
LEMMA HeaderIsComplete ==
    ASSUME NEW width, NEW height, NEW YTab, NEW CbCrTab,
           HeaderIs(header, width, height, YTab, CbCrTab)
    PROVE  HeaderComplete
  <1>1. /\ Marked(header, 192) = {155} /\ Marked(header, 196) = {174}
        /\ Marked(header, 218) = {594} /\ Marked(header, 219) = {21}
    BY MarkedOnce
  <1>2. /\ EndOf(header, 155) <= Len(header) + 1 /\ EndOf(header, 174) <= Len(header) + 1
        /\ EndOf(header, 594) = Len(header) + 1 /\ EndOf(header, 594) <= Len(header) + 1
        /\ EndOf(header, 21) <= Len(header) + 1
    BY HeaderWalk DEF HeaderIs
  <1>3. ASSUME NEW marker \in {192, 196, 218, 219}
        PROVE  \E p \in Marked(header, marker) : EndOf(header, p) <= Len(header) + 1
    <2>1. marker = 192 \/ marker = 196 \/ marker = 218 \/ marker = 219
      OBVIOUS
    <2> QED
      BY <1>1, <1>2, <2>1
  <1>4. \E p \in Marked(header, 218) : EndOf(header, p) = Len(header) + 1
    BY <1>1, <1>2
  <1> QED
    BY <1>3, <1>4 DEF HeaderComplete

\* The segments are the ones the header consists of.
LEMMA SegmentsFound ==
    ASSUME NEW width, NEW height, NEW YTab, NEW CbCrTab,
           HeaderIs(header, width, height, YTab, CbCrTab)
    PROVE  /\ Segment(192) = Content(header, 155) /\ Segment(196) = Content(header, 174)
           /\ Segment(218) = Content(header, 594) /\ Segment(219) = Content(header, 21)
  <1>1. /\ Marked(header, 192) = {155} /\ Marked(header, 196) = {174}
        /\ Marked(header, 218) = {594} /\ Marked(header, 219) = {21}
    BY MarkedOnce
  <1>2. ASSUME NEW marker, NEW q, Marked(header, marker) = {q}
        PROVE  Segment(marker) = Content(header, q)
    <2>1. (CHOOSE p \in Marked(header, marker) : TRUE) = q
      BY <1>2
    <2> QED
      BY <2>1 DEF Segment
  <1> QED
    BY <1>1, <1>2

\* What the frame and the scan say: the size, and which tables each component has.
FrameIs(sof, width, height) ==
    /\ height < 65536 => Short(sof, 2) = height
    /\ width < 65536 => Short(sof, 4) = width
    /\ sof[9] = 0 /\ sof[12] = 1 /\ sof[15] = 1

ScanIs(sos) == sos[3] = 0 /\ sos[5] = 17 /\ sos[7] = 17

\* So their contents are.
LEMMA FrameContent ==
    ASSUME NEW h, NEW width, NEW height, NEW YTab, NEW CbCrTab,
           HeaderIs(h, width, height, YTab, CbCrTab)
    PROVE  FrameIs(Content(h, 155), width, height) /\ ScanIs(Content(h, 594))
  <1> DEFINE s == Content(h, 155)
             w == Content(h, 594)
             p1 == 155
             e1 == 174
             n1 == 15
             p2 == 594
             e2 == 608
             n2 == 10
  <1>1. h \in Bytes
    BY DEF HeaderIs
  <1>2. EndOf(h, p1) = e1 /\ e1 <= Len(h) + 1 /\ EndOf(h, p2) = e2 /\ e2 <= Len(h) + 1
    BY HeaderWalk DEF HeaderIs
  <1>3. /\ p1 \in Nat \ {0} /\ e1 \in Nat /\ n1 \in Nat /\ e1 = p1 + 4 + n1
        /\ p2 \in Nat \ {0} /\ e2 \in Nat /\ n2 \in Nat /\ e2 = p2 + 4 + n2
    OBVIOUS
  <1>4. \A i \in 1 .. n1 : s[i] = h[p1 + 3 + i]
    <2>1. s = Content(h, p1)
      OBVIOUS
    <2> HIDE DEF s, p1, e1, n1
    <2> QED
      BY <1>1, <1>2, <1>3, <2>1, ContentIs
  <1>5. \A i \in 1 .. n2 : w[i] = h[p2 + 3 + i]
    <2>1. w = Content(h, p2)
      OBVIOUS
    <2> HIDE DEF w, p2, e2, n2
    <2> QED
      BY <1>1, <1>2, <1>3, <2>1, ContentIs
  <1> HIDE DEF s, w
  <1>6. FrameAt(h, 155, width, height) /\ ScanAt(h, 594)
    BY DEF HeaderIs
  <1>7. /\ s[2] = h[160] /\ s[3] = h[161] /\ s[4] = h[162] /\ s[5] = h[163]
        /\ s[9] = h[167] /\ s[12] = h[170] /\ s[15] = h[173]
    BY <1>4
  <1>8. /\ h[167] = 0 /\ h[170] = 1 /\ h[173] = 1
        /\ height < 65536 => Short(h, 160) = height
        /\ width < 65536 => Short(h, 162) = width
    <2>1. 155 + 12 = 167 /\ 155 + 15 = 170 /\ 155 + 18 = 173 /\ 155 + 5 = 160
          /\ 155 + 7 = 162
      OBVIOUS
    <2> QED
      BY <1>6, <2>1 DEF FrameAt
  <1>9. Short(s, 2) = Short(h, 160) /\ Short(s, 4) = Short(h, 162)
    BY <1>7 DEF Short
  <1>10. FrameIs(s, width, height)
    BY <1>7, <1>8, <1>9 DEF FrameIs
  <1>11. w[3] = h[600] /\ w[5] = h[602] /\ w[7] = h[604]
    BY <1>5
  <1>12. ScanIs(w)
    BY <1>6, <1>11 DEF ScanAt, ScanIs
  <1> QED
    BY <1>10, <1>12 DEF s, w

\* The decoder learns the tables of every component, and the size if the header
\* has room for it.
LEMMA HeaderTells ==
    ASSUME NEW width, NEW height, NEW YTab \in QuantizerTables,
           NEW CbCrTab \in QuantizerTables,
           HeaderIs(header, width, height, YTab, CbCrTab)
    PROVE  /\ HoldsStandard(Told)
           /\ Told.quant[0] = TableBytes(YTab)
           /\ \A c \in 1 .. 2 : Told.quant[c] = TableBytes(CbCrTab)
           /\ height < 65536 => Told.height = height
           /\ width < 65536 => Told.width = width
  <1> DEFINE sof == Content(header, 155)
             sos == Content(header, 594)
             tables == Content(header, 174)
             quant == Content(header, 21)
             Q == [c \in 0 .. 2 |-> QuantTable(quant, sof[9 + 3 * c])]
             DCs == [c \in 0 .. 2 |-> HuffmanTable(tables, sos[3 + 2 * c] \div 16)]
             ACs == [c \in 0 .. 2 |-> HuffmanTable(tables, 16 + (sos[3 + 2 * c] % 16))]
  <1>1. Told = [height |-> Short(sof, 2), width |-> Short(sof, 4),
                quant |-> Q, dc |-> DCs, ac |-> ACs]
    BY SegmentsFound DEF Told
  <1>2. FrameIs(sof, width, height) /\ ScanIs(sos)
    BY FrameContent
  <1>3. QuantTable(quant, 0) = TableBytes(YTab) /\ QuantTable(quant, 1) = TableBytes(CbCrTab)
    BY QuantizersFound
  <1>4. tables \in Bytes /\ Len(tables) = 416 /\ HuffmanIn(tables)
    BY HuffmanContent
  <1>5. /\ IsTable(HuffmanTable(tables, 0), Standard_DC_Lum_NRCodes, Standard_DC_Lum_Values)
        /\ IsTable(HuffmanTable(tables, 16), Standard_AC_Lum_NRCodes, Standard_AC_Lum_Values)
        /\ IsTable(HuffmanTable(tables, 1),
                   Standard_DC_Chroma_NRCodes, Standard_DC_Chroma_Values)
        /\ IsTable(HuffmanTable(tables, 17),
                   Standard_AC_Chroma_NRCodes, Standard_AC_Chroma_Values)
    <2> HIDE DEF tables
    <2> QED
      BY <1>4, HuffmanFound
  <1> HIDE DEF sof, sos, tables, quant
  <1>6. Q[0] = TableBytes(YTab) /\ \A c \in 1 .. 2 : Q[c] = TableBytes(CbCrTab)
    <2>1. sof[9 + 3 * 0] = 0 /\ sof[9 + 3 * 1] = 1 /\ sof[9 + 3 * 2] = 1
      BY <1>2 DEF FrameIs
    <2>2. Q[0] = QuantTable(quant, 0) /\ Q[1] = QuantTable(quant, 1)
          /\ Q[2] = QuantTable(quant, 1)
      BY <2>1
    <2> HIDE DEF Q
    <2>3. \A c \in 1 .. 2 : c = 1 \/ c = 2
      OBVIOUS
    <2> QED
      BY <1>3, <2>2, <2>3
  <1>7. /\ DCs[0] = HuffmanTable(tables, 0) /\ ACs[0] = HuffmanTable(tables, 16)
        /\ \A c \in 1 .. 2 : /\ DCs[c] = HuffmanTable(tables, 1)
                             /\ ACs[c] = HuffmanTable(tables, 17)
    <2>1. sos[3 + 2 * 0] = 0 /\ sos[3 + 2 * 1] = 17 /\ sos[3 + 2 * 2] = 17
      BY <1>2 DEF ScanIs
    <2>2. 0 \div 16 = 0 /\ 16 + (0 % 16) = 16 /\ 17 \div 16 = 1 /\ 16 + (17 % 16) = 17
      OBVIOUS
    <2>3. DCs[0] = HuffmanTable(tables, 0) /\ ACs[0] = HuffmanTable(tables, 16)
      BY <2>1, <2>2
    <2>4. ASSUME NEW c \in 1 .. 2
          PROVE  DCs[c] = HuffmanTable(tables, 1) /\ ACs[c] = HuffmanTable(tables, 17)
      <3>1. sos[3 + 2 * c] = 17 /\ c \in 0 .. 2
        BY <2>1
      <3> QED
        BY <2>2, <3>1
    <2> QED
      BY <2>3, <2>4
  <1> HIDE DEF Q, DCs, ACs
  <1>8. Told.dc = DCs /\ Told.ac = ACs /\ Told.quant = Q
        /\ Told.height = Short(sof, 2) /\ Told.width = Short(sof, 4)
    BY <1>1
  <1>9. HoldTables(Told.dc[0], Told.ac[0],
                   Standard_DC_Lum_NRCodes, Standard_DC_Lum_Values,
                   Standard_AC_Lum_NRCodes, Standard_AC_Lum_Values)
    BY <1>5, <1>7, <1>8 DEF HoldTables, IsTable
  <1>10. ASSUME NEW i \in 1 .. 2
         PROVE  HoldTables(Told.dc[i], Told.ac[i],
                           Standard_DC_Chroma_NRCodes, Standard_DC_Chroma_Values,
                           Standard_AC_Chroma_NRCodes, Standard_AC_Chroma_Values)
    BY <1>5, <1>7, <1>8 DEF HoldTables, IsTable
  <1>11. HoldsStandard(Told)
    BY <1>9, <1>10 DEF HoldsStandard
  <1>12. /\ height < 65536 => Short(sof, 2) = height
         /\ width < 65536 => Short(sof, 4) = width
    BY <1>2 DEF FrameIs
  <1> QED
    BY <1>6, <1>8, <1>11, <1>12

\* The encoder stores a coefficient in its place of the zigzag scan.
LEMMA PlaceIsScan ==
    ASSUME NEW v \in 0 .. 7, NEW u \in 0 .. 7
    PROVE  FdcPlace(v, u) = ZigZagScan(v, u) /\ ZigZagScan(v, u) \in 0 .. 63
  <1>1. CASE v = 0
    <2>1. u = 0 \/ u = 1 \/ u = 2 \/ u = 3 \/ u = 4 \/ u = 5 \/ u = 6 \/ u = 7
      OBVIOUS
    <2>2. FdcPlace(v, u) = ZigZag[u + 1]
      BY <1>1 DEF FdcPlace
    <2>3. ZigZagScan(v, u) = LET d == 0 + u
                                 before == IF d < 8 THEN (d * (d + 1)) \div 2
                                           ELSE 64 - ((15 - d) * (16 - d)) \div 2
                                 first == IF d < 8 THEN 0 ELSE d - 7
                             IN  before + (IF d % 2 = 0 THEN u ELSE 0) - first
      BY <1>1 DEF ZigZagScan
    <2> QED
      BY <2>1, <2>2, <2>3 DEF ZigZag
  <1>2. CASE v = 1
    <2>1. u = 0 \/ u = 1 \/ u = 2 \/ u = 3 \/ u = 4 \/ u = 5 \/ u = 6 \/ u = 7
      OBVIOUS
    <2>2. FdcPlace(v, u) = ZigZag[u + 9]
      BY <1>2 DEF FdcPlace
    <2>3. ZigZagScan(v, u) = LET d == 1 + u
                                 before == IF d < 8 THEN (d * (d + 1)) \div 2
                                           ELSE 64 - ((15 - d) * (16 - d)) \div 2
                                 first == IF d < 8 THEN 0 ELSE d - 7
                             IN  before + (IF d % 2 = 0 THEN u ELSE 1) - first
      BY <1>2 DEF ZigZagScan
    <2> QED
      BY <2>1, <2>2, <2>3 DEF ZigZag
  <1>3. CASE v = 2
    <2>1. u = 0 \/ u = 1 \/ u = 2 \/ u = 3 \/ u = 4 \/ u = 5 \/ u = 6 \/ u = 7
      OBVIOUS
    <2>2. FdcPlace(v, u) = ZigZag[u + 17]
      BY <1>3 DEF FdcPlace
    <2>3. ZigZagScan(v, u) = LET d == 2 + u
                                 before == IF d < 8 THEN (d * (d + 1)) \div 2
                                           ELSE 64 - ((15 - d) * (16 - d)) \div 2
                                 first == IF d < 8 THEN 0 ELSE d - 7
                             IN  before + (IF d % 2 = 0 THEN u ELSE 2) - first
      BY <1>3 DEF ZigZagScan
    <2> QED
      BY <2>1, <2>2, <2>3 DEF ZigZag
  <1>4. CASE v = 3
    <2>1. u = 0 \/ u = 1 \/ u = 2 \/ u = 3 \/ u = 4 \/ u = 5 \/ u = 6 \/ u = 7
      OBVIOUS
    <2>2. FdcPlace(v, u) = ZigZag[u + 25]
      BY <1>4 DEF FdcPlace
    <2>3. ZigZagScan(v, u) = LET d == 3 + u
                                 before == IF d < 8 THEN (d * (d + 1)) \div 2
                                           ELSE 64 - ((15 - d) * (16 - d)) \div 2
                                 first == IF d < 8 THEN 0 ELSE d - 7
                             IN  before + (IF d % 2 = 0 THEN u ELSE 3) - first
      BY <1>4 DEF ZigZagScan
    <2> QED
      BY <2>1, <2>2, <2>3 DEF ZigZag
  <1>5. CASE v = 4
    <2>1. u = 0 \/ u = 1 \/ u = 2 \/ u = 3 \/ u = 4 \/ u = 5 \/ u = 6 \/ u = 7
      OBVIOUS
    <2>2. FdcPlace(v, u) = ZigZag[u + 33]
      BY <1>5 DEF FdcPlace
    <2>3. ZigZagScan(v, u) = LET d == 4 + u
                                 before == IF d < 8 THEN (d * (d + 1)) \div 2
                                           ELSE 64 - ((15 - d) * (16 - d)) \div 2
                                 first == IF d < 8 THEN 0 ELSE d - 7
                             IN  before + (IF d % 2 = 0 THEN u ELSE 4) - first
      BY <1>5 DEF ZigZagScan
    <2> QED
      BY <2>1, <2>2, <2>3 DEF ZigZag
  <1>6. CASE v = 5
    <2>1. u = 0 \/ u = 1 \/ u = 2 \/ u = 3 \/ u = 4 \/ u = 5 \/ u = 6 \/ u = 7
      OBVIOUS
    <2>2. FdcPlace(v, u) = ZigZag[u + 41]
      BY <1>6 DEF FdcPlace
    <2>3. ZigZagScan(v, u) = LET d == 5 + u
                                 before == IF d < 8 THEN (d * (d + 1)) \div 2
                                           ELSE 64 - ((15 - d) * (16 - d)) \div 2
                                 first == IF d < 8 THEN 0 ELSE d - 7
                             IN  before + (IF d % 2 = 0 THEN u ELSE 5) - first
      BY <1>6 DEF ZigZagScan
    <2> QED
      BY <2>1, <2>2, <2>3 DEF ZigZag
  <1>7. CASE v = 6
    <2>1. u = 0 \/ u = 1 \/ u = 2 \/ u = 3 \/ u = 4 \/ u = 5 \/ u = 6 \/ u = 7
      OBVIOUS
    <2>2. FdcPlace(v, u) = ZigZag[u + 49]
      BY <1>7 DEF FdcPlace
    <2>3. ZigZagScan(v, u) = LET d == 6 + u
                                 before == IF d < 8 THEN (d * (d + 1)) \div 2
                                           ELSE 64 - ((15 - d) * (16 - d)) \div 2
                                 first == IF d < 8 THEN 0 ELSE d - 7
                             IN  before + (IF d % 2 = 0 THEN u ELSE 6) - first
      BY <1>7 DEF ZigZagScan
    <2> QED
      BY <2>1, <2>2, <2>3 DEF ZigZag
  <1>8. CASE v = 7
    <2>1. u = 0 \/ u = 1 \/ u = 2 \/ u = 3 \/ u = 4 \/ u = 5 \/ u = 6 \/ u = 7
      OBVIOUS
    <2>2. FdcPlace(v, u) = ZigZag[u + 57]
      BY <1>8 DEF FdcPlace
    <2>3. ZigZagScan(v, u) = LET d == 7 + u
                                 before == IF d < 8 THEN (d * (d + 1)) \div 2
                                           ELSE 64 - ((15 - d) * (16 - d)) \div 2
                                 first == IF d < 8 THEN 0 ELSE d - 7
                             IN  before + (IF d % 2 = 0 THEN u ELSE 7) - first
      BY <1>8 DEF ZigZagScan
    <2> QED
      BY <2>1, <2>2, <2>3 DEF ZigZag
  <1>9. v = 0 \/ v = 1 \/ v = 2 \/ v = 3 \/ v = 4 \/ v = 5 \/ v = 6 \/ v = 7
    OBVIOUS
  <1> QED
    BY <1>1, <1>2, <1>3, <1>4, <1>5, <1>6, <1>7, <1>8, <1>9

-----------------------------------------------------------------------------
(* The theorems *)

\* The decoder knows the quantizer at place k of the scan of component c.
QuantizerTold(c, k) ==
    LET base == IF c = 0 THEN Lum_Quantization_Tab ELSE Chroma_Quantization_Tab
    IN  /\ Told.quant[c][k + 1] = QualityTable(base, job.Qp)[k]
        /\ Told.quant[c][k + 1] \in 1 .. 255

\* It knows the size, if the header has room for it.
SizeTold ==
    /\ job.width < 65536 => Told.width = job.width
    /\ job.height < 65536 => Told.height = job.height

\* A header with room for the size tells it, the order of the scan and the
\* quantizers.
LEMMA HeaderTold ==
    ASSUME IInv, header = TheHeader
    PROVE  /\ HeaderComplete /\ HoldsStandard(Told)
           /\ SizeTold
           /\ \A c \in 0 .. 2, k \in 0 .. 63 : QuantizerTold(c, k)
  <1> DEFINE w == job.width
             h == job.height
             YTab == QualityTable(Lum_Quantization_Tab, job.Qp)
             CbCrTab == QualityTable(Chroma_Quantization_Tab, job.Qp)
  <1>1. w \in Nat /\ h \in Nat /\ job.Qp \in Int
    BY SentAreBlocks
  <1>2. YTab \in [0 .. 63 -> 1 .. 255] /\ CbCrTab \in [0 .. 63 -> 1 .. 255]
    BY <1>1, QuantizationTables, QualityTableType
  <1>3. header = WriteJpegHeader(w, h, YTab, CbCrTab)
    BY DEF TheHeader
  <1>4. \A k \in 0 .. 63 : YTab[k] \in 1 .. 255 /\ CbCrTab[k] \in 1 .. 255
    BY <1>2
  <1>5. YTab \in QuantizerTables /\ CbCrTab \in QuantizerTables
    <2> HIDE DEF YTab, CbCrTab
    <2> QED
      BY <1>2 DEF QuantizerTables
  <1> HIDE DEF w, h, YTab, CbCrTab
  <1>6. HeaderIs(header, w, h, YTab, CbCrTab)
    BY <1>1, <1>3, <1>5, HeaderStands
  <1>7. HeaderComplete
    BY <1>6, HeaderIsComplete
  <1>8. /\ HoldsStandard(Told)
        /\ Told.quant[0] = TableBytes(YTab)
        /\ \A c \in 1 .. 2 : Told.quant[c] = TableBytes(CbCrTab)
        /\ h < 65536 => Told.height = h
        /\ w < 65536 => Told.width = w
    BY <1>5, <1>6, HeaderTells
  <1>9. /\ \A k \in 0 .. 63 : TableBytes(YTab)[k + 1] = YTab[k]
        /\ \A k \in 0 .. 63 : TableBytes(CbCrTab)[k + 1] = CbCrTab[k]
    BY <1>5, TableBytesType
  <1>10. ASSUME NEW c \in 0 .. 2, NEW k \in 0 .. 63
         PROVE  QuantizerTold(c, k)
    <2>1. CASE c = 0
      <3>1. Told.quant[c][k + 1] = YTab[k]
        BY <1>8, <1>9, <2>1
      <3> QED
        BY <1>4, <2>1, <3>1 DEF YTab, QuantizerTold
    <2>2. CASE c # 0
      <3>1. c \in 1 .. 2
        BY <2>2
      <3>2. Told.quant[c][k + 1] = CbCrTab[k]
        BY <1>8, <1>9, <3>1
      <3> QED
        BY <1>4, <2>2, <3>2 DEF CbCrTab, QuantizerTold
    <2> QED
      BY <2>1, <2>2
  <1>11. SizeTold
    BY <1>8 DEF w, h, SizeTold
  <1> QED
    BY <1>7, <1>8, <1>10, <1>11

\* At the end all macro blocks are coded.
LEMMA AllCoded ==
    ASSUME IInv, ScanInv, pc = "closed", NEW told,
           told.width = job.width, told.height = job.height
    PROVE  3 * MacroBlocks(told) = Len(sent)
  <1> DEFINE w == job.width
             h == job.height
             a == (w + 7) \div 8
             b == (h + 7) \div 8
             r == y \div 8
             i == x \div 8
  <1>1. w \in Nat /\ h \in Nat
    BY SentAreBlocks
  <1>2. x \in 0 .. w /\ y \in 0 .. h + 7 /\ y % 8 = 0
    BY DEF IInv
  <1>3. (x = 0 \/ (x < w /\ y < h)) /\ ~(y < h /\ x < w)
    BY DEF ScanInv, MoreBlocks
  <1>4. x = 0
    BY <1>3
  <1>5. Len(sent) = 3 * (r * a + i) + 0
    BY DEF ScanInv, Coded, Columns
  <1>6. MacroBlocks(told) = a * b
    BY DEF MacroBlocks
  <1>7. i = 0 /\ r \in Nat /\ a \in Nat /\ b \in Nat
    BY <1>1, <1>2, <1>4
  <1>8. a = 0 \/ r = b
    <2>1. CASE w = 0
      BY <2>1
    <2>2. CASE w # 0
      <3>1. h <= y
        BY <1>1, <1>2, <1>3, <1>4, <2>2
      <3> QED
        BY <1>1, <1>2, <3>1
    <2> QED
      BY <2>1, <2>2
  <1> HIDE DEF a, b, r, i
  <1>9. r * a + i = a * b
    <2>1. CASE a = 0
      BY <1>7, <2>1
    <2>2. CASE r = b
      <3>1. b * a = a * b /\ a * b \in Nat
        BY <1>7
      <3> QED
        BY <1>7, <2>2, <3>1
    <2> QED
      BY <1>8, <2>1, <2>2
  <1> DEFINE n == a * b
  <1>10. n \in Nat /\ r * a + i = n /\ MacroBlocks(told) = n
    BY <1>6, <1>7, <1>9
  <1> HIDE DEF n
  <1> QED
    BY <1>5, <1>10

\* A decoder reads from the header what the encoder did: the size, and for every
\* coefficient its place and its quantizer.
THEOREM HeaderIsReadBack == Spec => []HeaderReadsBack
  <1>1. IInv /\ ScanInv => HeaderReadsBack
    <2> SUFFICES ASSUME IInv, ScanInv, pc = "convert", SizeFits
                 PROVE  /\ HeaderComplete
                        /\ LET told == Told
                               base(c) == IF c = 0 THEN Lum_Quantization_Tab
                                                   ELSE Chroma_Quantization_Tab
                           IN  /\ told.width = job.width /\ told.height = job.height
                               /\ \A c \in 0 .. 2, v \in 0 .. 7, u \in 0 .. 7 :
                                    /\ FdcPlace(v, u) = ZigZagScan(v, u)
                                    /\ told.quant[c][ZigZagScan(v, u) + 1] \in 1 .. 255
                                    /\ told.quant[c][ZigZagScan(v, u) + 1]
                                         = QualityTable(base(c), job.Qp)[FdcPlace(v, u)]
      BY DEF HeaderReadsBack
    <2>1. header = TheHeader
      BY DEF ScanInv
    <2>2. job.width < 65536 /\ job.height < 65536
      BY DEF SizeFits
    <2>3. HeaderComplete /\ Told.width = job.width /\ Told.height = job.height
      BY <2>1, <2>2, HeaderTold DEF SizeTold
    <2>4. ASSUME NEW c \in 0 .. 2, NEW v \in 0 .. 7, NEW u \in 0 .. 7
          PROVE  LET base == IF c = 0 THEN Lum_Quantization_Tab
                                      ELSE Chroma_Quantization_Tab
                 IN  /\ FdcPlace(v, u) = ZigZagScan(v, u)
                     /\ Told.quant[c][ZigZagScan(v, u) + 1] \in 1 .. 255
                     /\ Told.quant[c][ZigZagScan(v, u) + 1]
                          = QualityTable(base, job.Qp)[FdcPlace(v, u)]
      <3> DEFINE k == ZigZagScan(v, u)
      <3>1. FdcPlace(v, u) = k /\ k \in 0 .. 63
        BY PlaceIsScan
      <3> HIDE DEF k
      <3>2. QuantizerTold(c, k)
        BY <2>1, <3>1, HeaderTold
      <3> QED
        BY <3>1, <3>2 DEF k, QuantizerTold
    <2> QED
      BY <2>3, <2>4
  <1> QED
    BY <1>1, ScanInvariant, PTL

\* At any time, not only at the end, the header and the bytes of the file and
\* the bits kept back give the blocks that were sent, and those only.
RecoveredSoFar ==
    pc \notin {"header", "crashed"} =>
        HeaderComplete /\ DecodeScan(DataBits \o acc, Len(sent), Told) = sent

\* The invariant says so.
LEMMA Recovers ==
    ASSUME IInv, ScanInv
    PROVE  RecoveredSoFar
  <1> SUFFICES ASSUME pc \notin {"header", "crashed"}
               PROVE  /\ HeaderComplete
                      /\ DecodeScan(DataBits \o acc, Len(sent), Told) = sent
    BY DEF RecoveredSoFar
  <1> DEFINE bits == DataBits \o acc
  <1>1. header = TheHeader
    BY DEF ScanInv
  <1>2. HeaderComplete /\ HoldsStandard(Told)
    BY <1>1, HeaderTold
  <1>3. bits = Stream
    BY DEF DataBits, Stream, DataOf, AsByte
  <1>4. bits = Encoded(FlattenSeq(CodesOfScan(sent)))
    BY <1>3 DEF ScanInv, Streamed
  <1>5. bits \in Bits
    <2>1. acc \in Bits /\ file \in Bytes /\ 0 \in 0 .. 255
      BY DEF IInv, CodedData
    <2>2. DataOf(file) \in Bits
      BY <2>1, DataAppend
    <2> QED
      BY <1>3, <2>1, <2>2, ConcatProperties DEF Stream, Bits
  <1>6. sent \in Seq(Blocks)
    BY SentAreBlocks
  <1> HIDE DEF bits
  <1>7. Coders(bits, Told)
    BY <1>2, <1>5, StandardDecodes
  <1>8. DecodeScan(bits, Len(sent), Told) = sent
    BY <1>4, <1>6, <1>7, ScanRead
  <1> QED
    BY <1>2, <1>8 DEF bits

\* Coding is lossless from the quantized coefficients to the bit stream, step by
\* step: no legal sequence of blocks makes the Huffman coder, the stuffing or the
\* bits kept between two calls lose, add or reorder anything.
THEOREM NothingIsLost == Spec => []RecoveredSoFar
  <1>1. IInv /\ ScanInv => RecoveredSoFar
    BY Recovers
  <1> QED
    BY <1>1, ScanInvariant, PTL

\* A decoder recovers every block of the picture from the bytes of the file and
\* the bits of the byte that is not written.
THEOREM PictureIsDecoded == Spec => []Decodable
  <1>1. IInv /\ ScanInv => Decodable
    <2> SUFFICES ASSUME IInv, ScanInv, pc = "closed", SizeFits
                 PROVE  /\ HeaderComplete
                        /\ DecodeScan(DataBits \o acc, 3 * MacroBlocks(Told), Told) = sent
      BY DEF Decodable
    <2>1. header = TheHeader
      BY DEF ScanInv
    <2>2. Told.width = job.width /\ Told.height = job.height
      BY <2>1, HeaderTold DEF SizeTold, SizeFits
    <2>3. 3 * MacroBlocks(Told) = Len(sent)
      BY <2>2, AllCoded
    <2>4. HeaderComplete /\ DecodeScan(DataBits \o acc, Len(sent), Told) = sent
      BY Recovers DEF RecoveredSoFar
    <2> QED
      BY <2>3, <2>4
  <1> QED
    BY <1>1, ScanInvariant, PTL
=============================================================================
