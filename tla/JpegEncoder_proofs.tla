-------------------------- MODULE JpegEncoder_proofs --------------------------
(***************************************************************************)
(* JpegEncoder for pictures of every size, every quality and every block   *)
(* the transform can give.  The encoder's functions are recursive over     *)
(* data.  Induction is taken as "the set of counterexamples has a least    *)
(* element", with sets where the library's theorems have predicates, and   *)
(* FlattenSeq, which the coder is written with, is given its own rule      *)
(* first (FlattenKeeps).  Then, from the inside out: how many bit strings  *)
(* a block takes, what the Huffman tables hold, what bytes the bit strings *)
(* become; and at the end the program, with IInv and the theorems.         *)
(***************************************************************************)
EXTENDS JpegEncoder, WellFoundedInduction, SequenceTheorems, TLAPS

-----------------------------------------------------------------------------
(* Induction, with a set in the place of the predicate *)

\* A set of numbers that is not empty has a least one.
LEMMA Least ==
    ASSUME NEW S, S \subseteq Nat, S # {}
    PROVE  \E n \in S : \A m \in S : n <= m
  <1>1. IsWellFoundedOn(OpToRel(<, Nat), Nat)
    BY NatLessThanWellFounded
  <1>2. PICK n \in S : \A m \in S : ~ (<<m, n>> \in OpToRel(<, Nat))
    BY <1>1, WFMin
  <1>3. ASSUME NEW m \in S PROVE n <= m
    <2>1. m \in Nat /\ n \in Nat
      OBVIOUS
    <2>2. ~ (m < n)
      BY <1>2, <2>1 DEF OpToRel
    <2> QED
      BY <2>1, <2>2
  <1> QED
    BY <1>3

\* What holds of a and passes to the next holds up to n.
LEMMA Induction ==
    ASSUME NEW a \in Nat, NEW n \in Nat, NEW S, a \in S,
           \A i \in a .. n - 1 : i \in S => i + 1 \in S
    PROVE  \A i \in a .. n : i \in S
  <1> DEFINE Bad == {i \in a .. n : i \notin S}
  <1> SUFFICES ASSUME Bad # {} PROVE FALSE
    OBVIOUS
  <1>1. PICK m \in Bad : \A k \in Bad : m <= k
    <2>1. Bad \subseteq Nat
      OBVIOUS
    <2> QED
      BY <2>1, Least
  <1>2. m \in a .. n /\ m \notin S /\ m # a
    OBVIOUS
  <1>3. m - 1 \in a .. n - 1 /\ m - 1 \in a .. n /\ ~ (m <= m - 1)
    BY <1>2
  <1>4. m - 1 \in S
    BY <1>1, <1>3
  <1>5. (m - 1) + 1 \in S
    BY <1>3, <1>4
  <1> QED
    BY <1>2, <1>5

\* A recursive definition defines something, if each step stays in T.
LEMMA RecursionExists ==
    ASSUME NEW n \in Nat \ {0}, NEW T, NEW b \in T, NEW G \in [2 .. n -> [T -> T]]
    PROVE  \E f \in Seq(T) :
              /\ Len(f) = n /\ f[1] = b
              /\ \A i \in 2 .. n : f[i] = G[i][f[i - 1]]
  <1> DEFINE Good(m, f) == f[1] = b /\ \A i \in 2 .. m : f[i] = G[i][f[i - 1]]
             S == {m \in 1 .. n : \E f \in [1 .. m -> T] : Good(m, f)}
  <1>1. 1 \in S
    <2> DEFINE f == [i \in 1 .. 1 |-> b]
    <2>1. f \in [1 .. 1 -> T] /\ Good(1, f)
      OBVIOUS
    <2> HIDE DEF f, Good
    <2>2. \E g \in [1 .. 1 -> T] : Good(1, g)
      BY <2>1
    <2> QED
      BY <2>2
  <1>2. ASSUME NEW m \in 1 .. n - 1, m \in S PROVE m + 1 \in S
    <2>1. PICK g \in [1 .. m -> T] : Good(m, g)
      BY <1>2
    <2> DEFINE new == G[m + 1][g[m]]
               h == [i \in 1 .. m + 1 |-> IF i = m + 1 THEN new ELSE g[i]]
    <2>2. m + 1 \in 2 .. n /\ new \in T
      OBVIOUS
    <2> HIDE DEF new
    <2>3. h \in [1 .. m + 1 -> T]
      BY <2>2
    <2>4. ASSUME NEW i \in 1 .. m PROVE h[i] = g[i]
      OBVIOUS
    <2>5. h[m + 1] = new
      OBVIOUS
    <2> HIDE DEF h
    <2>6. h[1] = b
      BY <2>1, <2>4
    <2>7. ASSUME NEW i \in 2 .. m + 1 PROVE h[i] = G[i][h[i - 1]]
      <3>1. CASE i = m + 1
        <4>1. i - 1 = m /\ m \in 1 .. m
          BY <3>1
        <4> QED
          BY <2>4, <2>5, <3>1, <4>1 DEF new
      <3>2. CASE i # m + 1
        <4>1. i \in 2 .. m /\ i \in 1 .. m /\ i - 1 \in 1 .. m
          BY <3>2
        <4> QED
          BY <2>1, <2>4, <4>1
      <3> QED
        BY <3>1, <3>2
    <2>8. Good(m + 1, h)
      BY <2>6, <2>7
    <2> HIDE DEF Good
    <2>9. m + 1 \in 1 .. n
      OBVIOUS
    <2> QED
      BY <2>3, <2>8, <2>9
  <1>3. n \in S
    <2> HIDE DEF S
    <2>1. \A i \in 1 .. n : i \in S
      BY <1>1, <1>2, Induction
    <2> QED
      BY <2>1
  <1>4. PICK f \in [1 .. n -> T] : Good(n, f)
    <2> HIDE DEF Good
    <2> QED
      BY <1>3
  <1>5. f \in Seq(T) /\ Len(f) = n
    OBVIOUS
  <1> QED
    BY <1>4, <1>5

-----------------------------------------------------------------------------
(* Sequences of sequences, put one after the other *)

\* S has the first of the sequences, and with every sequence also what results
\* if one of them is appended.
Collects(S, s) ==
    s[1] \in S /\ \A i \in 1 .. Len(s), t \in S : t \o s[i] \in S

\* Such a sequence is flattened step by step, within S.
LEMMA FlattenSteps ==
    ASSUME NEW s, Len(s) \in Nat \ {0}, NEW S, Collects(S, s)
    PROVE  \E f \in Seq(S) :
              /\ Len(f) = Len(s) /\ f[1] = s[1]
              /\ \A i \in 2 .. Len(s) : f[i] = f[i - 1] \o s[i]
              /\ FlattenSeq(s) = f[Len(s)]
  <1> DEFINE n == Len(s)
  <1>first. n \in Nat \ {0} /\ s[1] \in S
    BY DEF Collects
  <1>closed. \A i \in 1 .. n, t \in S : t \o s[i] \in S
    BY DEF Collects
  <1> HIDE DEF n
  <1> USE <1>first
  <1> DEFINE Step(f) == [i \in 1 .. n |-> IF i = 1 THEN s[i] ELSE f[i - 1] \o s[i]]
             G == [i \in 2 .. n |-> [t \in S |-> t \o s[i]]]
  <1>1. G \in [2 .. n -> [S -> S]]
    BY <1>closed
  <1>2. \A i \in 2 .. n, t \in S : G[i][t] = t \o s[i]
    OBVIOUS
  <1> HIDE DEF G
  <1>3. PICK g \in Seq(S) :
               /\ Len(g) = n /\ g[1] = s[1]
               /\ \A i \in 2 .. n : g[i] = G[i][g[i - 1]]
    <2>1. s[1] \in S
      OBVIOUS
    <2> DEFINE b == s[1]
    <2> HIDE DEF b
    <2>2. b \in S
      BY <2>1 DEF b
    <2>3. \E g \in Seq(S) :
             /\ Len(g) = n /\ g[1] = b
             /\ \A i \in 2 .. n : g[i] = G[i][g[i - 1]]
      BY <1>1, <2>2, RecursionExists
    <2> QED
      BY <2>3 DEF b
  <1>4. g = Step(g)
    <2>1. g = [i \in 1 .. n |-> g[i]]
      BY <1>3
    <2>2. ASSUME NEW i \in 1 .. n, i # 1 PROVE g[i] = g[i - 1] \o s[i]
      <3>1. i \in 2 .. n /\ i - 1 \in 1 .. n
        BY <2>2
      <3>2. g[i - 1] \in S /\ g[i] = G[i][g[i - 1]]
        BY <1>3, <3>1
      <3> QED
        BY <1>2, <3>1, <3>2
    <2>3. ASSUME NEW i \in 1 .. n
          PROVE  g[i] = IF i = 1 THEN s[i] ELSE g[i - 1] \o s[i]
      BY <1>3, <2>2
    <2> QED
      BY <2>1, <2>3
  <1> DEFINE f == CHOOSE f : f = Step(f)
  <1>5. f = Step(f)
    <2> HIDE DEF Step
    <2> QED
      BY <1>4
  <1>6. FlattenSeq(s) = f[n]
    BY DEF FlattenSeq, n
  <1> HIDE DEF f
  <1>7. f[1] = s[1] /\ \A i \in 2 .. n : f[i] = f[i - 1] \o s[i]
    <2>1. f[1] = s[1]
      BY <1>5
    <2>2. ASSUME NEW i \in 2 .. n PROVE f[i] = f[i - 1] \o s[i]
      <3>1. i \in 1 .. n /\ i # 1
        OBVIOUS
      <3> QED
        BY <1>5, <3>1
    <2> QED
      BY <2>1, <2>2
  <1>8. \A i \in 1 .. n : f[i] \in S
    <2> DEFINE Good == {i \in 1 .. n : f[i] \in S}
    <2>1. 1 \in Good
      BY <1>7
    <2>2. ASSUME NEW i \in 1 .. n - 1, i \in Good PROVE i + 1 \in Good
      <3>1. i + 1 \in 2 .. n /\ (i + 1) - 1 = i
        OBVIOUS
      <3>2. f[i + 1] = f[i] \o s[i + 1]
        BY <1>7, <3>1
      <3>3. f[i] \in S
        BY <2>2
      <3>4. f[i] \o s[i + 1] \in S
        BY <1>closed, <3>1, <3>3
      <3>5. i + 1 \in 1 .. n /\ f[i + 1] \in S
        BY <3>1, <3>2, <3>4
      <3> QED
        BY <3>5
    <2> HIDE DEF Good
    <2>3. \A i \in 1 .. n : i \in Good
      BY <2>1, <2>2, Induction
    <2> QED
      BY <2>3 DEF Good
  <1>9. f \in Seq(S) /\ Len(f) = n
    <2>1. DOMAIN f = 1 .. n /\ f = [i \in 1 .. n |-> f[i]]
      BY <1>5
    <2> QED
      BY <1>8, <2>1
  <1> QED
    BY <1>6, <1>7, <1>9 DEF n

\* What is kept when a sequence is appended is kept by the whole.
LEMMA FlattenKeeps ==
    ASSUME NEW s, Len(s) \in Nat, DOMAIN s = 1 .. Len(s),
           NEW S, <<>> \in S, Len(s) # 0 => Collects(S, s)
    PROVE  FlattenSeq(s) \in S
  <1>1. CASE Len(s) = 0
    <2>1. s = <<>>
      BY <1>1
    <2> QED
      BY <1>1, <2>1 DEF FlattenSeq
  <1>2. CASE Len(s) # 0
    <2>1. Len(s) \in Nat \ {0} /\ Collects(S, s)
      BY <1>2
    <2>2. PICK f \in Seq(S) :
                 /\ Len(f) = Len(s) /\ f[1] = s[1]
                 /\ \A i \in 2 .. Len(s) : f[i] = f[i - 1] \o s[i]
                 /\ FlattenSeq(s) = f[Len(s)]
      BY <2>1, FlattenSteps
    <2> QED
      BY <1>2, <2>2
  <1> QED
    BY <1>1, <1>2

\* Sequences over T put together are one.
LEMMA FlattenInSeq ==
    ASSUME NEW T, NEW n \in Nat, NEW s \in [1 .. n -> Seq(T)]
    PROVE  FlattenSeq(s) \in Seq(T)
  <1>1. DOMAIN s = 1 .. Len(s) /\ Len(s) = n
    OBVIOUS
  <1>2. <<>> \in Seq(T) /\ (Len(s) # 0 => Collects(Seq(T), s))
    BY <1>1 DEF Collects
  <1> QED
    BY <1>1, <1>2, FlattenKeeps

-----------------------------------------------------------------------------
(* The number of bit strings of a block *)

\* EndPos is the last place up to k that is not zero, or 0.
LEMMA EndPosIsLast ==
    ASSUME NEW DU, NEW k \in 0 .. 63
    PROVE  /\ EndPos(DU, k) \in 0 .. k
           /\ EndPos(DU, k) = 0 \/ DU[EndPos(DU, k)] # 0
           /\ \A i \in EndPos(DU, k) + 1 .. k : DU[i] = 0
  <1> DEFINE IsEnd(n, e) == /\ e = 0 \/ DU[e] # 0
                           /\ \A i \in e + 1 .. n : DU[i] = 0
             S == {n \in 0 .. 63 : \E e \in 0 .. n : IsEnd(n, e)}
  <1>1. 0 \in S
    <2>1. IsEnd(0, 0)
      OBVIOUS
    <2> HIDE DEF IsEnd
    <2> QED
      BY <2>1
  <1>2. ASSUME NEW n \in 0 .. 62, n \in S PROVE n + 1 \in S
    <2>1. PICK e \in 0 .. n : IsEnd(n, e)
      BY <1>2
    <2>2. CASE DU[n + 1] = 0
      <3>1. IsEnd(n + 1, e)
        <4>1. ASSUME NEW i \in e + 1 .. n + 1 PROVE i \in e + 1 .. n \/ i = n + 1
          OBVIOUS
        <4> QED
          BY <2>1, <2>2, <4>1
      <3> HIDE DEF IsEnd
      <3> QED
        BY <3>1
    <2>3. CASE DU[n + 1] # 0
      <3>1. IsEnd(n + 1, n + 1)
        BY <2>3
      <3> HIDE DEF IsEnd
      <3> QED
        BY <3>1
    <2> QED
      BY <2>2, <2>3
  <1> HIDE DEF S
  <1>3. k \in S
    BY <1>1, <1>2, Induction
  <1> USE DEF S
  <1>4. \E e \in 0 .. k : IsEnd(k, e)
    BY <1>3
  <1> QED
    BY <1>4 DEF EndPos

\* Which position is the last is settled by what EndPosIsLast says.
LEMMA EndPosUnique ==
    ASSUME NEW DU, NEW k \in 0 .. 63, NEW e \in 0 .. k,
           e = 0 \/ DU[e] # 0, \A i \in e + 1 .. k : DU[i] = 0
    PROVE  EndPos(DU, k) = e
  <1> DEFINE p == EndPos(DU, k)
  <1>1. /\ p \in 0 .. k
        /\ p = 0 \/ DU[p] # 0
        /\ \A i \in p + 1 .. k : DU[i] = 0
    BY EndPosIsLast
  <1> HIDE DEF p
  <1>2. ~ (p < e)
    <2> SUFFICES ASSUME p < e PROVE FALSE
      OBVIOUS
    <2>1. e \in p + 1 .. k /\ e # 0
      BY <1>1
    <2> QED
      BY <1>1, <2>1
  <1>3. ~ (e < p)
    <2> SUFFICES ASSUME e < p PROVE FALSE
      OBVIOUS
    <2>1. p \in e + 1 .. k /\ p # 0
      BY <1>1
    <2> QED
      BY <1>1, <2>1
  <1>4. p = e
    BY <1>1, <1>2, <1>3
  <1> QED
    BY <1>4 DEF p

\* A coefficient that is not zero becomes the end; a zero leaves it.
LEMMA EndPosStep ==
    ASSUME NEW DU, NEW k \in 1 .. 63
    PROVE  /\ DU[k] # 0 => EndPos(DU, k) = k
           /\ DU[k] = 0 => EndPos(DU, k) = EndPos(DU, k - 1)
  <1>1. ASSUME DU[k] # 0 PROVE EndPos(DU, k) = k
    <2>1. k \in 0 .. 63 /\ k \in 0 .. k /\ k + 1 .. k = {}
      OBVIOUS
    <2> QED
      BY <1>1, <2>1, EndPosUnique
  <1>2. ASSUME DU[k] = 0 PROVE EndPos(DU, k) = EndPos(DU, k - 1)
    <2> DEFINE e == EndPos(DU, k - 1)
    <2>1. /\ e \in 0 .. k - 1
          /\ e = 0 \/ DU[e] # 0
          /\ \A i \in e + 1 .. k - 1 : DU[i] = 0
      <3>1. k - 1 \in 0 .. 63
        OBVIOUS
      <3> QED
        BY <3>1, EndPosIsLast
    <2> HIDE DEF e
    <2>2. \A i \in e + 1 .. k : DU[i] = 0
      <3>1. ASSUME NEW i \in e + 1 .. k PROVE i \in e + 1 .. k - 1 \/ i = k
        BY <2>1
      <3> QED
        BY <1>2, <2>1, <3>1
    <2>3. e \in 0 .. k /\ k \in 0 .. 63
      BY <2>1
    <2>4. EndPos(DU, k) = e
      BY <2>1, <2>2, <2>3, EndPosUnique
    <2> QED
      BY <2>4 DEF e
  <1> QED
    BY <1>1, <1>2

-----------------------------------------------------------------------------
(* Bit strings *)

\* The powers of two that occur are positive numbers.
LEMMA PowerIsPositive ==
    ASSUME NEW k \in 0 .. 16
    PROVE  2 ^ k \in Nat /\ 2 ^ k > 0
  <1>1. \/ k = 0 \/ k = 1 \/ k = 2 \/ k = 3 \/ k = 4 \/ k = 5 \/ k = 6
        \/ k = 7 \/ k = 8 \/ k = 9 \/ k = 10 \/ k = 11 \/ k = 12 \/ k = 13
        \/ k = 14 \/ k = 15 \/ k = 16
    OBVIOUS
  <1>2. /\ 2 ^ 0 \in Nat /\ 2 ^ 0 > 0
        /\ 2 ^ 1 \in Nat /\ 2 ^ 1 > 0
        /\ 2 ^ 2 \in Nat /\ 2 ^ 2 > 0
        /\ 2 ^ 3 \in Nat /\ 2 ^ 3 > 0
        /\ 2 ^ 4 \in Nat /\ 2 ^ 4 > 0
        /\ 2 ^ 5 \in Nat /\ 2 ^ 5 > 0
        /\ 2 ^ 6 \in Nat /\ 2 ^ 6 > 0
        /\ 2 ^ 7 \in Nat /\ 2 ^ 7 > 0
        /\ 2 ^ 8 \in Nat /\ 2 ^ 8 > 0
        /\ 2 ^ 9 \in Nat /\ 2 ^ 9 > 0
        /\ 2 ^ 10 \in Nat /\ 2 ^ 10 > 0
        /\ 2 ^ 11 \in Nat /\ 2 ^ 11 > 0
        /\ 2 ^ 12 \in Nat /\ 2 ^ 12 > 0
        /\ 2 ^ 13 \in Nat /\ 2 ^ 13 > 0
        /\ 2 ^ 14 \in Nat /\ 2 ^ 14 > 0
        /\ 2 ^ 15 \in Nat /\ 2 ^ 15 > 0
        /\ 2 ^ 16 \in Nat /\ 2 ^ 16 > 0
    OBVIOUS
  <1> QED
    BY <1>1, <1>2, Zenon

\* Each is twice the one before.
LEMMA PowerDoubles ==
    ASSUME NEW k \in 0 .. 15
    PROVE  2 ^ (k + 1) = 2 * 2 ^ k
  <1>1. \/ k = 0 /\ k + 1 = 1
        \/ k = 1 /\ k + 1 = 2
        \/ k = 2 /\ k + 1 = 3
        \/ k = 3 /\ k + 1 = 4
        \/ k = 4 /\ k + 1 = 5
        \/ k = 5 /\ k + 1 = 6
        \/ k = 6 /\ k + 1 = 7
        \/ k = 7 /\ k + 1 = 8
        \/ k = 8 /\ k + 1 = 9
        \/ k = 9 /\ k + 1 = 10
        \/ k = 10 /\ k + 1 = 11
        \/ k = 11 /\ k + 1 = 12
        \/ k = 12 /\ k + 1 = 13
        \/ k = 13 /\ k + 1 = 14
        \/ k = 14 /\ k + 1 = 15
        \/ k = 15 /\ k + 1 = 16
    OBVIOUS
  <1>2. /\ 2 ^ 1 = 2 * 2 ^ 0
        /\ 2 ^ 2 = 2 * 2 ^ 1
        /\ 2 ^ 3 = 2 * 2 ^ 2
        /\ 2 ^ 4 = 2 * 2 ^ 3
        /\ 2 ^ 5 = 2 * 2 ^ 4
        /\ 2 ^ 6 = 2 * 2 ^ 5
        /\ 2 ^ 7 = 2 * 2 ^ 6
        /\ 2 ^ 8 = 2 * 2 ^ 7
        /\ 2 ^ 9 = 2 * 2 ^ 8
        /\ 2 ^ 10 = 2 * 2 ^ 9
        /\ 2 ^ 11 = 2 * 2 ^ 10
        /\ 2 ^ 12 = 2 * 2 ^ 11
        /\ 2 ^ 13 = 2 * 2 ^ 12
        /\ 2 ^ 14 = 2 * 2 ^ 13
        /\ 2 ^ 15 = 2 * 2 ^ 14
        /\ 2 ^ 16 = 2 * 2 ^ 15
    OBVIOUS
  <1> QED
    BY <1>1, <1>2, Zenon

\* A greater exponent gives no smaller power.
LEMMA PowerIsMonotone ==
    ASSUME NEW n \in 0 .. 16, NEW m \in 0 .. n
    PROVE  2 ^ m <= 2 ^ n
  <1> DEFINE S == {k \in m .. n : 2 ^ m <= 2 ^ k}
  <1>1. m \in S
    BY PowerIsPositive
  <1>2. ASSUME NEW k \in m .. n - 1, k \in S PROVE k + 1 \in S
    <2>1. k \in 0 .. 15 /\ k \in 0 .. 16 /\ m \in 0 .. 16
      OBVIOUS
    <2>2. 2 ^ (k + 1) = 2 * 2 ^ k /\ 2 ^ k \in Nat /\ 2 ^ m \in Nat
      BY <2>1, PowerDoubles, PowerIsPositive
    <2>3. 2 ^ m <= 2 ^ (k + 1)
      BY <1>2, <2>2
    <2> QED
      BY <2>3
  <1> HIDE DEF S
  <1>3. n \in S
    BY <1>1, <1>2, Induction
  <1> QED
    BY <1>3 DEF S

BitStrings == [length : 0 .. 16, value : Int]

\* The number of bits of a number, in case it has no more than 16.
LEMMA BitLength ==
    ASSUME NEW abs \in Nat, NEW n \in 0 .. 16, abs < 2 ^ n
    PROVE  LET length == CHOOSE m \in 0 .. 16 :
                             abs < 2 ^ m /\ (m = 0 \/ abs >= 2 ^ (m - 1))
           IN  /\ length \in 0 .. n /\ abs < 2 ^ length
               /\ length = 0 \/ abs >= 2 ^ (length - 1)
  <1> DEFINE Fits(m) == abs < 2 ^ m /\ (m = 0 \/ abs >= 2 ^ (m - 1))
             length == CHOOSE m \in 0 .. 16 : Fits(m)
             S == {m \in 0 .. 16 : abs < 2 ^ m}
  <1>1. n \in S
    OBVIOUS
  <1>2. PICK m \in S : \A k \in S : m <= k
    <2>1. S \subseteq Nat
      OBVIOUS
    <2> QED
      BY <1>1, <2>1, Least
  <1>3. m \in 0 .. 16 /\ abs < 2 ^ m
    OBVIOUS
  <1>4. ASSUME m # 0 PROVE abs >= 2 ^ (m - 1)
    <2>1. m - 1 \in 0 .. 16 /\ ~ (m <= m - 1)
      BY <1>3, <1>4
    <2>2. m - 1 \notin S
      BY <1>2, <2>1
    <2>3. ~ (abs < 2 ^ (m - 1))
      BY <2>1, <2>2
    <2> DEFINE q == m - 1
    <2>4. q \in 0 .. 16
      BY <2>1
    <2> HIDE DEF q
    <2>5. 2 ^ q \in Nat
      BY <2>4, PowerIsPositive
    <2>6. 2 ^ (m - 1) \in Nat
      BY <2>5 DEF q
    <2> QED
      BY <2>3, <2>6
  <1>5. length \in 0 .. 16 /\ Fits(length)
    <2>1. Fits(m)
      BY <1>3, <1>4
    <2> HIDE DEF Fits
    <2> QED
      BY <1>3, <2>1
  <1> HIDE DEF length
  <1>6. length <= n
    <2> SUFFICES ASSUME length > n PROVE FALSE
      BY <1>5
    <2> DEFINE q == length - 1
    <2>1. abs >= 2 ^ q
      BY <1>5
    <2>2. q \in 0 .. 16 /\ n \in 0 .. q
      BY <1>5
    <2> HIDE DEF q
    <2>3. 2 ^ n <= 2 ^ q /\ 2 ^ n \in Nat /\ 2 ^ q \in Nat
      BY <2>2, PowerIsMonotone, PowerIsPositive
    <2> QED
      BY <2>1, <2>3
  <1>7. length \in 0 .. n
    BY <1>5, <1>6
  <1> QED
    BY <1>5, <1>7 DEF length

Fits(v, n) == v < 2 ^ n /\ -v < 2 ^ n

\* A number that has at most n bits is coded by at most as many.
LEMMA BitCode ==
    ASSUME NEW v \in Int, NEW n \in 0 .. 16, Fits(v, n)
    PROVE  GetBitCode(v) \in [length : 0 .. n, value : Int]
  <1> DEFINE abs == IF v > 0 THEN v ELSE -v
             length == CHOOSE m \in 0 .. 16 :
                           abs < 2 ^ m /\ (m = 0 \/ abs >= 2 ^ (m - 1))
  <1>1. abs \in Nat /\ abs < 2 ^ n
    BY DEF Fits
  <1>2. GetBitCode(v)
          = [length |-> length,
             value |-> IF v > 0 THEN v ELSE 2 ^ length + v - 1]
    BY DEF GetBitCode
  <1> HIDE DEF abs
  <1>3. length \in 0 .. n
    BY <1>1, BitLength
  <1> HIDE DEF length
  <1>4. length \in 0 .. 16
    BY <1>3
  <1>5. 2 ^ length \in Nat
    BY <1>4, PowerIsPositive
  <1>6. (IF v > 0 THEN v ELSE 2 ^ length + v - 1) \in Int
    BY <1>5
  <1> QED
    BY <1>2, <1>3, <1>6

-----------------------------------------------------------------------------
(* The Huffman tables *)

\* The number of codes in a table of 16 counts.
CodesIn(nr) == nr[1] + nr[2] + nr[3] + nr[4] + nr[5] + nr[6] + nr[7] + nr[8]
                 + nr[9] + nr[10] + nr[11] + nr[12] + nr[13] + nr[14] + nr[15]
                 + nr[16]

Run(n, k) == [j \in 1 .. n |-> k]

Ascending(t, k) ==
    /\ t \in Seq(1 .. 16)
    /\ \A p \in 1 .. Len(t) : t[p] <= k
    /\ \A p \in 2 .. Len(t) : t[p - 1] <= t[p]

\* A run of one length is in order.
LEMMA RunAscends ==
    ASSUME NEW n \in Nat, NEW k \in 1 .. 16
    PROVE  Ascending(Run(n, k), k) /\ Len(Run(n, k)) = n
  BY DEF Run, Ascending

\* A run of a greater length behind it keeps the order.
LEMMA AppendRun ==
    ASSUME NEW t, NEW k \in 2 .. 16, Ascending(t, k - 1), NEW n \in Nat
    PROVE  /\ Ascending(t \o Run(n, k), k)
           /\ Len(t \o Run(n, k)) = Len(t) + n
  <1> DEFINE u == t \o Run(n, k)
             m == Len(t)
  <1>1. t \in Seq(1 .. 16) /\ Run(n, k) \in Seq(1 .. 16) /\ Len(Run(n, k)) = n
    BY DEF Ascending, Run
  <1>2. u \in Seq(1 .. 16) /\ Len(u) = m + n /\ m \in Nat
    BY <1>1
  <1>3. \A p \in 1 .. m : u[p] = t[p]
    BY <1>1
  <1>4. ASSUME NEW p \in m + 1 .. m + n PROVE u[p] = k
    <2>1. u[p] = Run(n, k)[p - m]
      BY <1>1
    <2>2. p - m \in 1 .. n
      BY <1>2
    <2> QED
      BY <2>1, <2>2 DEF Run
  <1> HIDE DEF u, m
  <1>5. ASSUME NEW p \in 1 .. m + n PROVE u[p] \in 1 .. 16 /\ u[p] <= k
    <2>1. p \in 1 .. m \/ p \in m + 1 .. m + n
      BY <1>2
    <2>2. CASE p \in 1 .. m
      <3>1. u[p] = t[p] /\ t[p] \in 1 .. 16 /\ t[p] <= k - 1
        BY <1>1, <1>3, <2>2, SMTT(30) DEF Ascending, m
      <3> QED
        BY <3>1
    <2> QED
      BY <1>4, <2>1, <2>2
  <1>6. ASSUME NEW p \in 2 .. m + n PROVE u[p - 1] <= u[p]
    <2>1. CASE p \in 2 .. m
      <3>1. u[p] = t[p] /\ u[p - 1] = t[p - 1]
        BY <1>2, <1>3, <2>1
      <3>2. t[p - 1] <= t[p]
        BY <2>1 DEF Ascending, m
      <3> QED
        BY <3>1, <3>2
    <2>2. CASE p \in m + 1 .. m + n
      <3>1. u[p] = k
        BY <1>4, <2>2
      <3>2. p - 1 \in 1 .. m + n
        BY <1>2
      <3>3. u[p - 1] <= k
        BY <1>5, <3>2
      <3> QED
        BY <3>1, <3>3
    <2>3. p \in 2 .. m \/ p \in m + 1 .. m + n
      BY <1>2
    <2> QED
      BY <2>1, <2>2, <2>3
  <1>7. Ascending(u, k)
    BY <1>2, <1>5, <1>6 DEF Ascending
  <1> QED
    BY <1>2, <1>7 DEF u, m

\* The lengths of the codes ascend, and there are as many as the counts say.
LEMMA CodeLengthsAscend ==
    ASSUME NEW nr \in [1 .. 16 -> Nat]
    PROVE  /\ Ascending(CodeLengths(nr), 16)
           /\ Len(CodeLengths(nr)) = CodesIn(nr)
  <1> DEFINE s == [k \in 1 .. 16 |-> Run(nr[k], k)]
             S == Seq(1 .. 16)
  <1>1. Len(s) = 16 /\ \A k \in 1 .. 16 : s[k] = Run(nr[k], k)
    OBVIOUS
  <1>2. CodeLengths(nr) = FlattenSeq(s)
    BY DEF CodeLengths, Run
  <1> HIDE DEF s
  <1>3. \A k \in 1 .. 16 : s[k] \in S
    <2>1. ASSUME NEW k \in 1 .. 16 PROVE s[k] \in S
      <3>1. nr[k] \in Nat
        OBVIOUS
      <3>2. Ascending(Run(nr[k], k), k)
        BY <3>1, RunAscends
      <3>3. s[k] = Run(nr[k], k)
        BY <1>1
      <3> QED
        BY <3>2, <3>3 DEF Ascending
    <2> QED
      BY <2>1
  <1>4. \A t, u \in S : t \o u \in S
    OBVIOUS
  <1> HIDE DEF S
  <1>5. Len(s) \in Nat \ {0} /\ Collects(S, s)
    <2>1. s[1] \in S
      BY <1>3
    <2>2. ASSUME NEW i \in 1 .. Len(s), NEW t \in S PROVE t \o s[i] \in S
      <3>1. s[i] \in S
        BY <1>1, <1>3
      <3> QED
        BY <1>4, <3>1
    <2>3. Len(s) \in Nat \ {0}
      BY <1>1
    <2> QED
      BY <2>1, <2>2, <2>3 DEF Collects
  <1>6. PICK f : /\ f \in Seq(S)
                 /\ Len(f) = Len(s) /\ f[1] = s[1]
                 /\ \A i \in 2 .. Len(s) : f[i] = f[i - 1] \o s[i]
                 /\ FlattenSeq(s) = f[Len(s)]
    BY <1>5, FlattenSteps
  <1>7. f[1] = Run(nr[1], 1) /\ CodeLengths(nr) = f[16]
    <2>1. Len(s) = 16 /\ s[1] = Run(nr[1], 1)
      BY <1>1
    <2>2. f[1] = s[1] /\ FlattenSeq(s) = f[Len(s)]
      BY <1>6
    <2> QED
      BY <1>2, <2>1, <2>2
  <1>8. ASSUME NEW k \in 2 .. 16 PROVE f[k] = f[k - 1] \o Run(nr[k], k)
    <2>1. k \in 2 .. Len(s) /\ s[k] = Run(nr[k], k)
      BY <1>1
    <2>2. \A i \in 2 .. Len(s) : f[i] = f[i - 1] \o s[i]
      BY <1>6
    <2> QED
      BY <2>1, <2>2
  <1> DEFINE Good == {k \in 1 .. 16 : Ascending(f[k], k)}
  <1>9. 1 \in Good
    <2>1. nr[1] \in Nat /\ 1 \in 1 .. 16
      OBVIOUS
    <2>2. Ascending(Run(nr[1], 1), 1)
      BY <2>1, RunAscends
    <2> QED
      BY <1>7, <2>2
  <1>10. ASSUME NEW k \in 1 .. 15, k \in Good PROVE k + 1 \in Good
    <2> DEFINE m == k + 1
    <2>1. m \in 2 .. 16 /\ m - 1 = k /\ nr[m] \in Nat
      OBVIOUS
    <2>2. Ascending(f[m - 1], m - 1)
      BY <1>10, <2>1
    <2> HIDE DEF m
    <2>3. Ascending(f[m - 1] \o Run(nr[m], m), m)
      BY <2>1, <2>2, AppendRun
    <2>4. Ascending(f[m], m)
      BY <1>8, <2>1, <2>3
    <2>5. m \in 1 .. 16
      BY <2>1
    <2>6. m \in Good
      BY <2>4, <2>5
    <2> QED
      BY <2>6 DEF m
  <1> HIDE DEF Good
  <1>11. \A k \in 1 .. 16 : k \in Good
    BY <1>9, <1>10, Induction
  <1>12. \A k \in 1 .. 16 : Ascending(f[k], k)
    BY <1>11 DEF Good
  <1> DEFINE l(k) == Len(f[k])
  <1>13. l(1) = nr[1]
    <2>1. nr[1] \in Nat /\ 1 \in 1 .. 16
      OBVIOUS
    <2> QED
      BY <1>7, <2>1, RunAscends
  <1>14. ASSUME NEW k \in 2 .. 16
         PROVE  l(k) = l(k - 1) + nr[k] /\ l(k - 1) \in Nat /\ nr[k] \in Nat
    <2>1. k - 1 \in 1 .. 16 /\ nr[k] \in Nat
      OBVIOUS
    <2>2. Ascending(f[k - 1], k - 1)
      BY <1>12, <2>1
    <2>3. Len(f[k - 1] \o Run(nr[k], k)) = Len(f[k - 1]) + nr[k]
      BY <2>1, <2>2, AppendRun
    <2>4. l(k - 1) \in Nat
      <3>1. f[k - 1] \in Seq(1 .. 16)
        BY <2>2 DEF Ascending
      <3> QED
        BY <3>1, LenProperties
    <2> QED
      BY <1>8, <2>1, <2>3, <2>4
  <1> HIDE DEF l
  <1>15. /\ l(2) = l(1) + nr[2] /\ l(1) \in Nat /\ nr[2] \in Nat
         /\ l(3) = l(2) + nr[3] /\ l(2) \in Nat /\ nr[3] \in Nat
         /\ l(4) = l(3) + nr[4] /\ l(3) \in Nat /\ nr[4] \in Nat
         /\ l(5) = l(4) + nr[5] /\ l(4) \in Nat /\ nr[5] \in Nat
         /\ l(6) = l(5) + nr[6] /\ l(5) \in Nat /\ nr[6] \in Nat
    BY <1>14
  <1>16. /\ l(7) = l(6) + nr[7] /\ l(6) \in Nat /\ nr[7] \in Nat
         /\ l(8) = l(7) + nr[8] /\ l(7) \in Nat /\ nr[8] \in Nat
         /\ l(9) = l(8) + nr[9] /\ l(8) \in Nat /\ nr[9] \in Nat
         /\ l(10) = l(9) + nr[10] /\ l(9) \in Nat /\ nr[10] \in Nat
         /\ l(11) = l(10) + nr[11] /\ l(10) \in Nat /\ nr[11] \in Nat
    BY <1>14
  <1>17. /\ l(12) = l(11) + nr[12] /\ l(11) \in Nat /\ nr[12] \in Nat
         /\ l(13) = l(12) + nr[13] /\ l(12) \in Nat /\ nr[13] \in Nat
         /\ l(14) = l(13) + nr[14] /\ l(13) \in Nat /\ nr[14] \in Nat
         /\ l(15) = l(14) + nr[15] /\ l(14) \in Nat /\ nr[15] \in Nat
         /\ l(16) = l(15) + nr[16] /\ l(15) \in Nat /\ nr[16] \in Nat
    BY <1>14
  <1>18. l(16) = CodesIn(nr)
    BY <1>13, <1>15, <1>16, <1>17 DEF CodesIn
  <1> QED
    BY <1>7, <1>12, <1>18 DEF l

\* Consecutive codes, lengthened when the length grows, are numbers.
LEMMA CodesAreNumbers ==
    ASSUME NEW n \in Nat \ {0}, NEW l,
           \A p \in 1 .. n : l[p] \in 1 .. 16,
           \A p \in 2 .. n : l[p - 1] <= l[p]
    PROVE  LET code[p \in 1 .. n] ==
                 IF p = 1 THEN 0
                 ELSE (code[p - 1] + 1) * 2 ^ (l[p] - l[p - 1])
           IN  \A p \in 1 .. n : code[p] \in Nat
  <1> DEFINE w == [p \in 2 .. n |-> 2 ^ (l[p] - l[p - 1])]
             Step(c) == [p \in 1 .. n |->
                           IF p = 1 THEN 0
                           ELSE (c[p - 1] + 1) * 2 ^ (l[p] - l[p - 1])]
             code == CHOOSE c : c = Step(c)
             G == [p \in 2 .. n |-> [c \in Nat |-> (c + 1) * w[p]]]
  <1>1. ASSUME NEW p \in 2 .. n PROVE 2 ^ (l[p] - l[p - 1]) \in Nat
    <2> DEFINE q == l[p] - l[p - 1]
    <2>1. p \in 1 .. n /\ p - 1 \in 1 .. n
      OBVIOUS
    <2>2. l[p] \in 1 .. 16 /\ l[p - 1] \in 1 .. 16 /\ l[p - 1] <= l[p]
      BY <2>1
    <2>3. q \in 0 .. 16
      BY <2>2
    <2> HIDE DEF q
    <2>4. 2 ^ q \in Nat
      BY <2>3, PowerIsPositive
    <2> QED
      BY <2>4 DEF q
  <1>2. \A p \in 2 .. n : w[p] \in Nat /\ w[p] = 2 ^ (l[p] - l[p - 1])
    BY <1>1
  <1> HIDE DEF w
  <1>3. G \in [2 .. n -> [Nat -> Nat]]
    <2>1. ASSUME NEW p \in 2 .. n, NEW c \in Nat PROVE (c + 1) * w[p] \in Nat
      BY <1>2
    <2> QED
      BY <2>1
  <1>4. \A p \in 2 .. n, c \in Nat : G[p][c] = (c + 1) * w[p]
    OBVIOUS
  <1> HIDE DEF G
  <1>5. PICK g \in Seq(Nat) :
                /\ Len(g) = n /\ g[1] = 0
                /\ \A p \in 2 .. n : g[p] = G[p][g[p - 1]]
    <2> DEFINE T == Nat
    <2>1. 0 \in T /\ G \in [2 .. n -> [T -> T]]
      BY <1>3
    <2> HIDE DEF T
    <2>2. \E g \in Seq(T) :
             /\ Len(g) = n /\ g[1] = 0
             /\ \A p \in 2 .. n : g[p] = G[p][g[p - 1]]
      BY <2>1, RecursionExists
    <2> QED
      BY <2>2 DEF T
  <1>6. g = Step(g)
    <2>1. g = [p \in 1 .. n |-> g[p]]
      BY <1>5
    <2>2. ASSUME NEW p \in 1 .. n
          PROVE  g[p] = IF p = 1 THEN 0
                        ELSE (g[p - 1] + 1) * 2 ^ (l[p] - l[p - 1])
      <3>1. CASE p = 1
        BY <1>5, <3>1
      <3>2. CASE p # 1
        <4>1. p \in 2 .. n /\ p - 1 \in 1 .. n
          BY <3>2
        <4>2. g[p - 1] \in Nat
          BY <1>5, <4>1
        <4>3. g[p] = G[p][g[p - 1]]
          BY <1>5, <4>1
        <4>4. G[p][g[p - 1]] = (g[p - 1] + 1) * w[p]
          BY <1>4, <4>1, <4>2
        <4>5. w[p] = 2 ^ (l[p] - l[p - 1])
          BY <1>2, <4>1
        <4> QED
          BY <3>2, <4>3, <4>4, <4>5, Zenon
      <3> QED
        BY <3>1, <3>2
    <2> QED
      BY <2>1, <2>2
  <1>7. code = Step(code)
    <2> HIDE DEF Step
    <2> QED
      BY <1>6
  <1> HIDE DEF code
  <1> DEFINE Good == {p \in 1 .. n : code[p] \in Nat}
  <1>8. 1 \in Good
    BY <1>7
  <1>9. ASSUME NEW p \in 1 .. n - 1, p \in Good PROVE p + 1 \in Good
    <2> DEFINE m == p + 1
    <2>1. m \in 2 .. n /\ m \in 1 .. n /\ m # 1 /\ m - 1 = p
      OBVIOUS
    <2>2. code[m - 1] \in Nat
      BY <1>9, <2>1
    <2> HIDE DEF m
    <2>3. code[m] = (code[m - 1] + 1) * 2 ^ (l[m] - l[m - 1])
      BY <1>7, <2>1
    <2>4. code[m] = (code[m - 1] + 1) * w[m] /\ w[m] \in Nat
      BY <1>2, <2>1, <2>3
    <2>5. code[m] \in Nat
      BY <2>2, <2>4
    <2>6. m \in Good
      BY <2>1, <2>5
    <2> QED
      BY <2>6 DEF m
  <1> HIDE DEF Good
  <1>10. \A p \in 1 .. n : p \in Good
    BY <1>8, <1>9, Induction
  <1>11. \A p \in 1 .. n : code[p] \in Nat
    BY <1>10 DEF Good
  <1> QED
    BY <1>11 DEF code

\* Every entry of a table is a bit string: a code, or the empty one.
LEMMA HuffmanTableType ==
    ASSUME NEW nr \in [1 .. 16 -> Nat], NEW values, NEW size \in Nat,
           Len(values) \in Nat \ {0}, DOMAIN values = 1 .. Len(values),
           Len(values) = CodesIn(nr)
    PROVE  ComputeHuffmanTable(nr, values, size) \in [0 .. size - 1 -> BitStrings]
  <1> DEFINE l == CodeLengths(nr)
             code[p \in 1 .. Len(values)] ==
                 IF p = 1 THEN 0
                 ELSE (code[p - 1] + 1) * 2 ^ (l[p] - l[p - 1])
             pos(v) == CHOOSE p \in DOMAIN values : values[p] = v
             entry(v) == IF \E p \in DOMAIN values : values[p] = v
                         THEN [length |-> l[pos(v)], value |-> code[pos(v)]]
                         ELSE [length |-> 0, value |-> 0]
  <1>1. ComputeHuffmanTable(nr, values, size)
          = [v \in 0 .. size - 1 |-> entry(v)]
    BY DEF ComputeHuffmanTable
  <1>2. Ascending(l, 16) /\ Len(l) = Len(values)
    BY CodeLengthsAscend
  <1> HIDE DEF l
  <1>3. /\ \A p \in 1 .. Len(values) : l[p] \in 1 .. 16
        /\ \A p \in 2 .. Len(values) : l[p - 1] <= l[p]
    <2>1. l \in Seq(1 .. 16) /\ \A p \in 2 .. Len(l) : l[p - 1] <= l[p]
      BY <1>2 DEF Ascending
    <2>2. \A p \in 1 .. Len(l) : l[p] \in 1 .. 16
      BY <2>1, ElementOfSeq
    <2> QED
      BY <1>2, <2>1, <2>2, Zenon
  <1>4. \A p \in 1 .. Len(values) : code[p] \in Nat
    BY <1>3, CodesAreNumbers
  <1> HIDE DEF code
  <1>5. ASSUME NEW v PROVE entry(v) \in BitStrings
    <2>1. CASE \E p \in DOMAIN values : values[p] = v
      <3>1. pos(v) \in 1 .. Len(values)
        BY <2>1
      <3> HIDE DEF pos
      <3>2. l[pos(v)] \in 1 .. 16 /\ code[pos(v)] \in Nat
        BY <1>3, <1>4, <3>1
      <3>3. [length |-> l[pos(v)], value |-> code[pos(v)]] \in BitStrings
        <4> DEFINE a == l[pos(v)]
                   b == code[pos(v)]
        <4>1. a \in 1 .. 16 /\ b \in Nat
          BY <3>2, Zenon
        <4> HIDE DEF a, b
        <4>2. [length |-> a, value |-> b] \in BitStrings
          BY <4>1 DEF BitStrings
        <4> QED
          BY <4>2 DEF a, b
      <3> QED
        BY <2>1, <3>3
    <2>2. CASE ~ \E p \in DOMAIN values : values[p] = v
      <3>1. [length |-> 0, value |-> 0] \in BitStrings
        BY DEF BitStrings
      <3> QED
        BY <2>2, <3>1
    <2> QED
      BY <2>1, <2>2
  <1> HIDE DEF entry
  <1> QED
    BY <1>1, <1>5

\* The tables of the code: each value table has as many entries as its counts
\* say.

\* 12 codes and their 12 values.
LEMMA DCLumTable ==
    /\ Standard_DC_Lum_NRCodes \in [1 .. 16 -> Nat]
    /\ Standard_DC_Lum_Values \in Seq(0 .. 255)
    /\ Len(Standard_DC_Lum_Values) = 12
    /\ CodesIn(Standard_DC_Lum_NRCodes) = 12
  <1>1. Standard_DC_Lum_NRCodes \in [1 .. 16 -> Nat]
    BY DEF Standard_DC_Lum_NRCodes
  <1>2. Standard_DC_Lum_Values \in Seq(0 .. 255)
    BY DEF Standard_DC_Lum_Values
  <1>3. Len(Standard_DC_Lum_Values) = 12
    BY DEF Standard_DC_Lum_Values
  <1>4. CodesIn(Standard_DC_Lum_NRCodes) = 12
    BY DEF Standard_DC_Lum_NRCodes, CodesIn
  <1> QED
    BY <1>1, <1>2, <1>3, <1>4

\* 12 codes and their 12 values.
LEMMA DCChromaTable ==
    /\ Standard_DC_Chroma_NRCodes \in [1 .. 16 -> Nat]
    /\ Standard_DC_Chroma_Values \in Seq(0 .. 255)
    /\ Len(Standard_DC_Chroma_Values) = 12
    /\ CodesIn(Standard_DC_Chroma_NRCodes) = 12
  <1>1. Standard_DC_Chroma_NRCodes \in [1 .. 16 -> Nat]
    BY DEF Standard_DC_Chroma_NRCodes
  <1>2. Standard_DC_Chroma_Values \in Seq(0 .. 255)
    BY DEF Standard_DC_Chroma_Values
  <1>3. Len(Standard_DC_Chroma_Values) = 12
    BY DEF Standard_DC_Chroma_Values
  <1>4. CodesIn(Standard_DC_Chroma_NRCodes) = 12
    BY DEF Standard_DC_Chroma_NRCodes, CodesIn
  <1> QED
    BY <1>1, <1>2, <1>3, <1>4

\* 162 codes and their 162 values.
LEMMA ACLumTable ==
    /\ Standard_AC_Lum_NRCodes \in [1 .. 16 -> Nat]
    /\ Standard_AC_Lum_Values \in Seq(0 .. 255)
    /\ Len(Standard_AC_Lum_Values) = 162
    /\ CodesIn(Standard_AC_Lum_NRCodes) = 162
  <1>1. Standard_AC_Lum_NRCodes \in [1 .. 16 -> Nat]
    BY DEF Standard_AC_Lum_NRCodes
  <1>2. Standard_AC_Lum_Values \in Seq(0 .. 255)
    BY DEF Standard_AC_Lum_Values
  <1>3. Len(Standard_AC_Lum_Values) = 162
    BY DEF Standard_AC_Lum_Values
  <1>4. CodesIn(Standard_AC_Lum_NRCodes) = 162
    BY DEF Standard_AC_Lum_NRCodes, CodesIn
  <1> QED
    BY <1>1, <1>2, <1>3, <1>4

\* 162 codes and their 162 values.
LEMMA ACChromaTable ==
    /\ Standard_AC_Chroma_NRCodes \in [1 .. 16 -> Nat]
    /\ Standard_AC_Chroma_Values \in Seq(0 .. 255)
    /\ Len(Standard_AC_Chroma_Values) = 162
    /\ CodesIn(Standard_AC_Chroma_NRCodes) = 162
  <1>1. Standard_AC_Chroma_NRCodes \in [1 .. 16 -> Nat]
    BY DEF Standard_AC_Chroma_NRCodes
  <1>2. Standard_AC_Chroma_Values \in Seq(0 .. 255)
    BY DEF Standard_AC_Chroma_Values
  <1>3. Len(Standard_AC_Chroma_Values) = 162
    BY DEF Standard_AC_Chroma_Values
  <1>4. CodesIn(Standard_AC_Chroma_NRCodes) = 162
    BY DEF Standard_AC_Chroma_NRCodes, CodesIn
  <1> QED
    BY <1>1, <1>2, <1>3, <1>4

\* Each component's tables give a code of at most 16 bits for every symbol.
LEMMA HuffmanTables ==
    ASSUME NEW c \in {"Y", "Cb", "Cr"}
    PROVE  /\ HTDC(c) \in [0 .. 11 -> BitStrings]
           /\ HTAC(c) \in [0 .. 255 -> BitStrings]
  <1>1. \A S, s : s \in Seq(S) => DOMAIN s = 1 .. Len(s)
    OBVIOUS
  <1>2. Y_DC_Huffman_Tab \in [0 .. 11 -> BitStrings]
    <2>1. /\ Standard_DC_Lum_NRCodes \in [1 .. 16 -> Nat]
          /\ Len(Standard_DC_Lum_Values) \in Nat \ {0}
          /\ DOMAIN Standard_DC_Lum_Values = 1 .. Len(Standard_DC_Lum_Values)
          /\ Len(Standard_DC_Lum_Values) = CodesIn(Standard_DC_Lum_NRCodes)
      BY <1>1, DCLumTable
    <2>2. 12 \in Nat /\ 12 - 1 = 11
      OBVIOUS
    <2>3. ComputeHuffmanTable(Standard_DC_Lum_NRCodes, Standard_DC_Lum_Values, 12)
            \in [0 .. 12 - 1 -> BitStrings]
      BY <2>1, <2>2, HuffmanTableType
    <2> QED
      BY <2>2, <2>3, Zenon DEF Y_DC_Huffman_Tab
  <1>3. Y_AC_Huffman_Tab \in [0 .. 255 -> BitStrings]
    <2>1. /\ Standard_AC_Lum_NRCodes \in [1 .. 16 -> Nat]
          /\ Len(Standard_AC_Lum_Values) \in Nat \ {0}
          /\ DOMAIN Standard_AC_Lum_Values = 1 .. Len(Standard_AC_Lum_Values)
          /\ Len(Standard_AC_Lum_Values) = CodesIn(Standard_AC_Lum_NRCodes)
      BY <1>1, ACLumTable
    <2>2. 256 \in Nat /\ 256 - 1 = 255
      OBVIOUS
    <2> DEFINE size == 256
    <2>4. size \in Nat
      BY <2>2
    <2> HIDE DEF size
    <2>5. ComputeHuffmanTable(Standard_AC_Lum_NRCodes, Standard_AC_Lum_Values, size)
            \in [0 .. size - 1 -> BitStrings]
      BY <2>1, <2>4, HuffmanTableType
    <2>3. ComputeHuffmanTable(Standard_AC_Lum_NRCodes, Standard_AC_Lum_Values, 256)
            \in [0 .. 256 - 1 -> BitStrings]
      BY <2>5, Zenon DEF size
    <2> QED
      BY <2>2, <2>3, Zenon DEF Y_AC_Huffman_Tab
  <1>4. CbCr_DC_Huffman_Tab \in [0 .. 11 -> BitStrings]
    <2>1. /\ Standard_DC_Chroma_NRCodes \in [1 .. 16 -> Nat]
          /\ Len(Standard_DC_Chroma_Values) \in Nat \ {0}
          /\ DOMAIN Standard_DC_Chroma_Values = 1 .. Len(Standard_DC_Chroma_Values)
          /\ Len(Standard_DC_Chroma_Values) = CodesIn(Standard_DC_Chroma_NRCodes)
      BY <1>1, DCChromaTable
    <2>2. 12 \in Nat /\ 12 - 1 = 11
      OBVIOUS
    <2>3. ComputeHuffmanTable(Standard_DC_Chroma_NRCodes, Standard_DC_Chroma_Values, 12)
            \in [0 .. 12 - 1 -> BitStrings]
      BY <2>1, <2>2, HuffmanTableType
    <2> QED
      BY <2>2, <2>3, Zenon DEF CbCr_DC_Huffman_Tab
  <1>5. CbCr_AC_Huffman_Tab \in [0 .. 255 -> BitStrings]
    <2>1. /\ Standard_AC_Chroma_NRCodes \in [1 .. 16 -> Nat]
          /\ Len(Standard_AC_Chroma_Values) \in Nat \ {0}
          /\ DOMAIN Standard_AC_Chroma_Values = 1 .. Len(Standard_AC_Chroma_Values)
          /\ Len(Standard_AC_Chroma_Values) = CodesIn(Standard_AC_Chroma_NRCodes)
      BY <1>1, ACChromaTable
    <2>2. 256 \in Nat /\ 256 - 1 = 255
      OBVIOUS
    <2> DEFINE size == 256
    <2>4. size \in Nat
      BY <2>2
    <2> HIDE DEF size
    <2>5. ComputeHuffmanTable(Standard_AC_Chroma_NRCodes, Standard_AC_Chroma_Values, size)
            \in [0 .. size - 1 -> BitStrings]
      BY <2>1, <2>4, HuffmanTableType
    <2>3. ComputeHuffmanTable(Standard_AC_Chroma_NRCodes, Standard_AC_Chroma_Values, 256)
            \in [0 .. 256 - 1 -> BitStrings]
      BY <2>5, Zenon DEF size
    <2> QED
      BY <2>2, <2>3, Zenon DEF CbCr_AC_Huffman_Tab
  <1> QED
    BY <1>2, <1>3, <1>4, <1>5 DEF HTDC, HTAC

-----------------------------------------------------------------------------
(* The header *)

\* The scan leaves out no coefficient.
LEMMA ZigZagReachesAll ==
    ASSUME NEW k \in 0 .. 63
    PROVE  \E i \in 1 .. 64 : ZigZag[i] = k
  BY DEF ZigZag

\* The base tables hold 64 numbers each.
LEMMA QuantizationTables ==
    /\ Lum_Quantization_Tab \in [1 .. 64 -> Int]
    /\ Chroma_Quantization_Tab \in [1 .. 64 -> Int]
  BY DEF Lum_Quantization_Tab, Chroma_Quantization_Tab

\* No quantizer is 0, and each is one byte in the header.
LEMMA QualityTableType ==
    ASSUME NEW base \in [1 .. 64 -> Int], NEW Qp \in Int
    PROVE  QualityTable(base, Qp) \in [0 .. 63 -> 1 .. 255]
  <1> DEFINE qp == IF Qp >= 100 THEN 99 ELSE IF Qp <= 0 THEN 1 ELSE Qp
             place(k) == CHOOSE i \in 1 .. 64 : ZigZag[i] = k
  <1>1. qp \in Int
    OBVIOUS
  <1> HIDE DEF qp
  <1>2. ASSUME NEW k \in 0 .. 63 PROVE Quantizer(base[place(k)], qp) \in 1 .. 255
    <2>1. place(k) \in 1 .. 64
      BY ZigZagReachesAll
    <2> DEFINE b == base[place(k)]
    <2>2. b \in Int
      BY <2>1
    <2> HIDE DEF b
    <2>3. (b * qp + 50) \div 100 \in Int
      BY <1>1, <2>2
    <2> DEFINE v == (b * qp + 50) \div 100
    <2>4. Quantizer(b, qp) = Clamp(v, 1, 255) /\ v \in Int
      BY <2>3 DEF Quantizer
    <2> HIDE DEF v
    <2>5. Clamp(v, 1, 255) \in 1 .. 255
      BY <2>4 DEF Clamp
    <2> QED
      BY <2>4, <2>5 DEF b
  <1> DEFINE q(k) == Quantizer(base[place(k)], qp)
  <1>3. QualityTable(base, Qp) = [k \in 0 .. 63 |-> q(k)]
    BY DEF QualityTable, qp
  <1>4. \A k \in 0 .. 63 : q(k) \in 1 .. 255
    BY <1>2
  <1> HIDE DEF q
  <1> DEFINE I == 0 .. 63
             T == 1 .. 255
  <1>5. QualityTable(base, Qp) = [k \in I |-> q(k)] /\ \A k \in I : q(k) \in T
    BY <1>3, <1>4
  <1> HIDE DEF I, T
  <1>6. QualityTable(base, Qp) \in [I -> T]
    BY <1>5
  <1> QED
    BY <1>6 DEF I, T

Bytes == Seq(0 .. 255)

\* Bytes behind bytes are bytes.
LEMMA BytesClosed ==
    ASSUME NEW s \in Bytes, NEW t \in Bytes
    PROVE  s \o t \in Bytes
  BY DEF Bytes

\* A word is two bytes, whatever its value.
LEMMA WordIsBytes ==
    ASSUME NEW v \in Nat
    PROVE  Word(v) \in Bytes
  BY DEF Word, Bytes

QuantizerTables == [0 .. 63 -> 1 .. 255]

\* A function on 1 .. n is a sequence.
LEMMA FunctionIsSequence ==
    ASSUME NEW T, NEW n \in Nat, NEW s \in [1 .. n -> T]
    PROVE  s \in Seq(T)
  OBVIOUS

\* A quantizer table goes into the header as bytes,
LEMMA TableIsBytes ==
    ASSUME NEW tab \in QuantizerTables
    PROVE  [i \in 1 .. 64 |-> tab[i - 1]] \in Bytes
  <1> DEFINE n == 64
             T == 0 .. 255
             s == [i \in 1 .. 64 |-> tab[i - 1]]
  <1>1. ASSUME NEW i \in 1 .. 64 PROVE tab[i - 1] \in 0 .. 255
    <2>1. i - 1 \in 0 .. 63
      OBVIOUS
    <2> DEFINE I == 0 .. 63
               D == 1 .. 255
               j == i - 1
    <2>2. tab \in [I -> D] /\ j \in I
      BY <2>1 DEF QuantizerTables
    <2> HIDE DEF I, D, j
    <2>3. tab[j] \in D
      BY <2>2
    <2> QED
      BY <2>3 DEF j, D
  <1>2. n \in Nat /\ s \in [1 .. n -> T]
    BY <1>1
  <1> HIDE DEF n, s, T
  <1>3. s \in Seq(T)
    BY <1>2, FunctionIsSequence
  <1> QED
    BY <1>3 DEF s, T, Bytes

\* so does a Huffman table,
LEMMA HuffmanSpecIsBytes ==
    ASSUME NEW id \in 0 .. 255, NEW nr \in Bytes, NEW values \in Bytes
    PROVE  HuffmanSpec(id, nr, values) \in Bytes
  <1> DEFINE first == <<id>>
  <1>1. first \in Bytes
    BY DEF Bytes
  <1>2. HuffmanSpec(id, nr, values) = first \o nr \o values
    BY DEF HuffmanSpec
  <1> HIDE DEF first
  <1> QED
    BY <1>1, <1>2, BytesClosed

\* so does each of the segments,
LEMMA SegmentsAreBytes ==
    ASSUME NEW width \in Nat, NEW height \in Nat,
           NEW YTab \in QuantizerTables, NEW CbCrTab \in QuantizerTables
    PROVE  /\ APP0 \in Bytes /\ DQT(YTab, CbCrTab) \in Bytes
           /\ SOF0(width, height) \in Bytes /\ DHT \in Bytes /\ SOS \in Bytes
  <1>1. APP0 \in Bytes /\ SOS \in Bytes
    BY DEF APP0, SOS, Word, Bytes
  <1>2. DQT(YTab, CbCrTab) \in Bytes
    <2> DEFINE bytes(tab) == [i \in 1 .. 64 |-> tab[i - 1]]
               marker == Word(65499) \o Word(132) \o <<0>>
               second == <<1>>
               y64 == bytes(YTab)
               c64 == bytes(CbCrTab)
    <2>1. y64 \in Bytes /\ c64 \in Bytes
      BY TableIsBytes
    <2>2. marker \in Bytes /\ second \in Bytes
      BY DEF Word, Bytes
    <2>3. DQT(YTab, CbCrTab) = marker \o y64 \o second \o c64
      BY DEF DQT
    <2> HIDE DEF y64, c64, marker, second
    <2> QED
      BY <2>1, <2>2, <2>3, BytesClosed
  <1>3. SOF0(width, height) \in Bytes
    <2> DEFINE marker == Word(65472) \o Word(17) \o <<8>>
               components == <<3, 1, 17, 0, 2, 17, 1, 3, 17, 1>>
    <2>1. Word(height) \in Bytes /\ Word(width) \in Bytes
      BY WordIsBytes
    <2>2. marker \in Bytes /\ components \in Bytes
      BY DEF Word, Bytes
    <2>3. SOF0(width, height)
            = marker \o Word(height) \o Word(width) \o components
      BY DEF SOF0
    <2> HIDE DEF marker, components
    <2> QED
      BY <2>1, <2>2, <2>3, BytesClosed
  <1>4. DHT \in Bytes
    <2> DEFINE marker == Word(65476) \o Word(DHTLength)
               dcLum == HuffmanSpec(0, Standard_DC_Lum_NRCodes,
                                    Standard_DC_Lum_Values)
               acLum == HuffmanSpec(16, Standard_AC_Lum_NRCodes,
                                    Standard_AC_Lum_Values)
               dcChroma == HuffmanSpec(1, Standard_DC_Chroma_NRCodes,
                                       Standard_DC_Chroma_Values)
               acChroma == HuffmanSpec(17, Standard_AC_Chroma_NRCodes,
                                       Standard_AC_Chroma_Values)
    <2>1. marker \in Bytes
      BY DEF Word, Bytes, DHTLength
    <2>2. /\ Standard_DC_Lum_NRCodes \in Bytes
          /\ Standard_DC_Chroma_NRCodes \in Bytes
          /\ Standard_AC_Lum_NRCodes \in Bytes
          /\ Standard_AC_Chroma_NRCodes \in Bytes
      BY DEF Bytes, Standard_DC_Lum_NRCodes, Standard_DC_Chroma_NRCodes,
             Standard_AC_Lum_NRCodes, Standard_AC_Chroma_NRCodes
    <2>3. /\ Standard_DC_Lum_Values \in Bytes
          /\ Standard_DC_Chroma_Values \in Bytes
          /\ Standard_AC_Lum_Values \in Bytes
          /\ Standard_AC_Chroma_Values \in Bytes
      BY DCLumTable, DCChromaTable, ACLumTable, ACChromaTable DEF Bytes
    <2>4. 0 \in 0 .. 255 /\ 1 \in 0 .. 255 /\ 16 \in 0 .. 255 /\ 17 \in 0 .. 255
      OBVIOUS
    <2>5. dcLum \in Bytes /\ acLum \in Bytes
      BY <2>2, <2>3, <2>4, HuffmanSpecIsBytes
    <2>6. dcChroma \in Bytes /\ acChroma \in Bytes
      BY <2>2, <2>3, <2>4, HuffmanSpecIsBytes
    <2>7. DHT = marker \o dcLum \o acLum \o dcChroma \o acChroma
      BY DEF DHT
    <2> HIDE DEF marker, dcLum, acLum, dcChroma, acChroma
    <2> QED
      BY <2>1, <2>5, <2>6, <2>7, BytesClosed
  <1> QED
    BY <1>1, <1>2, <1>3, <1>4

\* and so the header holds bytes only.
LEMMA HeaderIsBytes ==
    ASSUME NEW width \in Nat, NEW height \in Nat,
           NEW YTab \in QuantizerTables, NEW CbCrTab \in QuantizerTables
    PROVE  WriteJpegHeader(width, height, YTab, CbCrTab) \in Bytes
  <1>1. Word(65496) \in Bytes
    BY DEF Word, Bytes
  <1>2. /\ APP0 \in Bytes /\ DQT(YTab, CbCrTab) \in Bytes
        /\ SOF0(width, height) \in Bytes /\ DHT \in Bytes /\ SOS \in Bytes
    BY SegmentsAreBytes
  <1> QED
    BY <1>1, <1>2, BytesClosed DEF WriteJpegHeader

-----------------------------------------------------------------------------
(* Coding a block *)

\* The two powers that bound AC coefficients and DC differences.
LEMMA PowersOfTwo == 2 ^ 10 = 1024 /\ 2 ^ 11 = 2048
  OBVIOUS

\* A DC difference takes 11 bits at most,
LEMMA DCBits ==
    ASSUME NEW v \in Int, Fits(v, 11)
    PROVE  GetBitCode(v) \in BitStrings /\ GetBitCode(v).length \in 0 .. 11
  <1>1. 11 \in 0 .. 16
    OBVIOUS
  <1>2. GetBitCode(v) \in [length : 0 .. 11, value : Int]
    BY <1>1, BitCode
  <1> QED
    BY <1>2 DEF BitStrings

\* an AC coefficient 10.
LEMMA ACBits ==
    ASSUME NEW v \in Int, Fits(v, 10)
    PROVE  GetBitCode(v) \in BitStrings /\ GetBitCode(v).length \in 0 .. 10
  <1>1. 10 \in 0 .. 16
    OBVIOUS
  <1>2. GetBitCode(v) \in [length : 0 .. 10, value : Int]
    BY <1>1, BitCode
  <1> QED
    BY <1>2 DEF BitStrings

\* A DC difference takes one bit string, or two.
LEMMA CodeDCType ==
    ASSUME NEW diff \in Int, Fits(diff, 11), NEW dc \in [0 .. 11 -> BitStrings]
    PROVE  CodeDC(diff, dc) \in Seq(BitStrings) /\ Len(CodeDC(diff, dc)) \in 1 .. 2
  <1> DEFINE bs == GetBitCode(diff)
  <1>1. bs \in BitStrings /\ bs.length \in 0 .. 11
    BY DCBits
  <1>2. CodeDC(diff, dc) = IF diff = 0 THEN <<dc[0]>> ELSE <<dc[bs.length], bs>>
    BY DEF CodeDC
  <1> HIDE DEF bs
  <1>3. dc[bs.length] \in BitStrings /\ dc[0] \in BitStrings
    BY <1>1
  <1> HIDE DEF BitStrings
  <1> QED
    BY <1>1, <1>2, <1>3

\* A coefficient takes two, and one more for every 16 zeros before it.
LEMMA CodeRunType ==
    ASSUME NEW zeros \in 0 .. 62, NEW v \in Int, Fits(v, 10),
           NEW ac \in [0 .. 255 -> BitStrings]
    PROVE  /\ CodeRun(zeros, v, ac) \in Seq(BitStrings)
           /\ Len(CodeRun(zeros, v, ac)) = zeros \div 16 + 2
  <1> DEFINE bs == GetBitCode(v)
             code == ac[16 * (zeros % 16) + bs.length]
             long == [i \in 1 .. zeros \div 16 |-> ac[240]]
  <1>1. bs \in BitStrings /\ bs.length \in 0 .. 10
    BY ACBits
  <1>2. CodeRun(zeros, v, ac) = long \o <<code, bs>>
    BY DEF CodeRun
  <1> HIDE DEF bs
  <1>3. 16 * (zeros % 16) + bs.length \in 0 .. 255 /\ zeros \div 16 \in Nat
    BY <1>1
  <1>4. code \in BitStrings /\ ac[240] \in BitStrings
    BY <1>3
  <1> HIDE DEF BitStrings, code
  <1>5. long \in Seq(BitStrings)
    BY <1>3, <1>4
  <1>6. Len(long) = zeros \div 16
    BY <1>3
  <1> DEFINE last == <<code, bs>>
  <1>7. last \in Seq(BitStrings)
    BY <1>1, <1>4
  <1>8. Len(last) = 2
    OBVIOUS
  <1>9. CodeRun(zeros, v, ac) = long \o last
    BY <1>2
  <1> HIDE DEF long, last
  <1>10. /\ long \o last \in Seq(BitStrings)
         /\ Len(long \o last) = Len(long) + Len(last)
    BY <1>5, <1>7, ConcatProperties
  <1> QED
    BY <1>6, <1>8, <1>9, <1>10

\* The AC coefficients of a block fit into 10 bits.
LEMMA BlockFits ==
    ASSUME NEW DU, IsBlock(DU), NEW k \in 1 .. 63
    PROVE  DU[k] \in Int /\ Fits(DU[k], 10)
  <1> DEFINE v == DU[k]
  <1>1. v \in Int /\ v < 1024 /\ -v < 1024
    <2>1. k \in 0 .. 63 /\ DU \in [0 .. 63 -> Int]
      BY DEF IsBlock
    <2>2. v \in Int /\ -1024 < v /\ v < 1024
      BY <2>1 DEF IsBlock
    <2> HIDE DEF v
    <2> QED
      BY <2>2
  <1> HIDE DEF v
  <1>2. v < 2 ^ 10 /\ -v < 2 ^ 10
    BY <1>1, PowersOfTwo
  <1> QED
    BY <1>1, <1>2 DEF v, Fits

\* What a DC coefficient may be, and that of the block before.
IsDC(v) == v \in Int /\ -1024 <= v /\ v < 1024

\* The difference of two DC coefficients fits into 11 bits.
LEMMA DifferenceFits ==
    ASSUME NEW v, IsDC(v), NEW w, IsDC(w)
    PROVE  v - w \in Int /\ Fits(v - w, 11)
  <1> DEFINE d == v - w
  <1>1. d \in Int /\ d < 2048 /\ -d < 2048
    BY DEF IsDC
  <1> HIDE DEF d
  <1>2. d < 2 ^ 11 /\ -d < 2 ^ 11
    BY <1>1, PowersOfTwo
  <1> QED
    BY <1>1, <1>2 DEF d, Fits

\* A coefficient takes no more than two bit strings for every position that
\* it moves the end of the block.
LEMMA CodeACType ==
    ASSUME NEW DU, IsBlock(DU), NEW k \in 1 .. 63,
           NEW ac \in [0 .. 255 -> BitStrings]
    PROVE  /\ CodeAC(DU, k, ac) \in Seq(BitStrings)
           /\ Len(CodeAC(DU, k, ac)) + 2 * EndPos(DU, k - 1) <= 2 * EndPos(DU, k)
  <1> DEFINE e == EndPos(DU, k - 1)
             zeros == k - 1 - e
             v == DU[k]
  <1>1. e \in 0 .. k - 1
    <2>1. k - 1 \in 0 .. 63
      OBVIOUS
    <2> QED
      BY <2>1, EndPosIsLast
  <1>2. CASE DU[k] = 0
    <2>1. CodeAC(DU, k, ac) = <<>>
      BY <1>2 DEF CodeAC
    <2>2. EndPos(DU, k) = e
      BY <1>2, EndPosStep
    <2>3. <<>> \in Seq(BitStrings) /\ Len(<<>>) = 0
      OBVIOUS
    <2> HIDE DEF e
    <2>4. 0 + 2 * e <= 2 * e
      BY <1>1
    <2>5. Len(CodeAC(DU, k, ac)) + 2 * e <= 2 * EndPos(DU, k)
      BY <2>1, <2>2, <2>3, <2>4
    <2> QED
      BY <2>1, <2>3, <2>5 DEF e
  <1>3. CASE DU[k] # 0
    <2>1. CodeAC(DU, k, ac) = CodeRun(zeros, v, ac)
      BY <1>3 DEF CodeAC
    <2>2. EndPos(DU, k) = k
      BY <1>3, EndPosStep
    <2> HIDE DEF e
    <2>3. zeros \in 0 .. 62
      BY <1>1
    <2>4. v \in Int /\ Fits(v, 10)
      BY BlockFits
    <2> HIDE DEF v, zeros
    <2>5. CodeRun(zeros, v, ac) \in Seq(BitStrings)
      BY <2>3, <2>4, CodeRunType
    <2>6. Len(CodeRun(zeros, v, ac)) = zeros \div 16 + 2
      BY <2>3, <2>4, CodeRunType
    <2>7. (zeros \div 16 + 2) + 2 * e <= 2 * k
      BY <1>1, <2>3 DEF zeros
    <2> QED
      BY <2>1, <2>2, <2>5, <2>6, <2>7 DEF e
  <1> QED
    BY <1>2, <1>3

\* The AC coefficients together.
LEMMA CodeACsType ==
    ASSUME NEW DU, IsBlock(DU), NEW ac \in [0 .. 255 -> BitStrings]
    PROVE  LET codes == FlattenSeq([k \in 1 .. 63 |-> CodeAC(DU, k, ac)])
           IN  codes \in Seq(BitStrings) /\ Len(codes) <= 2 * EndPos(DU, 63)
  <1> DEFINE s == [k \in 1 .. 63 |-> CodeAC(DU, k, ac)]
             S == Seq(BitStrings)
             e(k) == EndPos(DU, k)
  <1>1. Len(s) = 63 /\ \A k \in 1 .. 63 : s[k] = CodeAC(DU, k, ac)
    OBVIOUS
  <1>2. \A k \in 1 .. 63 : s[k] \in S
    BY <1>1, CodeACType
  <1>3. \A k \in 1 .. 63 : Len(s[k]) + 2 * e(k - 1) <= 2 * e(k)
    BY <1>1, CodeACType
  <1>4. ASSUME NEW k \in 0 .. 63 PROVE e(k) \in Nat
    <2>1. EndPos(DU, k) \in 0 .. k
      BY EndPosIsLast
    <2> QED
      BY <2>1
  <1>5. e(0) = 0
    <2>1. 0 \in 0 .. 63
      OBVIOUS
    <2> QED
      BY <2>1, EndPosIsLast
  <1> HIDE DEF s, e
  <1>6. \A t, u \in S : t \o u \in S /\ Len(t \o u) = Len(t) + Len(u)
    BY ConcatProperties
  <1>7. \A t \in S : Len(t) \in Nat
    BY LenProperties
  <1> HIDE DEF S
  <1>8. Len(s) \in Nat \ {0} /\ Collects(S, s)
    <2>1. s[1] \in S
      <3>1. 1 \in 1 .. 63
        OBVIOUS
      <3> QED
        BY <1>2, <3>1
    <2>2. ASSUME NEW i \in 1 .. Len(s), NEW t \in S PROVE t \o s[i] \in S
      <3>1. s[i] \in S
        BY <1>1, <1>2
      <3> QED
        BY <1>6, <3>1
    <2>3. Len(s) \in Nat \ {0}
      BY <1>1
    <2> QED
      BY <2>1, <2>2, <2>3 DEF Collects
  <1>9. PICK f : /\ f \in Seq(S)
                 /\ Len(f) = Len(s) /\ f[1] = s[1]
                 /\ \A i \in 2 .. Len(s) : f[i] = f[i - 1] \o s[i]
                 /\ FlattenSeq(s) = f[Len(s)]
    BY <1>8, FlattenSteps
  <1>10. \A k \in 2 .. 63 : f[k] = f[k - 1] \o s[k]
    <2>1. Len(s) = 63
      BY <1>1
    <2>2. \A i \in 2 .. Len(s) : f[i] = f[i - 1] \o s[i]
      BY <1>9
    <2> QED
      BY <2>1, <2>2
  <1> DEFINE Good == {k \in 1 .. 63 : f[k] \in S /\ Len(f[k]) <= 2 * e(k)}
  <1>11. 1 \in Good
    <2>1. 1 \in 1 .. 63 /\ 1 - 1 = 0
      OBVIOUS
    <2>2. f[1] = s[1]
      BY <1>9
    <2>3. s[1] \in S /\ Len(s[1]) + 2 * e(0) <= 2 * e(1)
      BY <1>2, <1>3, <2>1
    <2>4. Len(s[1]) \in Nat /\ e(1) \in Nat
      <3>1. 1 \in 0 .. 63
        OBVIOUS
      <3> QED
        BY <1>4, <1>7, <2>3, <3>1
    <2> DEFINE a == Len(s[1])
    <2>6. a + 2 * e(0) <= 2 * e(1) /\ a \in Nat
      BY <2>3, <2>4
    <2> HIDE DEF a
    <2>8. a + 2 * 0 <= 2 * e(1)
      BY <1>5, <2>6, Zenon
    <2> DEFINE d == e(1)
    <2>9. d \in Nat /\ a + 2 * 0 <= 2 * d
      BY <2>4, <2>8
    <2> HIDE DEF d
    <2>10. a <= 2 * d
      BY <2>6, <2>9
    <2>7. a <= 2 * e(1)
      BY <2>10 DEF d
    <2>5. Len(s[1]) <= 2 * e(1)
      BY <2>7 DEF a
    <2> QED
      BY <2>1, <2>2, <2>3, <2>5
  <1>12. ASSUME NEW k \in 1 .. 62, k \in Good PROVE k + 1 \in Good
    <2> DEFINE m == k + 1
    <2>1. m \in 2 .. 63 /\ m \in 1 .. 63 /\ m \in 0 .. 63 /\ m - 1 = k /\ k \in 0 .. 63
      OBVIOUS
    <2>2. f[k] \in S /\ Len(f[k]) <= 2 * e(k)
      BY <1>12
    <2> HIDE DEF m
    <2>3. f[m] = f[k] \o s[m]
      BY <1>10, <2>1
    <2>4. s[m] \in S /\ Len(s[m]) + 2 * e(k) <= 2 * e(m)
      BY <1>2, <1>3, <2>1
    <2>5. f[m] \in S /\ Len(f[m]) = Len(f[k]) + Len(s[m])
      <3>1. f[k] \in S
        BY <2>2
      <3>2. s[m] \in S
        BY <2>4
      <3>3. f[k] \o s[m] \in S /\ Len(f[k] \o s[m]) = Len(f[k]) + Len(s[m])
        BY <1>6, <3>1, <3>2
      <3> QED
        BY <2>3, <3>3
    <2>6. Len(f[k]) \in Nat /\ Len(s[m]) \in Nat /\ e(k) \in Nat /\ e(m) \in Nat
      BY <1>4, <1>7, <2>1, <2>2, <2>4
    <2> DEFINE a == Len(f[k])
               b == Len(s[m])
               c == Len(f[m])
    <2>9. /\ a <= 2 * e(k) /\ b + 2 * e(k) <= 2 * e(m) /\ c = a + b
          /\ a \in Nat /\ b \in Nat /\ e(k) \in Nat /\ e(m) \in Nat
      BY <2>2, <2>4, <2>5, <2>6
    <2> HIDE DEF a, b, c
    <2>10. c <= 2 * e(m)
      BY <2>9
    <2>7. Len(f[m]) <= 2 * e(m)
      BY <2>10 DEF c
    <2>8. m \in Good
      BY <2>1, <2>5, <2>7
    <2> QED
      BY <2>8 DEF m
  <1> HIDE DEF Good
  <1>13. \A k \in 1 .. 63 : k \in Good
    BY <1>11, <1>12, Induction
  <1>14. f[63] \in S /\ Len(f[63]) <= 2 * e(63)
    <2>1. 63 \in 1 .. 63
      OBVIOUS
    <2>2. 63 \in Good
      BY <1>13, <2>1
    <2> QED
      BY <2>2 DEF Good
  <1>15. FlattenSeq(s) = f[63]
    <2>1. FlattenSeq(s) = f[Len(s)]
      BY <1>9
    <2> QED
      BY <1>1, <2>1
  <1> QED
    BY <1>14, <1>15 DEF S, s, e

\* A block takes 128 bit strings at most.
LEMMA EncodingType ==
    ASSUME NEW DU, IsBlock(DU), NEW prev, IsDC(prev),
           NEW dc \in [0 .. 11 -> BitStrings], NEW ac \in [0 .. 255 -> BitStrings]
    PROVE  /\ DoHuffmanEncoding(DU, prev, dc, ac) \in Seq(BitStrings)
           /\ Len(DoHuffmanEncoding(DU, prev, dc, ac)) \in 0 .. 128
  <1> DEFINE S == Seq(BitStrings)
             first == CodeDC(DU[0] - prev, dc)
             codes == FlattenSeq([k \in 1 .. 63 |-> CodeAC(DU, k, ac)])
             last == CodeEnd(EndPos(DU, 63), ac)
             e == EndPos(DU, 63)
  <1>1. first \in S /\ Len(first) \in 1 .. 2
    <2> DEFINE diff == DU[0] - prev
    <2>1. IsDC(DU[0])
      BY DEF IsBlock, IsDC
    <2>2. diff \in Int /\ Fits(diff, 11)
      BY <2>1, DifferenceFits
    <2> HIDE DEF diff
    <2>3. CodeDC(diff, dc) \in S /\ Len(CodeDC(diff, dc)) \in 1 .. 2
      BY <2>2, CodeDCType
    <2> QED
      BY <2>3 DEF diff
  <1>2. codes \in S /\ Len(codes) <= 2 * e
    BY CodeACsType
  <1>3. e \in 0 .. 63
    <2>1. 63 \in 0 .. 63
      OBVIOUS
    <2> QED
      BY <2>1, EndPosIsLast
  <1>4. last = IF e # 63 THEN <<ac[0]>> ELSE <<>>
    BY DEF CodeEnd
  <1>5. DoHuffmanEncoding(DU, prev, dc, ac) = first \o codes \o last
    BY DEF DoHuffmanEncoding
  <1> HIDE DEF first, codes, last, e
  <1>6. last \in S /\ Len(last) = IF e # 63 THEN 1 ELSE 0
    <2>1. ac[0] \in BitStrings
      OBVIOUS
    <2> QED
      BY <1>4, <2>1
  <1>7. \A t, u \in S : t \o u \in S /\ Len(t \o u) = Len(t) + Len(u)
    BY ConcatProperties
  <1>8. Len(codes) \in Nat
    BY <1>2, LenProperties
  <1> HIDE DEF S
  <1>9. first \o codes \in S /\ Len(first \o codes) = Len(first) + Len(codes)
    BY <1>1, <1>2, <1>7
  <1>10. /\ first \o codes \o last \in S
         /\ Len(first \o codes \o last) = Len(first \o codes) + Len(last)
    BY <1>6, <1>7, <1>9
  <1>11. Len(first) + Len(codes) + Len(last) \in 0 .. 128
    <2> DEFINE a == Len(first)
               b == Len(codes)
               c == Len(last)
    <2>1. /\ a \in 1 .. 2 /\ b \in Nat /\ b <= 2 * e /\ e \in 0 .. 63
          /\ c = IF e # 63 THEN 1 ELSE 0
      BY <1>1, <1>2, <1>3, <1>6, <1>8
    <2> HIDE DEF a, b, c
    <2>2. a + b + c \in 0 .. 128
      BY <2>1
    <2> QED
      BY <2>2 DEF a, b, c
  <1>12. Len(first \o codes \o last) = Len(first) + Len(codes) + Len(last)
    BY <1>9, <1>10
  <1> QED
    BY <1>5, <1>10, <1>11, <1>12 DEF S

-----------------------------------------------------------------------------
(* The bit stream *)

Bits == Seq({0, 1})

\* A bit string gives bits.
LEMMA BitsOfType ==
    ASSUME NEW bs \in BitStrings
    PROVE  BitsOf(bs) \in Bits
  <1> DEFINE n == bs.length
             v == bs.value
  <1>1. n \in 0 .. 16 /\ v \in Int
    BY DEF BitStrings
  <1>2. BitsOf(bs) = [i \in 1 .. n |-> (v \div 2 ^ (n - i)) % 2]
    BY DEF BitsOf
  <1> HIDE DEF n, v
  <1>3. ASSUME NEW i \in 1 .. n PROVE (v \div 2 ^ (n - i)) % 2 \in {0, 1}
    <2> DEFINE q == n - i
    <2>1. q \in 0 .. 16
      BY <1>1
    <2> HIDE DEF q
    <2> DEFINE p == 2 ^ q
    <2>2. p \in Nat /\ p > 0
      BY <2>1, PowerIsPositive
    <2> HIDE DEF p
    <2>3. v \div p \in Int
      BY <1>1, <2>2
    <2> DEFINE d == v \div p
    <2> HIDE DEF d
    <2>4. d \in Int
      BY <2>3 DEF d
    <2>5. d % 2 \in {0, 1}
      BY <2>4
    <2> QED
      BY <2>5 DEF d, p, q
  <1> DEFINE T == {0, 1}
             s == [i \in 1 .. n |-> (v \div 2 ^ (n - i)) % 2]
  <1>4. n \in Nat /\ s \in [1 .. n -> T]
    BY <1>1, <1>3
  <1> HIDE DEF s, T
  <1>5. s \in Seq(T)
    BY <1>4, FunctionIsSequence
  <1> QED
    BY <1>2, <1>5 DEF s, T, Bits

\* Eight bits give a byte.
LEMMA ByteOfType ==
    ASSUME NEW s \in Bits, Len(s) = 8
    PROVE  ByteOf(s) \in 0 .. 255
  <1>1. ASSUME NEW i \in 1 .. 8 PROVE s[i] \in {0, 1}
    <2> DEFINE T == {0, 1}
    <2>1. s \in Seq(T) /\ i \in 1 .. Len(s)
      BY DEF Bits
    <2> HIDE DEF T
    <2>2. s[i] \in T
      BY <2>1, ElementOfSeq
    <2> QED
      BY <2>2 DEF T
  <1>2. /\ s[1] \in {0, 1} /\ s[2] \in {0, 1} /\ s[3] \in {0, 1}
        /\ s[4] \in {0, 1} /\ s[5] \in {0, 1} /\ s[6] \in {0, 1}
        /\ s[7] \in {0, 1} /\ s[8] \in {0, 1}
    BY <1>1
  <1> DEFINE a == s[1]
             b == s[2]
             c == s[3]
             d == s[4]
             e == s[5]
             f == s[6]
             g == s[7]
             h == s[8]
  <1>3. ByteOf(s) = a * 128 + b * 64 + c * 32 + d * 16 + e * 8 + f * 4 + g * 2 + h
    BY DEF ByteOf
  <1>4. /\ a \in {0, 1} /\ b \in {0, 1} /\ c \in {0, 1} /\ d \in {0, 1}
        /\ e \in {0, 1} /\ f \in {0, 1} /\ g \in {0, 1} /\ h \in {0, 1}
    BY <1>2
  <1> HIDE DEF a, b, c, d, e, f, g, h
  <1>5. a * 128 + b * 64 + c * 32 + d * 16 + e * 8 + f * 4 + g * 2 + h \in 0 .. 255
    BY <1>4
  <1> QED
    BY <1>3, <1>5

\* Coded data: after every 255 there is a 0, inside the same piece.
NoMarker(s) == \A i \in 1 .. Len(s) : s[i] = 255 => i < Len(s) /\ s[i + 1] = 0
CodedData == {s \in Bytes : NoMarker(s)}

\* Coded data behind coded data have no marker at the seam either.
LEMMA CodedDataClosed ==
    ASSUME NEW s \in CodedData, NEW t \in CodedData
    PROVE  s \o t \in CodedData
  <1>1. s \in Seq(0 .. 255) /\ t \in Seq(0 .. 255)
    BY DEF CodedData, Bytes
  <1> DEFINE m == Len(s)
             n == Len(t)
             u == s \o t
  <1>2. m \in Nat /\ n \in Nat
    BY <1>1, LenProperties
  <1>3. Len(u) = m + n /\ u \in Seq(0 .. 255)
    BY <1>1
  <1>4. \A i \in 1 .. m : u[i] = s[i]
    BY <1>1
  <1>5. \A i \in 1 .. n : u[m + i] = t[i]
    BY <1>1
  <1>6. /\ \A i \in 1 .. m : s[i] = 255 => i < m /\ s[i + 1] = 0
        /\ \A i \in 1 .. n : t[i] = 255 => i < n /\ t[i + 1] = 0
    BY DEF CodedData, NoMarker
  <1> HIDE DEF m, n, u
  <1>7. ASSUME NEW i \in 1 .. m + n, u[i] = 255
        PROVE  i < m + n /\ u[i + 1] = 0
    <2>1. CASE i \in 1 .. m
      <3>1. i < m /\ s[i + 1] = 0
        BY <1>4, <1>6, <1>7, <2>1
      <3>2. i + 1 \in 1 .. m
        BY <1>2, <3>1
      <3> QED
        BY <1>2, <1>4, <3>1, <3>2
    <2>2. CASE i \notin 1 .. m
      <3> DEFINE k == i - m
      <3>1. k \in 1 .. n /\ i = m + k
        BY <1>2, <2>2
      <3> HIDE DEF k
      <3>2. u[m + k] = t[k]
        BY <1>5, <3>1
      <3>3. k < n /\ t[k + 1] = 0
        BY <1>6, <1>7, <3>1, <3>2
      <3>4. k + 1 \in 1 .. n /\ i + 1 = m + (k + 1) /\ i < m + n
        BY <1>2, <3>1, <3>3
      <3>5. u[m + (k + 1)] = 0
        BY <1>5, <3>3, <3>4
      <3> QED
        BY <3>4, <3>5
    <2> QED
      BY <2>1, <2>2
  <1>8. NoMarker(u)
    BY <1>3, <1>7 DEF NoMarker
  <1> QED
    BY <1>3, <1>8 DEF u, CodedData, Bytes

\* A byte, with its zero if it needs one, is coded data.
LEMMA StuffedIsCoded ==
    ASSUME NEW b \in 0 .. 255
    PROVE  Stuffed(b) \in CodedData
  <1>1. CASE b = 255
    <2>1. <<255, 0>> \in Bytes /\ NoMarker(<<255, 0>>)
      BY DEF Bytes, NoMarker
    <2> QED
      BY <1>1, <2>1 DEF Stuffed, CodedData
  <1>2. CASE b # 255
    <2>1. <<b>> \in Bytes /\ NoMarker(<<b>>)
      BY <1>2 DEF Bytes, NoMarker
    <2> QED
      BY <1>2, <2>1 DEF Stuffed, CodedData
  <1> QED
    BY <1>1, <1>2

\* No data have no marker.
LEMMA EmptyIsCoded == <<>> \in CodedData
  BY DEF CodedData, Bytes, NoMarker

\* Whole bytes are written, without a marker, and fewer than eight bits stay.
LEMMA WriteType ==
    ASSUME acc \in Bits, NEW bs \in Seq(BitStrings)
    PROVE  /\ WriteBitString(bs).acc \in Bits
           /\ Len(WriteBitString(bs).acc) < 8
           /\ WriteBitString(bs).bytes \in CodedData
  <1> DEFINE new == FlattenSeq([n \in DOMAIN bs |-> BitsOf(bs[n])])
             bits == acc \o new
             piece(n) == SubSeq(bits, 8 * n - 7, 8 * n)
             rest == SubSeq(bits, 8 * Full(bits) + 1, Len(bits))
             out == [n \in 1 .. Full(bits) |-> Stuffed(ByteOf(piece(n)))]
             L == Len(bits)
             F == Full(bits)
  <1>1. new \in Bits
    <2> DEFINE k == Len(bs)
               s == [n \in 1 .. k |-> BitsOf(bs[n])]
               T == {0, 1}
    <2>1. DOMAIN bs = 1 .. k /\ k \in Nat
      BY LenProperties
    <2>2. \A n \in 1 .. k : BitsOf(bs[n]) \in Seq(T)
      <3>1. ASSUME NEW n \in 1 .. k PROVE BitsOf(bs[n]) \in Seq(T)
        <4>1. bs[n] \in BitStrings
          BY ElementOfSeq
        <4> QED
          BY <4>1, BitsOfType DEF Bits
      <3> QED
        BY <3>1
    <2> HIDE DEF k, T
    <2>3. s \in [1 .. k -> Seq(T)]
      BY <2>2
    <2>4. new = FlattenSeq(s)
      BY <2>1
    <2> HIDE DEF s
    <2>5. FlattenSeq(s) \in Seq(T)
      BY <2>1, <2>3, FlattenInSeq
    <2> QED
      BY <2>4, <2>5 DEF T, Bits
  <1>2. WriteBitString(bs) = [acc |-> rest, bytes |-> FlattenSeq(out)]
    BY DEF WriteBitString
  <1> HIDE DEF new
  <1>3. bits \in Bits
    BY <1>1 DEF Bits
  <1> HIDE DEF bits
  <1>4. L \in Nat
    BY <1>3, LenProperties DEF Bits
  <1>5. F = L \div 8
    BY DEF Full
  <1> HIDE DEF L, F
  <1>6. F \in Nat /\ 8 * F <= L /\ L < 8 * F + 8
    BY <1>4, <1>5
  <1>7. rest \in Bits /\ Len(rest) = L - 8 * F
    <2> DEFINE a == 8 * F + 1
    <2>1. a \in 1 .. L + 1 /\ a \in Int /\ rest = SubSeq(bits, a, L)
      BY <1>6 DEF L, F
    <2> HIDE DEF a, rest
    <2>2. rest \in Bits
      BY <1>3, <1>4, <2>1, SubSeqProperties DEF Bits, L
    <2>3. Len(rest) = IF a <= L THEN L - a + 1 ELSE 0
      BY <1>3, <1>4, <2>1, SubSeqProperties DEF Bits, L
    <2> QED
      BY <1>4, <1>6, <2>1, <2>2, <2>3 DEF a
  <1>8. ASSUME NEW n \in 1 .. F PROVE piece(n) \in Bits /\ Len(piece(n)) = 8
    BY <1>3, <1>4, <1>6, <1>8, SubSeqProperties DEF Bits, L
  <1> HIDE DEF rest, piece
  <1>9. \A n \in 1 .. F : out[n] \in CodedData
    <2>1. ASSUME NEW n \in 1 .. F PROVE out[n] \in CodedData
      <3>1. ByteOf(piece(n)) \in 0 .. 255
        BY <1>8, ByteOfType
      <3>2. out[n] = Stuffed(ByteOf(piece(n)))
        BY DEF F
      <3> QED
        BY <3>1, <3>2, StuffedIsCoded
    <2> QED
      BY <2>1
  <1>10. Len(out) = F /\ DOMAIN out = 1 .. F
    BY <1>6 DEF F
  <1> HIDE DEF out
  <1>11. FlattenSeq(out) \in CodedData
    <2>1. Len(out) \in Nat /\ DOMAIN out = 1 .. Len(out)
      BY <1>6, <1>10
    <2>2. ASSUME Len(out) # 0 PROVE Collects(CodedData, out)
      <3>1. out[1] \in CodedData
        BY <1>6, <1>9, <1>10, <2>2
      <3>2. ASSUME NEW i \in 1 .. Len(out), NEW t \in CodedData
            PROVE  t \o out[i] \in CodedData
        <4>1. out[i] \in CodedData
          BY <1>9, <1>10
        <4> QED
          BY <4>1, CodedDataClosed
      <3> QED
        BY <3>1, <3>2 DEF Collects
    <2> QED
      BY <2>1, <2>2, EmptyIsCoded, FlattenKeeps
  <1>12. L - 8 * F < 8
    BY <1>4, <1>6
  <1> QED
    BY <1>2, <1>7, <1>11, <1>12

-----------------------------------------------------------------------------
(* The program *)

Components == {"Y", "Cb", "Cr"}

\* The samples of the macro block at (x, y).
Converted ==
    /\ job.input = "rgb" => mb = ConvertMBColorRGB2YUV(x, y, job.width)
    /\ job.input = "yuyv" => mb = ConvertMBColorYUYV2YUV(x, y, job.width)
    /\ job.input = "yuv444" => mb = ConvertMBColorYUV444ToYUV(x, y, job.width)

IInv ==
    /\ job \in Jobs
    /\ pc \in {"header", "convert", "Y", "Cb", "Cr", "closed", "crashed"}
    /\ x \in 0 .. job.width /\ x % 8 = 0
    /\ y \in 0 .. job.height + 7 /\ y % 8 = 0
    /\ pc \in Components => MoreBlocks
    /\ pc = "Y" => Converted
    /\ prevDC = [c \in Components |-> prevDC[c]]
    /\ \A c \in Components : IsDC(prevDC[c])
    /\ acc \in Bits /\ Len(acc) < 8
    /\ file \in CodedData
    /\ entries \in 0 .. 128
    /\ sent \in Seq(job.blocks)
    /\ header \in Bytes

\* The invariant holds of the initial states,
LEMMA InitIInv == Init => IInv
  <1> SUFFICES ASSUME Init PROVE IInv
    OBVIOUS
  <1>1. job \in Jobs /\ job.width \in Nat /\ job.height \in Nat
    BY JobsAssumption DEF Init
  <1>2. /\ x \in 0 .. job.width /\ x % 8 = 0
        /\ y \in 0 .. job.height + 7 /\ y % 8 = 0
    BY <1>1 DEF Init
  <1>3. /\ prevDC = [c \in Components |-> prevDC[c]]
        /\ \A c \in Components : IsDC(prevDC[c])
    BY DEF Init, Components, IsDC
  <1>4. acc \in Bits /\ Len(acc) < 8 /\ header \in Bytes
    BY DEF Init, Bits, Bytes
  <1>5. file \in CodedData
    BY EmptyIsCoded DEF Init
  <1>6. entries \in 0 .. 128 /\ sent \in Seq(job.blocks)
    BY DEF Init
  <1>7. pc = "header"
    BY DEF Init
  <1> QED
    BY <1>1, <1>2, <1>3, <1>4, <1>5, <1>6, <1>7 DEF IInv, Components

\* What coding a block leaves of the invariant.
LEMMA CodeBlockType ==
    ASSUME IInv, NEW c \in Components, CodeBlock(c), UNCHANGED job
    PROVE  /\ prevDC' = [d \in Components |-> prevDC'[d]]
           /\ \A d \in Components : IsDC(prevDC'[d])
           /\ acc' \in Bits /\ Len(acc') < 8
           /\ file' \in CodedData
           /\ entries' \in 0 .. 128
           /\ sent' \in Seq(job'.blocks)
  <1> DEFINE Code(DU) == DoHuffmanEncoding(DU, prevDC[c], HTDC(c), HTAC(c))
  <1>1. PICK DU \in job.blocks :
               /\ prevDC' = [prevDC EXCEPT ![c] = DU[0]]
               /\ entries' = Len(Code(DU))
               /\ acc' = WriteBitString(Code(DU)).acc
               /\ file' = file \o WriteBitString(Code(DU)).bytes
               /\ sent' = Append(sent, DU)
    BY DEF CodeBlock
  <1> DEFINE bs == Code(DU)
  <1>2. IsBlock(DU)
    <2>1. job \in Jobs
      BY DEF IInv
    <2> QED
      BY <2>1, JobsAssumption
  <1>3. IsDC(prevDC[c])
    BY DEF IInv
  <1>4. HTDC(c) \in [0 .. 11 -> BitStrings] /\ HTAC(c) \in [0 .. 255 -> BitStrings]
    BY HuffmanTables DEF Components
  <1>5. bs \in Seq(BitStrings) /\ Len(bs) \in 0 .. 128
    BY <1>2, <1>3, <1>4, EncodingType
  <1> HIDE DEF Code
  <1>6. acc \in Bits
    BY DEF IInv
  <1>7. /\ WriteBitString(bs).acc \in Bits
        /\ Len(WriteBitString(bs).acc) < 8
        /\ WriteBitString(bs).bytes \in CodedData
    BY <1>5, <1>6, WriteType
  <1>8. /\ prevDC' = [d \in Components |-> prevDC'[d]]
        /\ \A d \in Components : IsDC(prevDC'[d])
    <2>1. IsDC(DU[0])
      BY <1>2 DEF IsBlock, IsDC
    <2>2. /\ prevDC = [d \in Components |-> prevDC[d]]
          /\ \A d \in Components : IsDC(prevDC[d])
      BY DEF IInv
    <2>3. prevDC' = [prevDC EXCEPT ![c] = DU[0]]
      BY <1>1
    <2> QED
      BY <2>1, <2>2, <2>3
  <1>9. file' \in CodedData
    <2>1. file \in CodedData
      BY DEF IInv
    <2> QED
      BY <1>1, <1>7, <2>1, CodedDataClosed
  <1>10. sent' \in Seq(job'.blocks)
    <2>1. sent \in Seq(job.blocks)
      BY DEF IInv
    <2> QED
      BY <1>1, <2>1
  <1>11. acc' \in Bits /\ Len(acc') < 8 /\ entries' \in 0 .. 128
    BY <1>1, <1>5, <1>7
  <1> QED
    BY <1>8, <1>9, <1>10, <1>11

\* is kept by every step,
LEMMA NextIInv == IInv /\ [Next]_vars => IInv'
  <1> SUFFICES ASSUME IInv, [Next]_vars PROVE IInv'
    OBVIOUS
  <1>1. job \in Jobs /\ job.width \in Nat /\ job.height \in Nat /\ job.Qp \in Int
    BY JobsAssumption DEF IInv
  <1>2. CASE WriteHeader
    <2>1. header' \in Bytes
      <3>1. /\ QualityTable(Lum_Quantization_Tab, job.Qp) \in QuantizerTables
            /\ QualityTable(Chroma_Quantization_Tab, job.Qp) \in QuantizerTables
        BY <1>1, QuantizationTables, QualityTableType DEF QuantizerTables
      <3> QED
        BY <1>1, <1>2, <3>1, HeaderIsBytes DEF WriteHeader
    <2>2. /\ pc' = "convert"
          /\ UNCHANGED <<job, x, y, mb, prevDC, acc, file, entries, sent>>
      BY <1>2 DEF WriteHeader
    <2> QED
      BY <2>1, <2>2 DEF IInv, MoreBlocks, Components
  <1>3. CASE OpenFails
    BY <1>3 DEF OpenFails, IInv, MoreBlocks, Components
  <1>4. ASSUME NEW input, NEW samples, Convert(input, samples),
               samples = mb' /\ job.input = input => Converted'
        PROVE  IInv'
    <2>1. /\ job.input = input /\ MoreBlocks /\ mb' = samples /\ pc' = "Y"
          /\ UNCHANGED <<job, x, y, header, prevDC, acc, file, entries, sent>>
      BY <1>4 DEF Convert
    <2>2. Converted' /\ MoreBlocks'
      BY <1>4, <2>1 DEF MoreBlocks
    <2> QED
      BY <2>1, <2>2 DEF IInv, Components
  <1>5. CASE encode_rgb2jpg
    <2>1. job.input = "rgb" /\ UNCHANGED <<job, x, y>>
      BY <1>5 DEF encode_rgb2jpg, Convert
    <2>2. mb' = ConvertMBColorRGB2YUV(x, y, job.width)
      BY <1>5 DEF encode_rgb2jpg, Convert
    <2>3. Converted'
      BY <2>1, <2>2 DEF Converted
    <2> QED
      BY <1>4, <1>5, <2>3 DEF encode_rgb2jpg
  <1>6. CASE encode_yuyvjpg
    <2>1. job.input = "yuyv" /\ UNCHANGED <<job, x, y>>
      BY <1>6 DEF encode_yuyvjpg, Convert
    <2>2. mb' = ConvertMBColorYUYV2YUV(x, y, job.width)
      BY <1>6 DEF encode_yuyvjpg, Convert
    <2>3. Converted'
      BY <2>1, <2>2 DEF Converted
    <2> QED
      BY <1>4, <1>6, <2>3 DEF encode_yuyvjpg
  <1>7. CASE encode_yuv444Tojpg
    <2>1. job.input = "yuv444" /\ UNCHANGED <<job, x, y>>
      BY <1>7 DEF encode_yuv444Tojpg, Convert
    <2>2. mb' = ConvertMBColorYUV444ToYUV(x, y, job.width)
      BY <1>7 DEF encode_yuv444Tojpg, Convert
    <2>3. Converted'
      BY <2>1, <2>2 DEF Converted
    <2> QED
      BY <1>4, <1>7, <2>3 DEF encode_yuv444Tojpg
  <1>8. CASE CodeY
    <2>1. /\ CodeBlock("Y") /\ pc = "Y" /\ pc' = "Cb"
          /\ UNCHANGED <<job, x, y, header, mb>>
      BY <1>8 DEF CodeY
    <2>2. "Y" \in Components
      BY DEF Components
    <2>3. /\ prevDC' = [d \in Components |-> prevDC'[d]]
          /\ \A d \in Components : IsDC(prevDC'[d])
          /\ acc' \in Bits /\ Len(acc') < 8 /\ file' \in CodedData
          /\ entries' \in 0 .. 128 /\ sent' \in Seq(job'.blocks)
      BY <2>1, <2>2, CodeBlockType
    <2>4. MoreBlocks'
      BY <2>1, <2>2 DEF IInv, MoreBlocks
    <2> QED
      BY <2>1, <2>3, <2>4 DEF IInv
  <1>9. CASE CodeCb
    <2>1. /\ CodeBlock("Cb") /\ pc = "Cb" /\ pc' = "Cr"
          /\ UNCHANGED <<job, x, y, header, mb>>
      BY <1>9 DEF CodeCb
    <2>2. "Cb" \in Components
      BY DEF Components
    <2>3. /\ prevDC' = [d \in Components |-> prevDC'[d]]
          /\ \A d \in Components : IsDC(prevDC'[d])
          /\ acc' \in Bits /\ Len(acc') < 8 /\ file' \in CodedData
          /\ entries' \in 0 .. 128 /\ sent' \in Seq(job'.blocks)
      BY <2>1, <2>2, CodeBlockType
    <2>4. MoreBlocks'
      BY <2>1, <2>2 DEF IInv, MoreBlocks
    <2> QED
      BY <2>1, <2>3, <2>4 DEF IInv
  <1>10. CASE CodeCr
    <2>1. /\ CodeBlock("Cr") /\ pc = "Cr" /\ pc' = "convert"
          /\ UNCHANGED <<job, header, mb>>
          /\ IF x + 8 < job.width THEN x' = x + 8 /\ y' = y
                                  ELSE x' = 0 /\ y' = y + 8
      BY <1>10 DEF CodeCr
    <2>2. "Cr" \in Components /\ "convert" \notin Components
      BY DEF Components
    <2>3. /\ prevDC' = [d \in Components |-> prevDC'[d]]
          /\ \A d \in Components : IsDC(prevDC'[d])
          /\ acc' \in Bits /\ Len(acc') < 8 /\ file' \in CodedData
          /\ entries' \in 0 .. 128 /\ sent' \in Seq(job'.blocks)
      BY <2>1, <2>2, CodeBlockType
    <2>4. x \in 0 .. job.width /\ x % 8 = 0 /\ y \in Nat /\ y < job.height
          /\ y \in 0 .. job.height + 7 /\ y % 8 = 0
      BY <1>1, <2>1, <2>2 DEF IInv, MoreBlocks
    <2>5. /\ x' \in 0 .. job.width /\ x' % 8 = 0
          /\ y' \in 0 .. job.height + 7 /\ y' % 8 = 0
      BY <1>1, <2>1, <2>4
    <2> QED
      BY <2>1, <2>2, <2>3, <2>5 DEF IInv
  <1>11. CASE Finish
    BY <1>11 DEF Finish, IInv, MoreBlocks, Components
  <1>12. CASE UNCHANGED vars
    BY <1>12 DEF vars, IInv, MoreBlocks, Converted
  <1> QED
    BY <1>2, <1>3, <1>5, <1>6, <1>7, <1>8, <1>9, <1>10, <1>11, <1>12 DEF Next

\* and so holds always.
LEMMA Invariant == Spec => []IInv
  BY InitIInv, NextIInv, PTL DEF Spec

\* Each element of a sequence of bytes is one.
LEMMA BytesInRange ==
    ASSUME NEW s \in Bytes, NEW i \in DOMAIN s
    PROVE  s[i] \in 0 .. 255
  <1> DEFINE T == 0 .. 255
  <1>1. s \in Seq(T)
    BY DEF Bytes
  <1> HIDE DEF T
  <1>2. i \in 1 .. Len(s)
    BY <1>1
  <1>3. s[i] \in T
    BY <1>1, <1>2, ElementOfSeq
  <1> QED
    BY <1>3 DEF T

\* Type correctness of the encoder: the header and the coded data are bytes,
\* and what is kept of the unfinished byte are fewer than eight bits.
THEOREM TypeCorrect == Spec => []TypeOK
  <1>1. IInv => TypeOK
    <2> SUFFICES ASSUME IInv PROVE TypeOK
      OBVIOUS
    <2>1. \A c \in {"Y", "Cb", "Cr"} :
             prevDC[c] \in Int /\ -32768 <= prevDC[c] /\ prevDC[c] < 32768
      <3>1. ASSUME NEW c \in {"Y", "Cb", "Cr"} PROVE IsDC(prevDC[c])
        BY DEF IInv, Components
      <3>2. ASSUME NEW v, IsDC(v) PROVE v \in Int /\ -32768 <= v /\ v < 32768
        BY <3>2 DEF IsDC
      <3> QED
        BY <3>1, <3>2
    <2>2. Len(acc) < 8 /\ \A i \in DOMAIN acc : acc[i] \in {0, 1}
      BY DEF IInv, Bits
    <2>3. /\ \A i \in DOMAIN file : file[i] \in 0 .. 255
          /\ \A i \in DOMAIN header : header[i] \in 0 .. 255
      <3>1. file \in Bytes /\ header \in Bytes
        BY DEF IInv, CodedData
      <3> QED
        BY <3>1, BytesInRange
    <2>4. entries \in Nat
      <3>1. entries \in 0 .. 128
        BY DEF IInv
      <3> QED
        BY <3>1
    <2>5. \A i \in DOMAIN sent : sent[i] \in job.blocks
      BY DEF IInv
    <2>6. /\ pc \in {"header", "convert", "Y", "Cb", "Cr", "closed", "crashed"}
          /\ x \in 0 .. job.width /\ y \in 0 .. job.height + 7
      BY DEF IInv
    <2> QED
      BY <2>1, <2>2, <2>3, <2>4, <2>5, <2>6 DEF TypeOK
  <1> QED
    BY Invariant, <1>1, PTL

\* No block overruns MbBitString of _doHuffmanEncoding: the bound of 128 holds
\* for every block, since a coefficient costs at most two bit strings for each
\* position it takes, and the run before it pays for its SIXTEEN_ZEROS.
THEOREM BitStringsFit == Spec => []EntriesFit
  <1>1. IInv => EntriesFit
    <2> SUFFICES ASSUME IInv PROVE entries <= 128
      BY DEF EntriesFit
    <2>1. entries \in 0 .. 128
      BY DEF IInv
    <2> QED
      BY <2>1
  <1> QED
    BY Invariant, <1>1, PTL

\* _write_bitstring_ leaves no marker in the coded data: the zero after a 255
\* is never separated from it.
THEOREM NoMarkerWritten == Spec => []NoMarkerInData
  <1>1. IInv => NoMarkerInData
    <2> SUFFICES ASSUME IInv PROVE NoMarkerInData
      OBVIOUS
    <2>1. file \in Seq(0 .. 255) /\ NoMarker(file)
      BY DEF IInv, CodedData, Bytes
    <2>2. DOMAIN file = 1 .. Len(file)
      BY <2>1
    <2> QED
      BY <2>1, <2>2 DEF NoMarker, NoMarkerInData
  <1> QED
    BY Invariant, <1>1, PTL

\* The bytes a sample of each format is made from, at (x, y).
LEMMA PositionOfSample ==
    ASSUME NEW i \in Samples
    PROVE  i % 8 \in 0 .. 7 /\ i \div 8 \in 0 .. 7
  BY DEF Samples

\* The offset of an RGB pixel, as the code computes it.
LEMMA PixelOfRGB ==
    ASSUME NEW px \in Int, NEW u \in Int, NEW r \in Int, NEW w \in Int
    PROVE  r * w * 3 + px * 3 + 3 * u = 3 * (r * w + (px + u))
  <1> DEFINE m == r * w
  <1>1. m \in Int
    OBVIOUS
  <1> HIDE DEF m
  <1>2. m * 3 + px * 3 + 3 * u = 3 * (m + (px + u))
    BY <1>1
  <1> QED
    BY <1>2 DEF m

\* The offsets in a YUYV line, as the code computes them from a pair's place.
LEMMA PixelOfYUYV ==
    ASSUME NEW px \in Nat, px % 8 = 0, NEW u \in 0 .. 7,
           NEW r \in Nat, NEW w \in Nat, w % 2 = 0
    PROVE  /\ r * w * 2 + px * 2 + 2 * u = 2 * (r * w + (px + u))
           /\ r * w * 2 + PairOf(px) + (u \div 2) * 4
                = 4 * ((r * w + (px + u)) \div 2)
  <1> DEFINE h == w \div 2
             m == r * h
             n == r * w + (px + u)
             line == r * w * 2
  <1>1. h \in Nat /\ w = 2 * h
    OBVIOUS
  <1> HIDE DEF h
  <1>2. r * w = r * (2 * h)
    BY <1>1
  <1>3. r * (2 * h) = 2 * (r * h)
    BY <1>1
  <1>4. m \in Nat /\ r * w = 2 * m
    BY <1>1, <1>2, <1>3
  <1>5. n = 2 * m + (px + u) /\ line = 2 * m * 2
    BY <1>4
  <1> HIDE DEF m, n, line
  <1>6. /\ line + px * 2 + 2 * u = 2 * n
        /\ line + (px \div 2) * 4 + (u \div 2) * 4 = 4 * (n \div 2)
    BY <1>4, <1>5
  <1> QED
    BY <1>6 DEF n, line, PairOf

\* The samples of a macro block are those of its own pixels.
LEMMA SamplesFromIInv == IInv => SamplesOfOwnPixels
  <1> SUFFICES ASSUME IInv, pc = "Y",
                      job.input = "yuv444" => job.width * job.height = PlaneSize,
                      NEW c \in Components, NEW i \in Samples
               PROVE  mb[c][i] = Sample(c, x + (i % 8), y + i \div 8)
    BY DEF SamplesOfOwnPixels, Components
  <1> DEFINE w == job.width
             u == i % 8
             r == i \div 8 + y
             n == (y + i \div 8) * job.width + (x + (i % 8))
  <1>1. /\ job.input \in {"rgb", "yuyv", "yuv444"}
        /\ job.input = "yuyv" => w % 2 = 0
        /\ w \in Nat /\ job.height \in Nat
    BY JobsAssumption DEF IInv
  <1>2. x \in Nat /\ x % 8 = 0 /\ y \in Nat /\ Converted
    <2>1. x \in 0 .. job.width /\ x % 8 = 0 /\ y \in 0 .. job.height + 7 /\ Converted
      BY DEF IInv
    <2> QED
      BY <1>1, <2>1
  <1>3. u \in 0 .. 7 /\ r \in Nat
    BY <1>2, PositionOfSample
  <1>4. n = r * w + (x + u)
    BY <1>2, PositionOfSample
  <1>5. CASE job.input = "rgb"
    <2> DEFINE p == r * w * 3 + x * 3 + 3 * u
    <2>1. mb = ConvertMBColorRGB2YUV(x, y, w)
      BY <1>2, <1>5 DEF Converted
    <2>2. mb[c][i] = <<p + 2, p + 1, p>>
      BY <2>1 DEF ConvertMBColorRGB2YUV, Components
    <2>3. Sample(c, x + (i % 8), y + i \div 8) = <<3 * n + 2, 3 * n + 1, 3 * n>>
      BY <1>5 DEF Sample
    <2> HIDE DEF u, r, w
    <2>4. p = 3 * (r * w + (x + u))
      BY <1>1, <1>2, <1>3, PixelOfRGB
    <2>5. p = 3 * n
      BY <1>4, <2>4, Zenon
    <2> QED
      BY <2>2, <2>3, <2>5, Zenon
  <1>6. CASE job.input = "yuyv"
    <2> DEFINE line == r * w * 2
               a == line + x * 2 + 2 * u
               b == line + PairOf(x) + 1 + (u \div 2) * 4
               d == line + PairOf(x) + 3 + (u \div 2) * 4
    <2>1. mb = ConvertMBColorYUYV2YUV(x, y, w)
      BY <1>2, <1>6 DEF Converted
    <2>2. mb[c][i] = <<CASE c = "Y" -> a [] c = "Cb" -> b [] c = "Cr" -> d>>
      BY <2>1 DEF ConvertMBColorYUYV2YUV, Components
    <2>3. Sample(c, x + (i % 8), y + i \div 8)
            = <<CASE c = "Y" -> 2 * n
                  [] c = "Cb" -> 4 * (n \div 2) + 1
                  [] c = "Cr" -> 4 * (n \div 2) + 3>>
      BY <1>6 DEF Sample
    <2>4. w % 2 = 0
      BY <1>1, <1>6
    <2> HIDE DEF u, r, w, n
    <2> DEFINE k == r * w + (x + u)
               pair == line + PairOf(x) + (u \div 2) * 4
    <2>5. a = 2 * k /\ pair = 4 * (k \div 2)
      <3>1. w \in Nat /\ r \in Nat /\ u \in 0 .. 7 /\ x \in Nat /\ x % 8 = 0
        BY <1>1, <1>2, <1>3
      <3> QED
        BY <2>4, <3>1, PixelOfYUYV
    <2>6. a = 2 * n /\ pair = 4 * (n \div 2)
      BY <1>4, <2>5, Zenon
    <2>7. b = pair + 1 /\ d = pair + 3
      <3>1. line \in Int /\ u \div 2 \in Int /\ PairOf(x) \in Int
        BY <1>1, <1>2, <1>3 DEF PairOf
      <3> HIDE DEF line
      <3> DEFINE e == PairOf(x)
                 f == u \div 2
      <3>2. e \in Int /\ f \in Int
        BY <3>1
      <3> HIDE DEF e, f
      <3>3. /\ line + e + 1 + f * 4 = line + e + f * 4 + 1
            /\ line + e + 3 + f * 4 = line + e + f * 4 + 3
        BY <3>1, <3>2
      <3> QED
        BY <3>3, Zenon DEF e, f
    <2>8. b = 4 * (n \div 2) + 1 /\ d = 4 * (n \div 2) + 3
      BY <2>6, <2>7, Zenon
    <2> QED
      BY <2>2, <2>3, <2>6, <2>8, Zenon
  <1>7. CASE job.input = "yuv444"
    <2> DEFINE p == r * w + x + u
               plane == job.width * job.height
    <2>1. mb = ConvertMBColorYUV444ToYUV(x, y, w)
      BY <1>2, <1>7 DEF Converted
    <2>2. mb[c][i] = <<CASE c = "Y" -> p [] c = "Cb" -> p + PlaneSize
                         [] c = "Cr" -> p + PlaneSize * 2>>
      BY <2>1 DEF ConvertMBColorYUV444ToYUV, Components
    <2>3. Sample(c, x + (i % 8), y + i \div 8)
            = <<CASE c = "Y" -> n [] c = "Cb" -> n + plane
                  [] c = "Cr" -> n + 2 * plane>>
      BY <1>7 DEF Sample
    <2>4. plane = PlaneSize /\ PlaneSize \in Nat
      BY <1>7, PlaneSizeAssumption
    <2>5. p = n
      <3> DEFINE m == r * w
      <3>1. m \in Int
        BY <1>1, <1>3
      <3> HIDE DEF m, u, n
      <3>2. m + x + u = m + (x + u)
        BY <1>2, <1>3, <3>1
      <3> QED
        BY <1>4, <3>2 DEF m
    <2>6. 2 * plane = PlaneSize * 2
      BY <2>4
    <2> QED
      BY <2>2, <2>3, <2>4, <2>5, <2>6, Zenon
  <1> QED
    BY <1>1, <1>5, <1>6, <1>7

\* The conversions take every sample from the bytes of its own pixel, for
\* pictures of every size: the macro blocks neither overlap nor leave out a
\* column, whatever format the encoder is called for.
THEOREM SamplesInPlace == Spec => []SamplesOfOwnPixels
  BY Invariant, SamplesFromIInv, PTL

\* The number of bytes of the picture.
PictureSize ==
    CASE job.input = "rgb" -> 3 * (job.width * job.height)
      [] job.input = "yuyv" -> 2 * (job.width * job.height)
      [] job.input = "yuv444" -> 3 * (job.width * job.height)

\* A picture of whole macro blocks, and of the one size built in if it is one of
\* planes, is read up to its last byte at most.  (No encoder looks at the size:
\* of a height that is no multiple of 8 the last line of macro blocks reads past
\* the end.)
ReadsInsidePicture ==
    pc = "Y" /\ job.width % 8 = 0 /\ job.height % 8 = 0
    /\ (job.input = "yuv444" => job.width * job.height = PlaneSize)
      => \A c \in Components, i \in Samples :
           \A k \in DOMAIN mb[c][i] : mb[c][i][k] \in 0 .. PictureSize - 1

\* The number of a pixel within the picture.
LEMMA PixelInPicture ==
    ASSUME NEW w \in Nat, NEW h \in Nat, NEW r \in Nat, r < h, NEW t \in 0 .. w - 1
    PROVE  r * w + t \in 0 .. w * h - 1 /\ w * h \in Nat
  <1> DEFINE d == h - 1 - r
             m == r * w
             q == d * w
  <1>1. d \in Nat /\ h = (d + 1) + r
    OBVIOUS
  <1> HIDE DEF d
  <1>2. m \in Nat /\ q \in Nat
    BY <1>1
  <1>3. w * h = q + w + m
    <2>1. w * ((d + 1) + r) = d * w + w + r * w
      BY <1>1
    <2> QED
      BY <1>1, <2>1
  <1> HIDE DEF m, q
  <1>4. m + t \in 0 .. (q + w + m) - 1 /\ q + w + m \in Nat
    BY <1>2
  <1> QED
    BY <1>3, <1>4 DEF m

\* A picture of whole macro blocks has an even number of pixels.
LEMMA EvenPlane ==
    ASSUME NEW w \in Nat, w % 8 = 0, NEW h \in Nat
    PROVE  (w * h) % 2 = 0
  <1> DEFINE g == w \div 2
             m == g * h
  <1>1. g \in Nat /\ w = 2 * g
    OBVIOUS
  <1> HIDE DEF g
  <1>2. m \in Nat /\ w * h = (2 * g) * h /\ (2 * g) * h = 2 * m
    BY <1>1
  <1> HIDE DEF m
  <1>3. (2 * m) % 2 = 0
    BY <1>2
  <1> QED
    BY <1>2, <1>3

\* A macro block that starts inside the picture lies inside it.
LEMMA BlockInSide ==
    ASSUME NEW side \in Nat, side % 8 = 0, NEW at \in Nat, at % 8 = 0, at < side,
           NEW u \in 0 .. 7
    PROVE  at + u \in 0 .. side - 1
  OBVIOUS

\* The conversions read the picture and nothing behind it, for every size that
\* is made of whole macro blocks.
THEOREM ReadsInside == Spec => []ReadsInsidePicture
  <1>1. IInv => ReadsInsidePicture
    <2> SUFFICES ASSUME IInv, pc = "Y", job.width % 8 = 0, job.height % 8 = 0,
                        job.input = "yuv444" => job.width * job.height = PlaneSize,
                        NEW c \in Components, NEW i \in Samples
                 PROVE  \A k \in DOMAIN mb[c][i] :
                           mb[c][i][k] \in 0 .. PictureSize - 1
      BY DEF ReadsInsidePicture
    <2> DEFINE w == job.width
               h == job.height
               r == y + i \div 8
               t == x + (i % 8)
               n == r * w + t
               plane == job.width * job.height
               size == PictureSize
               bytes == mb[c][i]
    <2>1. /\ job.input \in {"rgb", "yuyv", "yuv444"}
          /\ w \in Nat /\ h \in Nat
      BY JobsAssumption DEF IInv
    <2>2. /\ x \in Nat /\ x % 8 = 0 /\ x < w
          /\ y \in Nat /\ y % 8 = 0 /\ y < h
      <3>1. /\ x \in 0 .. job.width /\ x % 8 = 0
            /\ y \in 0 .. job.height + 7 /\ y % 8 = 0 /\ MoreBlocks
        BY DEF IInv, Components
      <3> QED
        BY <2>1, <3>1 DEF MoreBlocks
    <2>3. t \in 0 .. w - 1 /\ r \in 0 .. h - 1
      BY <2>1, <2>2, BlockInSide, PositionOfSample
    <2>4. bytes = Sample(c, x + (i % 8), y + i \div 8)
      BY SamplesFromIInv DEF SamplesOfOwnPixels, Components
    <2>5. n \in 0 .. plane - 1 /\ plane \in Nat
      <3> HIDE DEF w, h, r, t
      <3>1. r \in Nat /\ r < h
        BY <2>1, <2>3
      <3>2. r * w + t \in 0 .. w * h - 1 /\ w * h \in Nat
        BY <2>1, <2>3, <3>1, PixelInPicture
      <3> QED
        BY <3>2 DEF w, h
    <2>6. CASE job.input = "rgb"
      <3>1. bytes = <<3 * n + 2, 3 * n + 1, 3 * n>> /\ size = 3 * plane
        BY <2>4, <2>6 DEF Sample, PictureSize
      <3> HIDE DEF n, plane, size, bytes
      <3> QED
        BY <2>5, <3>1 DEF size, bytes
    <2>7. CASE job.input = "yuyv"
      <3>1. /\ bytes \in {<<2 * n>>, <<4 * (n \div 2) + 1>>, <<4 * (n \div 2) + 3>>}
            /\ size = 2 * plane
        BY <2>4, <2>7 DEF Sample, PictureSize, Components
      <3>2. plane % 2 = 0
        BY <2>1, EvenPlane
      <3> HIDE DEF n, plane, size, bytes
      <3> QED
        BY <2>5, <3>1, <3>2 DEF size, bytes
    <2>8. CASE job.input = "yuv444"
      <3>1. /\ bytes \in {<<n>>, <<n + plane>>, <<n + 2 * plane>>}
            /\ size = 3 * plane
        BY <2>4, <2>8 DEF Sample, PictureSize, Components
      <3> HIDE DEF n, plane, size, bytes
      <3> QED
        BY <2>5, <3>1 DEF size, bytes
    <2> QED
      BY <2>1, <2>6, <2>7, <2>8
  <1> QED
    BY Invariant, <1>1, PTL
=============================================================================
