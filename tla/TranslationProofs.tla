------------------------- MODULE TranslationProofs -------------------------
(***************************************************************************)
(* Proofs about the tag data boundary: no tag fails the consumer, what is  *)
(* encoded decodes to what it was made of, a pattern's bit test says of a  *)
(* tag what its fields say, and a tag names the same thing however it is   *)
(* written, printed and read. For any layouts the program accepts and      *)
(* LayoutAssumption describes, any register RegisterAssumption describes,  *)
(* of any width, in any base.                                              *)
(***************************************************************************)
EXTENDS Translation, TLAPS, WellFoundedInduction, FiniteSetTheorems

-----------------------------------------------------------------------------
(* Refusals                                                                *)

\* Every refusal of the ISO decoder, of the GS1 decoder, and of Translate's own
\* checks is one that speaks of the tag: there are no others, for any layouts,
\* any register and any bits.
LEMMA ISORefusalSpeaks ==
  \A bits, n, afi : ISORefusal(bits, n, afi) \in Untranslatable \cup {""}
  <1>1. \A di, body : IdentityRefusal(di, body) \in Untranslatable \cup {""}
    BY DEF IdentityRefusal, Untranslatable
  <1>2. \A c, t : InterpretRefusal(c, t) \in Untranslatable \cup {""}
    BY <1>1 DEF InterpretRefusal, Untranslatable
  <1> QED BY <1>2 DEF ISORefusal, Untranslatable

LEMMA TranslateRefusalSpeaks ==
  \A in : TranslateRefusal(in) \in Untranslatable \cup {""}
  <1>1. \A bits, n : DecodeRefusal(bits, n) \in Untranslatable \cup {""}
    BY DEF DecodeRefusal, Untranslatable
  <1> QED BY <1>1, ISORefusalSpeaks DEF TranslateRefusal, Untranslatable

\* Consume counts whatever a reader reports, and never ends the application.
THEOREM NoTagFailsTheConsumerHolds == TagSpec => []NoTagFailsTheConsumer
  <1>1. TagInit => NoTagFailsTheConsumer
    BY DEF TagInit, NoTagFailsTheConsumer
  <1>2. NoTagFailsTheConsumer /\ [TagNext]_tagVars => NoTagFailsTheConsumer'
    <2> SUFFICES ASSUME NoTagFailsTheConsumer, [TagNext]_tagVars PROVE outcome' # "failed"
      BY DEF NoTagFailsTheConsumer
    <2>1. CASE Consume
      BY <2>1, TranslateRefusalSpeaks DEF Consume
    <2>2. CASE Generate
      BY <2>2 DEF Generate
    <2>3. CASE MakeUnit
      BY <2>3 DEF MakeUnit
    <2>4. ASSUME NEW t \in current, NEW f \in Filters, Rewrite(t, f) \/ ByPureURI(t, f)
          PROVE  outcome' # "failed"
      BY <2>4, Zenon DEF Rewrite, ByPureURI, Becomes
    <2>5. ASSUME NEW t \in current, ByTagURI(t) \/ OverTheAir(t) PROVE outcome' # "failed"
      BY <2>5, Zenon DEF ByTagURI, OverTheAir, Becomes
    <2>6. CASE UNCHANGED tagVars
      BY <2>6 DEF tagVars, NoTagFailsTheConsumer
    <2> QED BY <2>1, <2>2, <2>3, <2>4, <2>5, <2>6 DEF TagNext
  <1> QED BY <1>1, <1>2, PTL DEF TagSpec

-----------------------------------------------------------------------------
(* Induction over numbers, as facts about sets of them                     *)

\* Numbers have a least one.
LEMMA LeastNumber ==
    ASSUME NEW T, T \subseteq Nat, T # {}
    PROVE  \E n \in T : \A m \in T : n <= m
  <1> DEFINE R == OpToRel(<, Nat)
  <1>1. IsWellFoundedOn(R, Nat)
    BY NatLessThanWellFounded
  <1>2. \E n \in T : \A m \in T : ~ (<<m, n>> \in R)
    <2> HIDE DEF R
    <2> QED BY <1>1, WFMin
  <1>3. \A m, n \in Nat : m < n => <<m, n>> \in R
    BY DEF OpToRel
  <1> HIDE DEF R
  <1>4. PICK n \in T : \A m \in T : ~ (<<m, n>> \in R)
    BY <1>2
  <1>5. \A m \in T : m \in Nat /\ n \in Nat /\ ~ (m < n)
    BY <1>3, <1>4
  <1> QED BY <1>4, <1>5

\* A set with 0 and the successors of its members has every number.
LEMMA InductiveSet ==
    ASSUME NEW P, 0 \in P, \A n \in Nat : n \in P => n + 1 \in P
    PROVE  Nat \subseteq P
  <1> DEFINE T == Nat \ P
  <1> SUFFICES ASSUME T # {} PROVE FALSE
    OBVIOUS
  <1>1. PICK n \in T : \A m \in T : n <= m
    BY LeastNumber
  <1>2. n # 0 /\ n - 1 \in Nat
    BY <1>1
  <1>3. n - 1 \in P
    BY <1>1, <1>2
  <1>4. (n - 1) + 1 \in P
    BY <1>2, <1>3
  <1> QED BY <1>1, <1>4

-----------------------------------------------------------------------------
(* Powers and quotients                                                    *)

\* Powers of two double.
LEMMA TwoDoubles ==
    /\ 2 ^ 0 = 1
    /\ \A n \in Nat : 2 ^ n \in Nat \ {0} /\ 2 ^ (n + 1) = 2 * 2 ^ n
  <1>1. 2 ^ 0 = 1
    OBVIOUS
  <1>2. \A n \in Nat : 2 ^ n \in Nat /\ 2 ^ (n + 1) = 2 * 2 ^ n
    <2> SUFFICES ASSUME NEW n \in Nat PROVE 2 ^ n \in Nat /\ 2 ^ (n + 1) = 2 * 2 ^ n
      OBVIOUS
    <2> DEFINE S == 1..n  U == 1..(n + 1)  P == (SUBSET S) \X {0, 1}
               f == [p \in P |-> IF p[2] = 1 THEN p[1] \cup {n + 1} ELSE p[1]]
    <2>1. IsFiniteSet(S) /\ Cardinality(S) = n /\ IsFiniteSet(U) /\ Cardinality(U) = n + 1
      BY FS_Interval
    <2>2. /\ IsFiniteSet(SUBSET S) /\ Cardinality(SUBSET S) = 2 ^ n /\ 2 ^ n \in Nat
          /\ Cardinality(SUBSET U) = 2 ^ (n + 1)
      BY <2>1, FS_SUBSET, FS_CardinalityType
    <2>3. IsFiniteSet({0, 1}) /\ Cardinality({0, 1}) = 2
      <3>1. {0, 1} = 0..1
        OBVIOUS
      <3>2. Cardinality(0..1) = 2 /\ IsFiniteSet(0..1)
        <4>1. 0 \in Int /\ 1 \in Int /\ ~ (0 > 1) /\ 1 - 0 + 1 = 2
          OBVIOUS
        <4> QED BY <4>1, FS_Interval
      <3> QED BY <3>1, <3>2
    <2>4. IsFiniteSet(P) /\ Cardinality(P) = 2 ^ n * 2
      BY <2>2, <2>3, FS_Product
    <2>5. f \in Bijection(P, SUBSET U)
      <3>1. f \in [P -> SUBSET U]
        OBVIOUS
      <3>2. \A p, q \in P : f[p] = f[q] => p = q
        <4> SUFFICES ASSUME NEW p \in P, NEW q \in P, f[p] = f[q] PROVE p = q
          OBVIOUS
        <4>1. n + 1 \notin p[1] /\ n + 1 \notin q[1] /\ p[1] \subseteq S /\ q[1] \subseteq S
          OBVIOUS
        <4>2. (n + 1 \in f[p] <=> p[2] = 1) /\ (n + 1 \in f[q] <=> q[2] = 1)
          BY <4>1
        <4>3. f[p] \ {n + 1} = p[1] /\ f[q] \ {n + 1} = q[1]
          BY <4>1
        <4> QED BY <4>2, <4>3
      <3>3. \A T \in SUBSET U : \E p \in P : f[p] = T
        <4> SUFFICES ASSUME NEW T \in SUBSET U PROVE \E p \in P : f[p] = T
          OBVIOUS
        <4>1. CASE n + 1 \in T
          <5>1. T \ {n + 1} \in SUBSET S /\ (T \ {n + 1}) \cup {n + 1} = T
            BY <4>1
          <5>2. <<T \ {n + 1}, 1>> \in P /\ f[<<T \ {n + 1}, 1>>] = (T \ {n + 1}) \cup {n + 1}
            BY <5>1
          <5> QED BY <5>1, <5>2
        <4>2. CASE n + 1 \notin T
          <5>0. T \in SUBSET S
            BY <4>2
          <5>1. PICK p \in P : p = <<T, 0>>
            BY <5>0
          <5>2. p[2] # 1 /\ p[1] = T
            BY <5>1
          <5>3. f[p] = T
            BY <5>2
          <5> QED BY <5>3
        <4> QED BY <4>1, <4>2
      <3> QED BY <3>1, <3>2, <3>3 DEF Bijection, Injection, Surjection, IsInjective
    <2>6. Cardinality(SUBSET U) = Cardinality(P)
      BY <2>4, <2>5, FS_Bijection DEF ExistsBijection
    <2> QED BY <2>2, <2>4, <2>6
  <1>3. \A n \in Nat : 2 ^ n # 0
    <2> DEFINE A == {n \in Nat : 2 ^ n # 0}
    <2>1. 0 \in A /\ \A n \in Nat : n \in A => n + 1 \in A
      BY <1>1, <1>2
    <2> HIDE DEF A
    <2>2. Nat \subseteq A
      BY <2>1, InductiveSet
    <2> QED BY <2>2 DEF A
  <1> QED BY <1>1, <1>2, <1>3

\* What division gives.
LEMMA Quotient ==
    ASSUME NEW b \in Nat \ {0}, NEW q \in Nat, NEW r \in Nat, r < b
    PROVE  (q * b + r) \div b = q
  <1>1. PICK a \in Nat : a = q * b + r
    OBVIOUS
  <1>2. PICK d \in Int, e \in 0..(b - 1) : d = a \div b /\ a = b * d + e
    BY <1>1
  <1>3. b * (d - q) = r - e
    BY <1>1, <1>2
  <1>4. ~ (d - q >= 1)
    <2> SUFFICES ASSUME d - q >= 1 PROVE FALSE
      OBVIOUS
    <2>1. b * ((d - q) - 1) >= 0
      OBVIOUS
    <2> QED BY <1>3, <2>1
  <1>5. ~ (q - d >= 1)
    <2> SUFFICES ASSUME q - d >= 1 PROVE FALSE
      OBVIOUS
    <2>1. b * ((q - d) - 1) >= 0
      OBVIOUS
    <2> QED BY <1>3, <2>1
  <1> QED BY <1>1, <1>2, <1>4, <1>5

\* The quotient by a power of two, bit by bit.
LEMMA Halved ==
    ASSUME NEW b \in Nat \ {0}, NEW a \in Nat
    PROVE  /\ a \div b \in Nat
           /\ a \div b = 2 * (a \div (2 * b)) + ((a \div b) % 2)
           /\ \A c \in {0, 1} : (2 * a + c) \div (2 * b) = a \div b
  <1>1. PICK q \in Nat, r \in Nat : r < b /\ a = q * b + r /\ a \div b = q
    <2>1. PICK d \in Int, e \in 0..(b - 1) : d = a \div b /\ a = b * d + e
      OBVIOUS
    <2>2. d >= 0
      <3> SUFFICES ASSUME d <= -1 PROVE FALSE
        OBVIOUS
      <3>1. b * (-1 - d) >= 0
        OBVIOUS
      <3> QED BY <2>1, <3>1
    <2> QED BY <2>1, <2>2
  <1>2. \A c \in {0, 1} : (2 * a + c) \div (2 * b) = q
    <2> SUFFICES ASSUME NEW c \in {0, 1} PROVE (2 * a + c) \div (2 * b) = q
      OBVIOUS
    <2>1. 2 * b \in Nat \ {0} /\ 2 * r + c \in Nat /\ 2 * r + c < 2 * b
      BY <1>1
    <2>2. 2 * a + c = q * (2 * b) + (2 * r + c)
      BY <1>1
    <2> QED BY <1>1, <2>1, <2>2, Quotient
  <1>3. a \div (2 * b) = q \div 2
    <2>1. PICK h \in Nat, l \in {0, 1} : q = 2 * h + l /\ q \div 2 = h
      BY <1>1
    <2>2. 2 * b \in Nat \ {0} /\ l * b + r \in Nat /\ l * b + r < 2 * b
      BY <1>1, <2>1
    <2>3. a = h * (2 * b) + (l * b + r)
      BY <1>1, <2>1
    <2> QED BY <2>1, <2>2, <2>3, Quotient
  <1>4. q = 2 * (q \div 2) + (q % 2)
    OBVIOUS
  <1> QED BY ONLY <1>1, <1>2, <1>3, <1>4

-----------------------------------------------------------------------------
(* Numbers in bits                                                         *)

\* v is what BitsAt has read of bits behind position at, bit after bit.
ReadsBits(v, bits, at, n) ==
    v = [i \in 0..n |-> IF i = 0 THEN 0 ELSE 2 * v[i - 1] + bits[at + i]]

LEMMA ReadingExists ==
    ASSUME NEW bits, NEW at \in Nat, NEW n \in Nat
    PROVE  \E v : ReadsBits(v, bits, at, n)
  <1> DEFINE P == {m \in Nat : \E v : ReadsBits(v, bits, at, m)}
  <1>1. 0 \in P
    <2> DEFINE v == [i \in 0..0 |-> 0]
    <2>1. ReadsBits(v, bits, at, 0)
      BY DEF ReadsBits
    <2> QED BY <2>1
  <1>2. ASSUME NEW m \in Nat, m \in P PROVE m + 1 \in P
    <2>1. PICK v : ReadsBits(v, bits, at, m)
      BY <1>2
    <2> DEFINE w == [i \in 0..(m + 1) |-> IF i = m + 1 THEN 2 * v[m] + bits[at + (m + 1)] ELSE v[i]]
    <2>2. ASSUME NEW i \in 0..(m + 1)
          PROVE  w[i] = IF i = 0 THEN 0 ELSE 2 * w[i - 1] + bits[at + i]
      <3>1. CASE i = m + 1
        BY <3>1
      <3>2. CASE i # m + 1
        <4>1. i \in 0..m /\ (i # 0 => i - 1 \in 0..m /\ i - 1 # m + 1 /\ i - 1 \in 0..(m + 1))
          BY <3>2
        <4>2. v[i] = IF i = 0 THEN 0 ELSE 2 * v[i - 1] + bits[at + i]
          BY <2>1, <4>1 DEF ReadsBits
        <4>3. i \in 0..(m + 1) /\ w[i] = v[i]
          BY <3>2
        <4>4. i # 0 => w[i - 1] = v[i - 1]
          BY <4>1
        <4> HIDE DEF w
        <4> QED BY <4>2, <4>3, <4>4
      <3> QED BY <3>1, <3>2
    <2>3. ReadsBits(w, bits, at, m + 1)
      BY <2>2 DEF ReadsBits
    <2> QED BY <2>3
  <1> HIDE DEF P
  <1>3. Nat \subseteq P
    BY <1>1, <1>2, InductiveSet
  <1> QED BY <1>3 DEF P

\* So BitsAt is the last of the numbers its recursion goes through.
LEMMA BitsAtReads ==
    ASSUME NEW bits, NEW at \in Nat, NEW n \in Nat
    PROVE  \E v : BitsAt(bits, at, n) = v[n] /\ ReadsBits(v, bits, at, n)
  <1> DEFINE V == CHOOSE v : ReadsBits(v, bits, at, n)
  <1>1. ReadsBits(V, bits, at, n)
    BY ReadingExists
  <1>2. BitsAt(bits, at, n) = V[n]
    BY DEF BitsAt, ReadsBits
  <1> HIDE DEF V
  <1> QED BY <1>1, <1>2

\* Bit i of a number of n bits, most significant first.
BitOf(value, n, i) == (value \div 2 ^ (n - i)) % 2

LEMMA BitOfFacts ==
    ASSUME NEW n \in Nat, NEW i \in 1..n, NEW value \in Nat
    PROVE  /\ BitOf(value, n, i) \in {0, 1}
           /\ BitOf(value, n, n) = value % 2
           /\ i < n => \A c \in {0, 1} : BitOf(2 * value + c, n, i) = BitOf(value, n - 1, i)
  <1>1. n - i \in Nat /\ n - n = 0 /\ 2 ^ 0 = 1 /\ 2 ^ (n - i) \in Nat \ {0}
    BY TwoDoubles
  <1>2. value \div 2 ^ (n - i) \in Nat
    BY <1>1, Halved
  <1>3. value \div 1 = value
    BY Quotient
  <1>4. ASSUME i < n, NEW c \in {0, 1}
        PROVE  BitOf(2 * value + c, n, i) = BitOf(value, n - 1, i)
    <2>1. (n - 1) - i \in Nat /\ n - i = ((n - 1) - i) + 1
      BY <1>4
    <2>2. PICK b \in Nat \ {0} : b = 2 ^ ((n - 1) - i) /\ 2 ^ (n - i) = 2 * b
      BY <2>1, TwoDoubles
    <2>3. (2 * value + c) \div (2 * b) = value \div b
      BY Halved
    <2> QED BY <2>2, <2>3 DEF BitOf
  <1> QED BY <1>1, <1>2, <1>3, <1>4 DEF BitOf

\* The bits of a number of n bits are those behind position at.
HasBits(bits, at, n, value) ==
    value \in Nat /\ value < 2 ^ n /\ \A i \in 1..n : bits[at + i] = BitOf(value, n, i)

\* What BitsAt reads is a number of n bits whose bits are those read.
LEMMA BitsAtBits ==
    ASSUME NEW bits, NEW at \in Nat, NEW n \in Nat,
           \A i \in 1..n : bits[at + i] \in {0, 1}
    PROVE  HasBits(bits, at, n, BitsAt(bits, at, n))
  <1>0. PICK v : BitsAt(bits, at, n) = v[n] /\ ReadsBits(v, bits, at, n)
    BY BitsAtReads
  <1>1. /\ BitsAt(bits, at, n) = v[n]
        /\ v[0] = 0
        /\ \A i \in 1..n : v[i] = 2 * v[i - 1] + bits[at + i]
    BY <1>0 DEF ReadsBits
  <1> DEFINE P == {m \in Nat : m <= n => /\ v[m] \in Nat /\ v[m] < 2 ^ m
                                         /\ \A i \in 1..m : bits[at + i] = BitOf(v[m], m, i)}
  <1>2. 0 \in P
    BY <1>1, TwoDoubles
  <1>3. ASSUME NEW m \in Nat, m \in P PROVE m + 1 \in P
    <2> SUFFICES ASSUME m + 1 <= n
                 PROVE  /\ v[m + 1] \in Nat /\ v[m + 1] < 2 ^ (m + 1)
                        /\ \A i \in 1..(m + 1) : bits[at + i] = BitOf(v[m + 1], m + 1, i)
      OBVIOUS
    <2>1. PICK a \in Nat : a = v[m] /\ a < 2 ^ m /\ \A i \in 1..m : bits[at + i] = BitOf(a, m, i)
      BY <1>3
    <2>2. PICK c \in {0, 1} : c = bits[at + (m + 1)]
      OBVIOUS
    <2>3. v[m + 1] = 2 * a + c
      BY <1>1, <2>1, <2>2
    <2>4. 2 ^ (m + 1) = 2 * 2 ^ m /\ 2 ^ m \in Nat
      BY TwoDoubles
    <2>5. 2 * a + c \in Nat /\ 2 * a + c < 2 ^ (m + 1)
      BY <2>1, <2>4
    <2>6. BitOf(2 * a + c, m + 1, m + 1) = c
      <3>1. BitOf(2 * a + c, m + 1, m + 1) = (2 * a + c) % 2
        BY <2>5, BitOfFacts
      <3> QED BY <3>1
    <2>7. ASSUME NEW i \in 1..m PROVE BitOf(2 * a + c, m + 1, i) = BitOf(a, m, i)
      <3>1. PICK k \in Nat : k = m + 1 /\ i \in 1..k /\ i < k /\ k - 1 = m
        OBVIOUS
      <3>2. \A d \in {0, 1} : BitOf(2 * a + d, k, i) = BitOf(a, k - 1, i)
        BY <3>1, BitOfFacts
      <3> QED BY <3>1, <3>2
    <2> QED BY <2>1, <2>2, <2>3, <2>5, <2>6, <2>7
  <1> HIDE DEF P
  <1>4. n \in P
    BY <1>2, <1>3, InductiveSet
  <1> QED BY <1>1, <1>4 DEF P, HasBits

\* And bits that are those of a number are read as that number.
LEMMA BitsAtValue ==
    ASSUME NEW bits, NEW at \in Nat, NEW n \in Nat, NEW value, HasBits(bits, at, n, value)
    PROVE  BitsAt(bits, at, n) = value
  <1> USE DEF HasBits
  <1>0. PICK v : BitsAt(bits, at, n) = v[n] /\ ReadsBits(v, bits, at, n)
    BY BitsAtReads
  <1>1. /\ BitsAt(bits, at, n) = v[n]
        /\ v[0] = 0
        /\ \A i \in 1..n : v[i] = 2 * v[i - 1] + bits[at + i]
    BY <1>0 DEF ReadsBits
  <1> DEFINE P == {m \in Nat : m <= n => v[m] = value \div 2 ^ (n - m)}
  <1>2. 0 \in P
    <2>1. 0 * 2 ^ n + value = value /\ 2 ^ n \in Nat \ {0}
      BY TwoDoubles
    <2>2. value \div 2 ^ n = 0
      BY <2>1, Quotient
    <2> QED BY <1>1, <2>2
  <1>3. ASSUME NEW m \in Nat, m \in P PROVE m + 1 \in P
    <2> SUFFICES ASSUME m + 1 <= n PROVE v[m + 1] = value \div 2 ^ (n - (m + 1))
      OBVIOUS
    <2>1. n - (m + 1) \in Nat /\ n - m = (n - (m + 1)) + 1
      OBVIOUS
    <2>2. PICK b \in Nat \ {0} : b = 2 ^ (n - (m + 1)) /\ 2 ^ (n - m) = 2 * b
      BY <2>1, TwoDoubles
    <2>3. v[m] = value \div (2 * b)
      BY <1>3, <2>2
    <2>4. bits[at + (m + 1)] = (value \div b) % 2
      <3>1. bits[at + (m + 1)] = BitOf(value, n, m + 1)
        OBVIOUS
      <3> QED BY <2>2, <3>1 DEF BitOf
    <2>5. v[m + 1] = 2 * v[m] + bits[at + (m + 1)]
      BY <1>1
    <2>6. value \div b = 2 * (value \div (2 * b)) + ((value \div b) % 2)
      BY Halved
    <2> QED BY <2>2, <2>3, <2>4, <2>5, <2>6
  <1> HIDE DEF P
  <1>4. n \in P
    BY <1>2, <1>3, InductiveSet
  <1>5. n - n = 0 /\ 2 ^ 0 = 1 /\ value \div 1 = value
    <2>1. value * 1 + 0 = value
      OBVIOUS
    <2> QED BY <2>1, Quotient, TwoDoubles
  <1> QED BY <1>1, <1>4, <1>5 DEF P

-----------------------------------------------------------------------------
(* Writing and testing bits                                                *)

Site == [at : Nat, len : Nat, value : Nat]

\* Sites within n bits that share none, each with a value it has room for.
Pinned(pins, n) ==
    /\ pins \subseteq Site
    /\ \A l \in pins : l.at + l.len <= n /\ l.value < 2 ^ l.len
    /\ \A l, m \in pins : l = m \/ Apart(l, m)

\* The bits of what Encode and patternBits write are those of the values.
LEMMA BitsWritten ==
    ASSUME NEW pins, NEW n \in Nat, Pinned(pins, n), NEW l \in pins, NEW i \in 1..l.len
    PROVE  SetBits(Zeros(n), pins)[l.at + i] = BitOf(l.value, l.len, i)
  <1>1. /\ l.at \in Nat /\ l.len \in Nat /\ l.value \in Nat /\ l.at + i \in 1..n
        /\ i \in Nat /\ l.at + l.len - (l.at + i) = l.len - i
    BY DEF Pinned, Site
  <1>2. DOMAIN Zeros(n) = 1..n /\ Zeros(n)[l.at + i] = 0
    BY <1>1 DEF Zeros
  <1> DEFINE Sets(x) == /\ l.at + i \in x.at + 1..x.at + x.len
                        /\ (x.value \div 2 ^ (x.at + x.len - (l.at + i))) % 2 = 1
  <1>3. SetBits(Zeros(n), pins)[l.at + i] = IF \E x \in pins : Sets(x) THEN 1 ELSE 0
    BY <1>1, <1>2 DEF SetBits
  <1>4. \A x \in pins : Sets(x) => x = l
    BY <1>1 DEF Pinned, Site, Apart
  <1>5. Sets(l) <=> BitOf(l.value, l.len, i) = 1
    BY <1>1 DEF BitOf
  <1>6. BitOf(l.value, l.len, i) \in {0, 1}
    BY <1>1, BitOfFacts
  <1> HIDE DEF Sets
  <1> QED BY <1>3, <1>4, <1>5, <1>6

\* What is written at a site is read from it.
LEMMA WrittenIsRead ==
    ASSUME NEW pins, NEW n \in Nat, Pinned(pins, n), NEW l \in pins
    PROVE  BitsAt(SetBits(Zeros(n), pins), l.at, l.len) = l.value
  <1>1. l.at \in Nat /\ l.len \in Nat /\ l.value \in Nat /\ l.value < 2 ^ l.len
    BY DEF Pinned, Site
  <1>2. \A i \in 1..l.len : SetBits(Zeros(n), pins)[l.at + i] = BitOf(l.value, l.len, i)
    BY BitsWritten
  <1>3. HasBits(SetBits(Zeros(n), pins), l.at, l.len, l.value)
    BY <1>1, <1>2 DEF HasBits
  <1> QED BY <1>1, <1>3, BitsAtValue

\* Every bit of the largest number of n bits is one.
LEMMA AllOnes ==
    ASSUME NEW n \in Nat
    PROVE  \A i \in 1..n : BitOf(2 ^ n - 1, n, i) = 1
  <1> DEFINE P == {m \in Nat : \A i \in 1..m : BitOf(2 ^ m - 1, m, i) = 1}
  <1>1. 0 \in P
    OBVIOUS
  <1>2. ASSUME NEW m \in Nat, m \in P PROVE m + 1 \in P
    <2>1. PICK a \in Nat : a = 2 ^ m - 1 /\ 2 ^ (m + 1) - 1 = 2 * a + 1
      BY TwoDoubles
    <2>2. ASSUME NEW i \in 1..(m + 1) PROVE BitOf(2 * a + 1, m + 1, i) = 1
      <3>1. PICK k \in Nat : k = m + 1 /\ i \in 1..k /\ k - 1 = m /\ 2 * a + 1 \in Nat
        OBVIOUS
      <3>2. CASE i = k
        <4>1. BitOf(2 * a + 1, k, k) = (2 * a + 1) % 2
          BY <3>1, BitOfFacts
        <4> QED BY <3>1, <3>2, <4>1
      <3>3. CASE i # k
        <4>0. i < k
          BY <3>1, <3>3
        <4>1. \A d \in {0, 1} : BitOf(2 * a + d, k, i) = BitOf(a, k - 1, i)
          BY <3>1, <4>0, BitOfFacts
        <4>2. BitOf(a, m, i) = 1
          BY <1>2, <2>1, <3>1, <3>3
        <4> QED BY <3>1, <4>1, <4>2
      <3> QED BY <3>2, <3>3
    <2> QED BY <2>1, <2>2
  <1> HIDE DEF P
  <1>3. n \in P
    BY <1>1, <1>2, InductiveSet
  <1> QED BY <1>3 DEF P

\* A mask has its ones at the sites of its pins, and nowhere else.
LEMMA MaskCovers ==
    ASSUME NEW pins, NEW n \in Nat, Pinned(pins, n), NEW b \in 1..n
    PROVE  SetBits(Zeros(n), Mask(pins))[b] = 1 <=> \E l \in pins : b \in l.at + 1..l.at + l.len
  <1>1. DOMAIN Zeros(n) = 1..n /\ Zeros(n)[b] = 0
    BY DEF Zeros
  <1> DEFINE Sets(x) == /\ b \in x.at + 1..x.at + x.len
                        /\ (x.value \div 2 ^ (x.at + x.len - b)) % 2 = 1
  <1>2. SetBits(Zeros(n), Mask(pins))[b] = IF \E x \in Mask(pins) : Sets(x) THEN 1 ELSE 0
    BY <1>1 DEF SetBits
  <1>3. \A x \in Mask(pins) : \E l \in pins : x.at = l.at /\ x.len = l.len
    BY DEF Mask
  <1>4. ASSUME NEW l \in pins, b \in l.at + 1..l.at + l.len
        PROVE  \E x \in Mask(pins) : Sets(x)
    <2>0. [at |-> l.at, len |-> l.len, value |-> 2 ^ l.len - 1] \in Mask(pins)
      BY DEF Mask
    <2>1. PICK x \in Mask(pins) : x.at = l.at /\ x.len = l.len /\ x.value = 2 ^ l.len - 1
      BY <2>0
    <2>2. PICK i \in 1..l.len : b = l.at + i
      <3>1. l.at \in Nat /\ l.len \in Nat
        BY DEF Pinned, Site
      <3>2. b - l.at \in 1..l.len /\ b = l.at + (b - l.at)
        BY <1>4, <3>1
      <3> QED BY <3>2
    <2>3. l.at \in Nat /\ l.len \in Nat /\ l.at + l.len - b = l.len - i
      BY <2>2 DEF Pinned, Site
    <2>4. BitOf(2 ^ l.len - 1, l.len, i) = 1
      BY <2>3, AllOnes
    <2> QED BY <1>4, <2>1, <2>3, <2>4 DEF BitOf
  <1> QED BY <1>2, <1>3, <1>4

\* A bit test is passed by the bits that have each pin's value at its site.
LEMMA PinsTested ==
    ASSUME NEW pins, NEW n \in Nat, Pinned(pins, n),
           NEW bits, \A b \in 1..n : bits[b] \in {0, 1}
    PROVE  (\A b \in 1..n : SetBits(Zeros(n), Mask(pins))[b] = 1 => bits[b] = SetBits(Zeros(n), pins)[b])
              <=> \A l \in pins : BitsAt(bits, l.at, l.len) = l.value
  <1>1. ASSUME NEW l \in pins
        PROVE  /\ l.at \in Nat /\ l.len \in Nat /\ l.value \in Nat /\ l.value < 2 ^ l.len
               /\ l.at + l.len <= n
    BY DEF Pinned, Site
  <1>2. ASSUME NEW l \in pins,
               \A b \in 1..n : SetBits(Zeros(n), Mask(pins))[b] = 1 => bits[b] = SetBits(Zeros(n), pins)[b]
        PROVE  BitsAt(bits, l.at, l.len) = l.value
    <2>1. ASSUME NEW i \in 1..l.len PROVE bits[l.at + i] = BitOf(l.value, l.len, i)
      <3>1. l.at + i \in 1..n /\ l.at + i \in l.at + 1..l.at + l.len
        BY <1>1
      <3>2. SetBits(Zeros(n), Mask(pins))[l.at + i] = 1
        BY <3>1, MaskCovers
      <3>3. bits[l.at + i] = SetBits(Zeros(n), pins)[l.at + i]
        BY <1>2, <3>1, <3>2
      <3> QED BY <3>3, BitsWritten
    <2>2. HasBits(bits, l.at, l.len, l.value)
      BY <1>1, <2>1 DEF HasBits
    <2> QED BY <1>1, <2>2, BitsAtValue
  <1>3. ASSUME \A l \in pins : BitsAt(bits, l.at, l.len) = l.value,
               NEW b \in 1..n, SetBits(Zeros(n), Mask(pins))[b] = 1
        PROVE  bits[b] = SetBits(Zeros(n), pins)[b]
    <2>1. PICK l \in pins : b \in l.at + 1..l.at + l.len
      BY <1>3, MaskCovers
    <2>2. PICK i \in 1..l.len : b = l.at + i
      <3>1. b - l.at \in 1..l.len /\ b = l.at + (b - l.at)
        BY <1>1, <2>1
      <3> QED BY <3>1
    <2>3. \A j \in 1..l.len : bits[l.at + j] \in {0, 1}
      BY <1>1
    <2>4. HasBits(bits, l.at, l.len, BitsAt(bits, l.at, l.len))
      BY <1>1, <2>3, BitsAtBits
    <2>5. BitsAt(bits, l.at, l.len) = l.value
      BY <1>3
    <2>6. bits[b] = BitOf(l.value, l.len, i)
      BY <2>2, <2>4, <2>5 DEF HasBits
    <2> QED BY <2>2, <2>6, BitsWritten
  <1> QED BY <1>2, <1>3

-----------------------------------------------------------------------------
(* The texts of fields                                                     *)

PowersUpTo(p, n) == p = [i \in 0..n |-> IF i = 0 THEN 1 ELSE Base * p[i - 1]]

LEMMA PowersExist ==
    ASSUME NEW n \in Nat
    PROVE  \E p : PowersUpTo(p, n)
  <1> DEFINE P == {m \in Nat : \E p : PowersUpTo(p, m)}
  <1>1. 0 \in P
    <2> DEFINE p == [i \in 0..0 |-> 1]
    <2>1. PowersUpTo(p, 0)
      BY DEF PowersUpTo
    <2> QED BY <2>1
  <1>2. ASSUME NEW m \in Nat, m \in P PROVE m + 1 \in P
    <2>1. PICK p : PowersUpTo(p, m)
      BY <1>2
    <2> DEFINE q == [i \in 0..(m + 1) |-> IF i = m + 1 THEN Base * p[m] ELSE p[i]]
    <2>2. ASSUME NEW i \in 0..(m + 1)
          PROVE  q[i] = IF i = 0 THEN 1 ELSE Base * q[i - 1]
      <3>1. CASE i = m + 1
        BY <3>1
      <3>2. CASE i # m + 1
        <4>1. i \in 0..m /\ (i # 0 => i - 1 \in 0..m /\ i - 1 # m + 1 /\ i - 1 \in 0..(m + 1))
          BY <3>2
        <4>2. p[i] = IF i = 0 THEN 1 ELSE Base * p[i - 1]
          BY <2>1, <4>1 DEF PowersUpTo
        <4> QED BY <3>2, <4>1, <4>2
      <3> QED BY <3>1, <3>2
    <2>3. PowersUpTo(q, m + 1)
      BY <2>2 DEF PowersUpTo
    <2> QED BY <2>3
  <1> HIDE DEF P
  <1>3. Nat \subseteq P
    BY <1>1, <1>2, InductiveSet
  <1> QED BY <1>3 DEF P

LEMMA PowersAgree ==
    ASSUME NEW p, NEW m \in Nat, PowersUpTo(p, m), NEW q, NEW n \in Nat, PowersUpTo(q, n), m <= n
    PROVE  p[m] = q[m]
  <1> DEFINE P == {i \in Nat : i <= m => p[i] = q[i]}
  <1>1. 0 \in P
    BY DEF PowersUpTo
  <1>2. ASSUME NEW i \in Nat, i \in P PROVE i + 1 \in P
    <2> SUFFICES ASSUME i + 1 <= m PROVE p[i + 1] = q[i + 1]
      OBVIOUS
    <2>1. p[i + 1] = Base * p[(i + 1) - 1] /\ q[i + 1] = Base * q[(i + 1) - 1]
      BY DEF PowersUpTo
    <2> QED BY <1>2, <2>1
  <1> HIDE DEF P
  <1>3. m \in P
    BY <1>1, <1>2, InductiveSet
  <1> QED BY <1>3 DEF P

LEMMA PowerIs ==
    ASSUME NEW n \in Nat
    PROVE  \E p : Power(n) = p[n] /\ PowersUpTo(p, n)
  <1> DEFINE V == CHOOSE p : p = [i \in 0..n |-> IF i = 0 THEN 1 ELSE Base * p[i - 1]]
  <1>1. PowersUpTo(V, n)
    <2>1. \E p : p = [i \in 0..n |-> IF i = 0 THEN 1 ELSE Base * p[i - 1]]
      BY PowersExist DEF PowersUpTo
    <2> QED BY <2>1 DEF PowersUpTo
  <1>2. Power(n) = V[n]
    BY DEF Power
  <1> HIDE DEF V
  <1> QED BY <1>1, <1>2

\* Powers of the base are powers.
LEMMA Powers ==
    /\ Power(0) = 1
    /\ \A n \in Nat : Power(n + 1) = Base * Power(n)
  <1>1. Power(0) = 1
    <2>1. PICK p : Power(0) = p[0] /\ PowersUpTo(p, 0)
      BY PowerIs
    <2> QED BY <2>1 DEF PowersUpTo
  <1>2. ASSUME NEW n \in Nat PROVE Power(n + 1) = Base * Power(n)
    <2>1. PICK p : Power(n) = p[n] /\ PowersUpTo(p, n)
      BY PowerIs
    <2>2. n + 1 \in Nat
      OBVIOUS
    <2>3. PICK q : Power(n + 1) = q[n + 1] /\ PowersUpTo(q, n + 1)
      BY <2>2, PowerIs
    <2>4. p[n] = q[n]
      BY <2>1, <2>2, <2>3, PowersAgree
    <2>5. q[n + 1] = Base * q[(n + 1) - 1] /\ (n + 1) - 1 = n
      BY <2>3 DEF PowersUpTo
    <2> QED BY <2>1, <2>3, <2>4, <2>5
  <1> QED BY <1>1, <1>2

\* They grow, each beyond its exponent.
LEMMA PowersGrow ==
    \A n \in Nat : Power(n) \in Nat /\ Power(n) > n /\ Power(n) <= Power(n + 1)
  <1>1. PICK b \in Nat : b = Base /\ b > 1
    BY LayoutAssumption
  <1> DEFINE P == {n \in Nat : Power(n) \in Nat /\ Power(n) > n}
  <1>2. 0 \in P
    BY Powers
  <1>3. ASSUME NEW n \in Nat, n \in P PROVE n + 1 \in P
    <2>1. PICK a \in Nat : a = Power(n) /\ a > n /\ Power(n + 1) = b * a
      BY <1>1, <1>3, Powers
    <2>2. b * a \in Nat /\ (b - 2) * a >= 0 /\ b * a = (b - 2) * a + 2 * a
      BY <1>1
    <2> QED BY <2>1, <2>2
  <1> HIDE DEF P
  <1>4. Nat \subseteq P
    BY <1>2, <1>3, InductiveSet
  <1>5. ASSUME NEW n \in Nat PROVE Power(n) <= Power(n + 1)
    <2>1. PICK a \in Nat : a = Power(n) /\ Power(n + 1) = b * a
      BY <1>1, <1>4, Powers DEF P
    <2>2. (b - 1) * a >= 0 /\ b * a = (b - 1) * a + a
      BY <1>1
    <2> QED BY <2>1, <2>2
  <1> QED BY <1>4, <1>5 DEF P

LEMMA PowersAscend ==
    ASSUME NEW m \in Nat, NEW n \in Nat, m <= n
    PROVE  Power(m) <= Power(n)
  <1> DEFINE P == {k \in Nat : Power(m) <= Power(m + k)}
  <1>1. 0 \in P
    BY PowersGrow
  <1>2. ASSUME NEW k \in Nat, k \in P PROVE k + 1 \in P
    <2>1. m + k \in Nat /\ m + (k + 1) = (m + k) + 1
      OBVIOUS
    <2>2. Power(m + k) \in Nat /\ Power((m + k) + 1) \in Nat /\ Power(m + k) <= Power((m + k) + 1)
          /\ Power(m) \in Nat
      BY <2>1, PowersGrow
    <2> QED BY <1>2, <2>1, <2>2
  <1> HIDE DEF P
  <1>3. n - m \in P
    BY <1>1, <1>2, InductiveSet
  <1>4. m + (n - m) = n
    OBVIOUS
  <1> QED BY <1>3, <1>4 DEF P

\* A number has as many digits as the least power beyond it.
IsWidth(v, n) == v < Power(n) /\ (n = 1 \/ Power(n - 1) <= v)

LEMMA WidthIsOne ==
    ASSUME NEW v \in Nat, NEW m \in Nat \ {0}, NEW n \in Nat \ {0}, IsWidth(v, m), v < Power(n)
    PROVE  m <= n
  <1> SUFFICES ASSUME n < m PROVE FALSE
    OBVIOUS
  <1>1. m - 1 \in Nat /\ n <= m - 1 /\ m # 1
    OBVIOUS
  <1>2. Power(n) <= Power(m - 1) /\ Power(n) \in Nat /\ Power(m - 1) \in Nat
    BY <1>1, PowersAscend, PowersGrow
  <1> QED BY <1>1, <1>2 DEF IsWidth

LEMMA DigitsAre ==
    ASSUME NEW v \in Nat
    PROVE  Digits(v) \in Nat \ {0} /\ IsWidth(v, Digits(v))
  <1> DEFINE S == {n \in Nat \ {0} : v < Power(n)}
  <1>1. v + 1 \in S
    <2>1. v + 1 \in Nat \ {0} /\ Power(v + 1) \in Nat /\ Power(v + 1) > v + 1
      BY PowersGrow
    <2> QED BY <2>1
  <1> HIDE DEF S
  <1>2. S \subseteq Nat /\ S # {}
    BY <1>1 DEF S
  <1>3. PICK n \in S : \A m \in S : n <= m
    BY <1>2, LeastNumber
  <1>4. n \in Nat \ {0} /\ v < Power(n) /\ n <= v + 1
    BY <1>1, <1>3 DEF S
  <1>5. CASE n # 1
    <2>1. n - 1 \in Nat \ {0} /\ ~ (n <= n - 1) /\ Power(n - 1) \in Nat
      BY <1>4, <1>5, PowersGrow
    <2>2. n - 1 \notin S
      BY <1>3, <2>1
    <2>3. Power(n - 1) <= v
      BY <2>1, <2>2 DEF S
    <2> QED BY <1>4, <2>3 DEF Digits, IsWidth
  <1> QED BY <1>4, <1>5 DEF Digits, IsWidth

\* What a field renders says its value, with the digits of the field.
LEMMA RenderFacts ==
    ASSUME NEW f \in FieldTexts, ~f.fixed => f.length = 0, f.fixed => f.max < Power(f.length),
           NEW v \in Nat, v <= f.max
    PROVE  Render(f, v).v = v /\ (f.fixed => Render(f, v).w = f.length)
  <1>1. f.length \in Nat /\ f.max \in Nat /\ f.fixed \in BOOLEAN /\ f.padRight = FALSE
    BY DEF FieldTexts
  <1>2. CASE ZeroLength(f)
    <2>1. v = 0
      BY <1>1, <1>2, Powers DEF ZeroLength
    <2> QED BY <1>1, <1>2, <2>1 DEF Render, Empty, ZeroLength
  <1>3. CASE ~ZeroLength(f) /\ ~f.fixed
    BY <1>1, <1>3 DEF Render
  <1>4. CASE ~ZeroLength(f) /\ f.fixed
    <2>1. f.length \in Nat \ {0} /\ v < Power(f.length) /\ Power(f.length) \in Nat
      BY <1>1, <1>4, PowersGrow DEF ZeroLength
    <2>2. Digits(v) \in Nat /\ Digits(v) <= f.length
      BY <2>1, DigitsAre, WidthIsOne
    <2> QED BY <1>1, <1>4, <2>1, <2>2 DEF Render
  <1> QED BY <1>2, <1>3, <1>4

Text == [w : Nat, v : Int]

\* A text that parses is what its value renders.
LEMMA ParsedRenders ==
    ASSUME NEW f \in FieldTexts, ~f.fixed => f.length = 0, f.fixed => f.max < Power(f.length),
           NEW t \in Text, t.v < Power(t.w), Parses(f, t)
    PROVE  t.v \in 0..f.max /\ Render(f, t.v) = t
  <1>1. f.length \in Nat /\ f.max \in Nat /\ f.fixed \in BOOLEAN /\ f.padRight = FALSE
    BY DEF FieldTexts
  <1>2. t = [w |-> t.w, v |-> t.v] /\ t.w \in Nat /\ t.v \in Int
    BY DEF Text
  <1>3. CASE ZeroLength(f)
    BY <1>1, <1>3 DEF Parses, Render, Empty
  <1>4. CASE ~ZeroLength(f)
    <2>1. t.v \in Nat /\ t.v <= f.max /\ t.w \in Nat \ {0}
      BY <1>1, <1>2, <1>4 DEF Parses
    <2>2. CASE f.fixed
      <3>1. t.w = f.length
        BY <1>4, <2>2 DEF Parses
      <3>2. Render(f, t.v).v = t.v /\ Render(f, t.v).w = f.length
        BY <2>1, <2>2, RenderFacts
      <3>3. \E w, v : Render(f, t.v) = [w |-> w, v |-> v]
        BY <1>1, <1>4 DEF Render
      <3> QED BY <1>2, <2>1, <3>1, <3>2, <3>3
    <2>3. CASE ~f.fixed
      <3>1. IsWidth(t.v, t.w)
        BY <1>4, <2>3 DEF Parses, IsWidth
      <3>2. Digits(t.v) \in Nat \ {0} /\ IsWidth(t.v, Digits(t.v))
        BY <2>1, DigitsAre
      <3>3. Digits(t.v) <= t.w /\ t.w <= Digits(t.v)
        BY <2>1, <3>1, <3>2, WidthIsOne DEF IsWidth
      <3>4. Digits(t.v) = t.w
        BY <2>1, <3>2, <3>3
      <3> QED BY <1>1, <1>2, <1>4, <2>1, <2>3, <3>4 DEF Render
    <2> QED BY <2>1, <2>2, <2>3
  <1> QED BY <1>3, <1>4

-----------------------------------------------------------------------------
(* Layouts                                                                 *)

OptionTypes ==
    [gcpLength : Nat, partition : Nat, binary : Seq(FieldSites), tag : Seq(FieldTexts),
     pure : Seq(FieldTexts), literals : SUBSET [at : Nat, len : Nat, value : Nat]]

\* A layout is an option, and the scheme it is an option of.
LEMMA LayoutOption ==
    ASSUME NEW x \in Layouts
    PROVE  x.s \in Definitions /\ \E o \in Options(x.s) : x = LayoutOf(x.s, o)
  <1>0. PICK d \in Definitions : \E o \in Options(d) : x = LayoutOf(d, o)
    BY DEF Layouts
  <1>1. PICK o \in Options(d) : x = LayoutOf(d, o)
    BY <1>0
  <1>2. x.s = d
    BY <1>1 DEF LayoutOf
  <1> QED BY <1>1, <1>2

\* It has as many texts as fields, the filter's and those of the identity.
LEMMA LayoutFacts ==
    ASSUME NEW x \in Layouts
    PROVE  /\ x.s \in Definitions /\ x.s.header \in Nat /\ x.s.tagLength \in Nat
           /\ x.binary \in Seq(FieldSites) /\ x.tag \in Seq(FieldTexts) /\ x.pure \in Seq(FieldTexts)
           /\ x.literals \subseteq Site /\ x.partition \in Nat /\ x.gcpLength \in Nat \ {0}
           /\ Len(x.binary) = Len(x.tag) /\ Len(x.tag) = Len(x.pure) + 1 /\ Len(x.tag) > 1
           /\ [at |-> 0, len |-> HeaderBits, value |-> x.s.header] \in x.literals
  <1>1. PICK o \in Options(x.s) : x = LayoutOf(x.s, o)
    BY LayoutOption
  <1>2. /\ x.gcpLength = o.gcpLength /\ x.partition = o.partition /\ x.literals = o.literals
        /\ x.binary = o.binary /\ x.tag = o.tag /\ x.pure = o.pure
    BY <1>1 DEF LayoutOf
  <1>3. x.s \in Definitions
    BY LayoutOption
  <1>4. /\ x.s.header \in Nat /\ x.s.tagLength \in Nat /\ o \in OptionTypes
    BY <1>3, LayoutAssumption DEF WellFormed, OptionTypes
  <1>5. /\ Len(o.binary) = Len(o.tag)
        /\ [at |-> 0, len |-> HeaderBits, value |-> x.s.header] \in o.literals
    BY <1>3, LayoutAssumption DEF SitesApart
  <1>6. Len(o.tag) > 1 /\ o.gcpLength > 0
    BY <1>3, LayoutAssumption DEF Rendered
  <1>7. Len(o.tag) = Len(o.pure) + 1
    BY <1>3, LayoutsAccepted DEF SchemeAccepted
  <1> QED BY <1>2, <1>3, <1>4, <1>5, <1>6, <1>7 DEF OptionTypes, Site

LEMMA LayoutSequences ==
    ASSUME NEW x \in Layouts
    PROVE  /\ DOMAIN x.binary = 1..Len(x.pure) + 1 /\ DOMAIN x.tag = 1..Len(x.pure) + 1
           /\ DOMAIN x.pure = 1..Len(x.pure) /\ Len(x.pure) \in Nat \ {0}
           /\ \A i \in DOMAIN x.binary : x.binary[i] \in FieldSites /\ x.tag[i] \in FieldTexts
           /\ \A i \in DOMAIN x.pure : x.pure[i] \in FieldTexts
  <1>1. /\ x.binary \in Seq(FieldSites) /\ x.tag \in Seq(FieldTexts) /\ x.pure \in Seq(FieldTexts)
        /\ Len(x.binary) = Len(x.tag) /\ Len(x.tag) = Len(x.pure) + 1 /\ Len(x.tag) > 1
    BY LayoutFacts
  <1> HIDE DEF FieldSites, FieldTexts
  <1>2. /\ DOMAIN x.binary = 1..Len(x.binary) /\ DOMAIN x.tag = 1..Len(x.tag)
        /\ DOMAIN x.pure = 1..Len(x.pure) /\ Len(x.pure) \in Nat
    BY <1>1
  <1>3. /\ \A i \in 1..Len(x.binary) : x.binary[i] \in FieldSites
        /\ \A i \in 1..Len(x.tag) : x.tag[i] \in FieldTexts
        /\ \A i \in 1..Len(x.pure) : x.pure[i] \in FieldTexts
    BY <1>1
  <1> QED BY <1>1, <1>2, <1>3

\* They lie apart, within the tag, and have room for what they carry.
LEMMA LayoutSites ==
    ASSUME NEW x \in Layouts
    PROVE  /\ \A l \in x.literals : /\ l.at + l.len <= x.s.tagLength /\ l.value < 2 ^ l.len
                                    /\ \A m \in x.literals : l = m \/ Apart(l, m)
                                    /\ \A i \in DOMAIN x.binary : Apart(l, x.binary[i])
           /\ \A i, j \in DOMAIN x.binary : i < j => x.binary[i].at + x.binary[i].len <= x.binary[j].at
           /\ \A i \in DOMAIN x.binary : /\ x.binary[i] \in FieldSites /\ x.tag[i] \in FieldTexts
                                         /\ x.binary[i].at + x.binary[i].len <= x.s.tagLength
                                         /\ x.binary[i].max = x.tag[i].max
                                         /\ x.binary[i].max < 2 ^ x.binary[i].len
                                         /\ x.tag[i].fixed => x.tag[i].max < Power(x.tag[i].length)
                                         /\ ~x.tag[i].fixed => x.tag[i].length = 0
  <1>1. PICK o \in Options(x.s) : x = LayoutOf(x.s, o)
    BY LayoutOption
  <1>2. x.literals = o.literals /\ x.binary = o.binary /\ x.tag = o.tag
    BY <1>1 DEF LayoutOf
  <1>3. x.s \in Definitions
    BY LayoutOption
  <1>4. DOMAIN x.binary = DOMAIN x.tag
    BY LayoutSequences
  <1>5. \A i \in DOMAIN x.binary : x.binary[i] \in FieldSites /\ x.tag[i] \in FieldTexts
    BY LayoutSequences
  <1>6. \A l \in o.literals :
          /\ l.at + l.len <= x.s.tagLength /\ l.value < 2 ^ l.len
          /\ \A m \in o.literals : l = m \/ Apart(l, m)
          /\ \A i \in DOMAIN o.binary : Apart(l, o.binary[i])
    BY <1>3, LayoutAssumption DEF SitesApart
  <1>7. /\ \A i, j \in DOMAIN o.binary : i < j => o.binary[i].at + o.binary[i].len <= o.binary[j].at
        /\ \A i \in DOMAIN o.binary : o.binary[i].at + o.binary[i].len <= x.s.tagLength
    BY <1>3, LayoutAssumption DEF SitesApart
  <1>8. \A i \in DOMAIN o.tag :
          /\ o.binary[i].max = o.tag[i].max /\ o.binary[i].max < 2 ^ o.binary[i].len
          /\ o.tag[i].fixed => o.tag[i].max < Power(o.tag[i].length)
    BY <1>3, LayoutAssumption DEF MaximaHold
  <1>9. \A i \in DOMAIN o.tag : ~o.tag[i].fixed => o.tag[i].length = 0
    BY <1>3, LayoutAssumption DEF Rendered
  <1> QED BY <1>2, <1>4, <1>5, <1>6, <1>7, <1>8, <1>9

\* A scheme and a partition, or a length of the company prefix, select a layout.
LEMMA LayoutSelected ==
    ASSUME NEW x \in Layouts, NEW y \in Layouts, x.s = y.s,
           x.partition = y.partition \/ x.gcpLength = y.gcpLength
    PROVE  x = y
  <1>1. PICK o \in Options(x.s) : x = LayoutOf(x.s, o)
    BY LayoutOption
  <1>2. PICK q \in Options(x.s) : y = LayoutOf(x.s, q)
    BY LayoutOption
  <1>3. x.s \in Definitions
    BY LayoutOption
  <1>4. o.partition = q.partition \/ o.gcpLength = q.gcpLength
    BY <1>1, <1>2 DEF LayoutOf
  <1>5. o = q
    BY <1>3, <1>4, LayoutAssumption DEF SelectorsDistinct
  <1> QED BY <1>1, <1>2, <1>5

\* What a field of a layout carries, at its site.
FieldPins(x, values, I) ==
    {[at |-> x.binary[i].at, len |-> x.binary[i].len, value |-> values[i]] : i \in I}

\* Literals and the values of fields can be written together.
LEMMA FieldsPinned ==
    ASSUME NEW x \in Layouts, NEW I, I \subseteq DOMAIN x.binary,
           NEW values, \A i \in I : values[i] \in Nat /\ values[i] <= x.binary[i].max
    PROVE  Pinned(x.literals \cup FieldPins(x, values, I), x.s.tagLength)
  <1>1. ASSUME NEW i \in I
        PROVE  /\ x.binary[i].at \in Nat /\ x.binary[i].len \in Nat /\ x.binary[i].max \in Nat
               /\ x.binary[i].at + x.binary[i].len <= x.s.tagLength
               /\ values[i] < 2 ^ x.binary[i].len
    <2>1. i \in DOMAIN x.binary
      OBVIOUS
    <2>2. x.binary[i] \in FieldSites /\ x.binary[i].at + x.binary[i].len <= x.s.tagLength
          /\ x.binary[i].max < 2 ^ x.binary[i].len
      BY <2>1, LayoutSites
    <2>3. x.binary[i].len \in Nat /\ 2 ^ x.binary[i].len \in Nat
      BY <2>2, TwoDoubles DEF FieldSites
    <2> QED BY <2>2, <2>3 DEF FieldSites
  <1>2. ASSUME NEW i \in I, NEW j \in I, i # j PROVE Apart(x.binary[i], x.binary[j])
    <2>1. i \in Nat /\ j \in Nat /\ i \in DOMAIN x.binary /\ j \in DOMAIN x.binary
      BY LayoutSequences
    <2>2. i < j \/ j < i
      BY <1>2, <2>1
    <2> QED BY <2>1, <2>2, LayoutSites DEF Apart
  <1>3. FieldPins(x, values, I) \subseteq Site
    BY <1>1 DEF FieldPins, Site
  <1>4. x.literals \subseteq Site
    BY LayoutFacts
  <1>5. \A l \in x.literals : l.at + l.len <= x.s.tagLength /\ l.value < 2 ^ l.len
    BY LayoutSites
  <1>6. \A l \in FieldPins(x, values, I) : l.at + l.len <= x.s.tagLength /\ l.value < 2 ^ l.len
    BY <1>1 DEF FieldPins
  <1>7. \A l \in FieldPins(x, values, I), m \in FieldPins(x, values, I) : l = m \/ Apart(l, m)
    <2> SUFFICES ASSUME NEW i \in I, NEW j \in I
                 PROVE  LET l == [at |-> x.binary[i].at, len |-> x.binary[i].len, value |-> values[i]]
                            m == [at |-> x.binary[j].at, len |-> x.binary[j].len, value |-> values[j]]
                        IN l = m \/ Apart(l, m)
      BY DEF FieldPins
    <2> QED BY <1>2 DEF Apart
  <1>8. \A l \in x.literals, m \in FieldPins(x, values, I) : Apart(l, m) /\ Apart(m, l)
    <2> SUFFICES ASSUME NEW l \in x.literals, NEW i \in I
                 PROVE  LET m == [at |-> x.binary[i].at, len |-> x.binary[i].len, value |-> values[i]]
                        IN Apart(l, m) /\ Apart(m, l)
      BY DEF FieldPins
    <2>1. Apart(l, x.binary[i])
      BY LayoutSites
    <2> QED BY <2>1 DEF Apart
  <1>9. \A l \in x.literals, m \in x.literals : l = m \/ Apart(l, m)
    BY LayoutSites
  <1> QED BY <1>3, <1>4, <1>5, <1>6, <1>7, <1>8, <1>9 DEF Pinned

\* The text of a field is the same in a tag and in an identity.
LEMMA LayoutRenderings ==
    ASSUME NEW x \in Layouts, NEW i \in DOMAIN x.pure
    PROVE  SameRendering(x.tag[i + 1], x.pure[i])
  <1>1. PICK o \in Options(x.s) : x = LayoutOf(x.s, o)
    BY LayoutOption
  <1>2. x.s \in Definitions /\ x.tag = o.tag /\ x.pure = o.pure
    BY <1>1, LayoutOption DEF LayoutOf
  <1> QED BY <1>2, LayoutsAccepted DEF SchemeAccepted

LEMMA LayoutSizes ==
    ASSUME NEW x \in Layouts
    PROVE  x.s.tagLength \in Nat /\ HeaderBits \in Nat /\ HeaderBits <= x.s.tagLength
  <1>1. x.s.tagLength \in Nat /\ HeaderBits \in Nat
    BY LayoutFacts, LayoutAssumption
  <1>2. PICK l \in x.literals : l.at = 0 /\ l.len = HeaderBits
    BY LayoutFacts
  <1>3. l.at + l.len <= x.s.tagLength
    BY LayoutSites
  <1> QED BY <1>1, <1>2, <1>3

-----------------------------------------------------------------------------
(* Decoding                                                                *)

LEMMA SameRead ==
    ASSUME NEW bits, NEW other, NEW at \in Nat, NEW n \in Nat,
           \A i \in 1..n : bits[at + i] \in {0, 1} /\ other[at + i] = bits[at + i]
    PROVE  BitsAt(bits, at, n) = BitsAt(other, at, n)
  <1>1. HasBits(bits, at, n, BitsAt(bits, at, n))
    BY BitsAtBits
  <1>2. HasBits(other, at, n, BitsAt(bits, at, n))
    <2>1. PICK v : v = BitsAt(bits, at, n)
      OBVIOUS
    <2>2. v \in Nat /\ v < 2 ^ n /\ \A i \in 1..n : bits[at + i] = BitOf(v, n, i)
      BY <1>1, <2>1 DEF HasBits
    <2>3. \A i \in 1..n : other[at + i] = BitOf(v, n, i)
      BY <2>2
    <2> QED BY <2>1, <2>2, <2>3 DEF HasBits
  <1> QED BY <1>2, BitsAtValue

\* The bits of a layout say its literals and values, whatever follows them.
LEMMA ReadWithin ==
    ASSUME NEW x \in Layouts, NEW bits, NEW other,
           \A b \in 1..x.s.tagLength : bits[b] \in {0, 1} /\ other[b] = bits[b]
    PROVE  /\ Values(x, bits) = Values(x, other) /\ LiteralsHold(x, bits) <=> LiteralsHold(x, other)
           /\ DOMAIN Values(x, bits) = DOMAIN x.binary
           /\ \A i \in DOMAIN x.binary : Values(x, bits)[i] \in Nat
  <1>1. x.s.tagLength \in Nat
    BY LayoutFacts
  <1>2. ASSUME NEW at \in Nat, NEW n \in Nat, at + n <= x.s.tagLength
        PROVE  BitsAt(bits, at, n) = BitsAt(other, at, n) /\ BitsAt(bits, at, n) \in Nat
    <2>1. \A i \in 1..n : at + i \in 1..x.s.tagLength
      BY <1>1, <1>2
    <2>2. HasBits(bits, at, n, BitsAt(bits, at, n))
      BY <2>1, BitsAtBits
    <2>3. BitsAt(bits, at, n) \in Nat
      BY <2>2 DEF HasBits
    <2>4. ASSUME NEW i \in 1..n PROVE bits[at + i] \in {0, 1} /\ other[at + i] = bits[at + i]
      BY <2>1
    <2>5. BitsAt(bits, at, n) = BitsAt(other, at, n)
      BY <2>4, SameRead
    <2> QED BY <2>3, <2>5
  <1>3. \A i \in DOMAIN x.binary : /\ x.binary[i].at \in Nat /\ x.binary[i].len \in Nat
                                   /\ x.binary[i].at + x.binary[i].len <= x.s.tagLength
    BY LayoutSites DEF FieldSites
  <1>4. \A l \in x.literals : l.at \in Nat /\ l.len \in Nat /\ l.at + l.len <= x.s.tagLength
    BY LayoutFacts, LayoutSites DEF Site
  <1>5. \A i \in DOMAIN x.binary :
          /\ BitsAt(bits, x.binary[i].at, x.binary[i].len) = BitsAt(other, x.binary[i].at, x.binary[i].len)
          /\ BitsAt(bits, x.binary[i].at, x.binary[i].len) \in Nat
    BY <1>2, <1>3
  <1>6. \A l \in x.literals : BitsAt(bits, l.at, l.len) = BitsAt(other, l.at, l.len)
    BY <1>2, <1>4
  <1> QED BY <1>5, <1>6 DEF Values, LiteralsHold

\* The header says the scheme, and the partition the layout.
LEMMA LiteralsSelect ==
    ASSUME NEW x \in Layouts, NEW bits, LiteralsHold(x, bits)
    PROVE  ByHeader(bits) = {x.s} /\ ByPartition(x.s, bits) = {x}
  <1>1. PICK o \in Options(x.s) : x = LayoutOf(x.s, o)
    BY LayoutOption
  <1>2. x.s \in Definitions /\ x.literals = o.literals /\ x.partition = o.partition
    BY <1>1, LayoutOption DEF LayoutOf
  <1>3. BitsAt(bits, 0, HeaderBits) = x.s.header
    BY LayoutFacts DEF LiteralsHold
  <1>4. ByHeader(bits) = {x.s}
    BY <1>2, <1>3, LayoutAssumption DEF ByHeader, SelectorsDistinct
  <1> DEFINE sites == UNION {PartitionSites(q) : q \in Options(x.s)}
             site == CHOOSE z \in sites : TRUE
  <1>5. \A q \in Options(x.s) : PartitionSites(q) = PartitionSites(o) /\ PartitionSites(q) # {}
    BY <1>2, LayoutsAccepted DEF SchemeAccepted
  <1>6. site \in PartitionSites(o)
    <2>1. sites = PartitionSites(o) /\ sites # {}
      BY <1>5
    <2> HIDE DEF sites
    <2> QED BY <2>1
  <1>7. PartitionAt(x.s, bits) = BitsAt(bits, site[1], site[2])
    BY DEF PartitionAt
  <1> HIDE DEF site
  <1>8. PICK l \in o.literals : site = <<l.at, l.len>>
    BY <1>6 DEF PartitionSites
  <1>9. l.value = o.partition
    BY <1>2, <1>6, <1>8, LayoutAssumption DEF SitesApart
  <1>10. PartitionAt(x.s, bits) = x.partition
    BY <1>2, <1>7, <1>8, <1>9 DEF LiteralsHold
  <1>11. \A y \in Layouts : y.s = x.s /\ y.partition = x.partition => y = x
    BY LayoutSelected
  <1> QED BY <1>4, <1>10, <1>11 DEF ByPartition

\* t says what its bits say at layout x.
ReadsAs(t, x) ==
    /\ t.bits \in [1..x.s.tagLength -> {0, 1}]
    /\ LiteralsHold(x, t.bits) /\ WithinMaxima(x, Values(x, t.bits))
    /\ t = Translated(x, Values(x, t.bits), t.bits)

\* Whatever is decoded says what its bits say.
LEMMA DecodedReads ==
    ASSUME NEW bits \in Seq({0, 1}), NEW n \in Nat, NEW t \in Decode(bits, n)
    PROVE  \E x \in Layouts : ReadsAs(t, x)
  <1> DEFINE d == CHOOSE y \in ByHeader(bits) : TRUE
             x == CHOOSE y \in ByPartition(d, bits) : TRUE
  <1>1. DecodeRefusal(bits, n) = ""
    BY DEF Decode
  <1>2. /\ ~ (n < HeaderBits \/ Len(bits) < n) /\ ByHeader(bits) # {} /\ ~ (n < d.tagLength)
        /\ ByPartition(d, bits) # {} /\ LiteralsHold(x, bits) /\ WithinMaxima(x, Values(x, bits))
    BY <1>1 DEF DecodeRefusal
  <1>3. x \in ByPartition(d, bits)
    BY <1>2
  <1> HIDE DEF d, x
  <1>4. x \in Layouts /\ x.s = d
    BY <1>3 DEF ByPartition
  <1>5. ByHeader(bits) = {x.s} /\ ByPartition(x.s, bits) = {x}
    BY <1>2, <1>4, LiteralsSelect
  <1>6. UNION {ByPartition(e, bits) : e \in ByHeader(bits)} = {x}
    BY <1>5
  <1>7. t = Translated(x, Values(x, bits), SubSeq(bits, 1, x.s.tagLength))
    BY <1>1, <1>6 DEF Decode
  <1>8. x.s.tagLength \in Nat /\ x.s.tagLength <= Len(bits)
    <2>1. x.s.tagLength \in Nat /\ Len(bits) \in Nat
      BY <1>4, LayoutSizes
    <2> QED BY <1>2, <1>4, <2>1
  <1> DEFINE own == SubSeq(bits, 1, x.s.tagLength)
  <1>9. own \in [1..x.s.tagLength -> {0, 1}] /\ \A b \in 1..x.s.tagLength : own[b] = bits[b]
    <2>1. PICK k \in Nat : k = x.s.tagLength /\ k <= Len(bits)
      BY <1>8
    <2>2. SubSeq(bits, 1, k) \in [1..k -> {0, 1}] /\ \A b \in 1..k : SubSeq(bits, 1, k)[b] = bits[b]
      <3>1. /\ SubSeq(bits, 1, k) \in Seq({0, 1}) /\ Len(SubSeq(bits, 1, k)) = k
            /\ \A b \in 1..k : SubSeq(bits, 1, k)[b] = bits[b]
        BY <2>1
      <3>2. PICK z \in Seq({0, 1}) : z = SubSeq(bits, 1, k)
        BY <3>1
      <3>3. z \in [1..Len(z) -> {0, 1}]
        OBVIOUS
      <3> QED BY <3>1, <3>2, <3>3
    <2> QED BY <2>1, <2>2
  <1>10. t.bits = own
    BY <1>7 DEF Translated
  <1> HIDE DEF own
  <1>11. Values(x, own) = Values(x, bits) /\ LiteralsHold(x, own)
    BY <1>2, <1>4, <1>9, ReadWithin
  <1>12. ReadsAs(t, x)
    BY <1>2, <1>7, <1>9, <1>10, <1>11 DEF ReadsAs, own
  <1> QED BY <1>4, <1>12

\* And what says what its bits say is what they decode to.
LEMMA ReadingDecodes ==
    ASSUME NEW x \in Layouts, NEW t, ReadsAs(t, x)
    PROVE  Decode(t.bits, t.bitLen) = {t}
  <1>1. ByHeader(t.bits) = {x.s} /\ ByPartition(x.s, t.bits) = {x}
    BY LiteralsSelect DEF ReadsAs
  <1>2. x.s.tagLength \in Nat /\ HeaderBits \in Nat /\ HeaderBits <= x.s.tagLength
    BY LayoutSizes
  <1>3. t.bitLen = x.s.tagLength
    BY DEF ReadsAs, Translated
  <1>4. t.bits \in Seq({0, 1}) /\ Len(t.bits) = x.s.tagLength /\ SubSeq(t.bits, 1, x.s.tagLength) = t.bits
    BY <1>2 DEF ReadsAs
  <1> DEFINE d == CHOOSE y \in ByHeader(t.bits) : TRUE
             z == CHOOSE y \in ByPartition(d, t.bits) : TRUE
  <1>5. d = x.s /\ z = x
    <2>1. d = x.s
      BY <1>1
    <2> HIDE DEF d
    <2> QED BY <1>1, <2>1
  <1>6. DecodeRefusal(t.bits, t.bitLen) = ""
    <2>1. DecodeRefusal(t.bits, t.bitLen) =
            (IF t.bitLen < HeaderBits \/ Len(t.bits) < t.bitLen THEN "truncated"
             ELSE IF ByHeader(t.bits) = {} THEN "unknown header"
             ELSE IF t.bitLen < d.tagLength THEN "truncated"
             ELSE IF ByPartition(d, t.bits) = {} THEN "unknown partition"
             ELSE IF ~LiteralsHold(z, t.bits) THEN "reserved bits"
             ELSE IF ~WithinMaxima(z, Values(z, t.bits)) THEN "field value"
             ELSE "")
      BY DEF DecodeRefusal
    <2> HIDE DEF d, z
    <2>2. ~ (t.bitLen < HeaderBits) /\ ~ (Len(t.bits) < t.bitLen) /\ ~ (t.bitLen < x.s.tagLength)
      BY <1>2, <1>3, <1>4
    <2>3. LiteralsHold(x, t.bits) /\ WithinMaxima(x, Values(x, t.bits))
      BY DEF ReadsAs
    <2> QED BY <1>1, <1>5, <2>1, <2>2, <2>3
  <1>7. UNION {ByPartition(e, t.bits) : e \in ByHeader(t.bits)} = {x}
    BY <1>1
  <1>8. t = Translated(x, Values(x, t.bits), SubSeq(t.bits, 1, x.s.tagLength))
    BY <1>4 DEF ReadsAs
  <1> QED BY <1>6, <1>7, <1>8 DEF Decode

-----------------------------------------------------------------------------
(* Encoding                                                                *)

\* The text of a value that its field has room for.
LEMMA RenderedText ==
    ASSUME NEW f \in FieldTexts, NEW v \in Nat
    PROVE  Render(f, v) \in Text
  <1>1. f.length \in Nat /\ f.padRight = FALSE
    BY DEF FieldTexts
  <1>2. Digits(v) \in Nat
    BY DigitsAre
  <1> QED BY <1>1, <1>2 DEF Render, Text, Empty

\* What follows the first of a sequence.
LEMMA TailIs ==
    ASSUME NEW S, NEW n \in Nat, NEW f \in [1..n + 1 -> S]
    PROVE  /\ f \in Seq(S) /\ Len(f) = n + 1 /\ Tail(f) \in Seq(S) /\ Len(Tail(f)) = n
           /\ Tail(f) \in [1..n -> S] /\ \A i \in 1..n : Tail(f)[i] = f[i + 1]
  <1>0. PICK k \in Nat : k = n + 1
    OBVIOUS
  <1>1. f \in [1..k -> S]
    BY <1>0
  <1>2. f \in Seq(S) /\ Len(f) = k
    BY <1>1
  <1> DEFINE g == f
  <1>3. Tail(g) \in Seq(S) /\ Len(Tail(g)) = n /\ \A i \in 1..n : Tail(g)[i] = g[i + 1]
    BY <1>0, <1>2
  <1>4. PICK h \in Seq(S) : h = Tail(g)
    BY <1>3
  <1>5. h \in [1..Len(h) -> S]
    OBVIOUS
  <1> QED BY <1>0, <1>2, <1>3, <1>4, <1>5

\* The fields of a tag that says what its bits say.
LEMMA ReadingFields ==
    ASSUME NEW x \in Layouts, NEW t, ReadsAs(t, x)
    PROVE  /\ t.fields \in [DOMAIN x.binary -> Text] /\ t.fields \in Seq(Text)
           /\ \A i \in DOMAIN x.binary : /\ t.fields[i] = Render(x.tag[i], Values(x, t.bits)[i])
                                         /\ Values(x, t.bits)[i] \in Nat
                                         /\ Values(x, t.bits)[i] <= x.binary[i].max
           /\ t.components = Tail(t.fields) /\ t.components \in [DOMAIN x.pure -> Text]
           /\ t.components \in Seq(Text)
           /\ \A i \in DOMAIN x.pure : t.components[i] = t.fields[i + 1]
           /\ t.scheme = x.s.id /\ t.toggle = FALSE /\ t.domain = <<"gs1", x.s.keyType>>
           /\ t.bitLen = x.s.tagLength
  <1>1. \A b \in 1..x.s.tagLength : t.bits[b] \in {0, 1}
    BY DEF ReadsAs
  <1>2. /\ DOMAIN Values(x, t.bits) = DOMAIN x.binary
        /\ \A i \in DOMAIN x.binary : Values(x, t.bits)[i] \in Nat
    BY <1>1, ReadWithin
  <1>3. \A i \in DOMAIN x.binary : Values(x, t.bits)[i] <= x.binary[i].max
    BY <1>2 DEF ReadsAs, WithinMaxima
  <1>4. t.fields = [i \in DOMAIN x.binary |-> Render(x.tag[i], Values(x, t.bits)[i])]
    BY <1>2 DEF ReadsAs, Translated
  <1>5. \A i \in DOMAIN x.binary : Render(x.tag[i], Values(x, t.bits)[i]) \in Text
    BY <1>2, LayoutSequences, RenderedText
  <1>6. t.fields \in [DOMAIN x.binary -> Text]
    BY <1>4, <1>5
  <1>7. /\ t.components = Tail(t.fields) /\ t.scheme = x.s.id /\ t.toggle = FALSE
        /\ t.domain = <<"gs1", x.s.keyType>> /\ t.bitLen = x.s.tagLength
    <2> DEFINE values == Values(x, t.bits)
               fields == [i \in DOMAIN values |-> Render(x.tag[i], values[i])]
    <2>1. t = [domain |-> <<"gs1", x.s.keyType>>, components |-> Tail(fields),
               scheme |-> x.s.id, bitLen |-> x.s.tagLength, bits |-> t.bits, fields |-> fields,
               filter |-> values[1], toggle |-> FALSE, afi |-> 0]
      BY DEF ReadsAs, Translated
    <2> HIDE DEF fields
    <2>2. t.fields = fields
      BY <2>1
    <2> QED BY ONLY <2>1, <2>2
  <1>8. DOMAIN x.binary = 1..Len(x.pure) + 1 /\ DOMAIN x.pure = 1..Len(x.pure) /\ Len(x.pure) \in Nat
    BY LayoutSequences
  <1>9. /\ t.fields \in Seq(Text) /\ t.components \in [1..Len(x.pure) -> Text] /\ t.components \in Seq(Text)
        /\ \A i \in 1..Len(x.pure) : t.components[i] = t.fields[i + 1]
    <2>1. PICK m \in Nat : m = Len(x.pure)
      BY <1>8
    <2>2. t.fields \in [1..m + 1 -> Text] /\ t.components = Tail(t.fields)
      BY <1>6, <1>7, <1>8, <2>1
    <2>3. /\ t.fields \in Seq(Text) /\ Tail(t.fields) \in [1..m -> Text] /\ Tail(t.fields) \in Seq(Text)
          /\ \A i \in 1..m : Tail(t.fields)[i] = t.fields[i + 1]
      BY <2>2, TailIs
    <2> QED BY <2>1, <2>2, <2>3
  <1> QED BY <1>2, <1>3, <1>4, <1>6, <1>7, <1>8, <1>9

\* The values Encode writes: the filter, and what the components say.
ValuesOf(components, filter) == <<filter>> \o [i \in DOMAIN components |-> components[i].v]

LEMMA ValuesWritten ==
    ASSUME NEW components \in Seq(Text), NEW filter \in Nat
    PROVE  /\ DOMAIN ValuesOf(components, filter) = 1..Len(components) + 1
           /\ ValuesOf(components, filter)[1] = filter
           /\ \A i \in DOMAIN components : ValuesOf(components, filter)[i + 1] = components[i].v
           /\ DOMAIN components = 1..Len(components) /\ Len(components) \in Nat
  <1>1. DOMAIN components = 1..Len(components) /\ Len(components) \in Nat
    OBVIOUS
  <1>2. \A i \in 1..Len(components) : components[i].v \in Int
    <2>1. \A i \in 1..Len(components) : components[i] \in Text
      OBVIOUS
    <2> QED BY <2>1 DEF Text
  <1>3. PICK rest \in Seq(Int) : rest = [i \in DOMAIN components |-> components[i].v]
    <2>1. [i \in DOMAIN components |-> components[i].v] \in [1..Len(components) -> Int]
      BY <1>1, <1>2
    <2>2. \A f \in [1..Len(components) -> Int] : f \in Seq(Int)
      BY <1>1
    <2> QED BY <2>1, <2>2
  <1>4. Len(rest) = Len(components)
    BY <1>1, <1>3
  <1>5. PICK one \in Seq(Int) : one = <<filter>> /\ Len(one) = 1 /\ one[1] = filter
    <2>1. <<filter>> \in Seq(Int) /\ Len(<<filter>>) = 1
      OBVIOUS
    <2> QED BY <2>1
  <1>6. /\ one \o rest \in Seq(Int) /\ Len(one \o rest) = Len(components) + 1
        /\ (one \o rest)[1] = filter
        /\ \A i \in 1..Len(components) : (one \o rest)[i + 1] = rest[i]
    BY <1>1, <1>4, <1>5
  <1>7. DOMAIN (one \o rest) = 1..Len(one \o rest)
    BY <1>6
  <1> QED BY <1>1, <1>3, <1>5, <1>6, <1>7 DEF ValuesOf

\* Whatever is encoded says what its bits say, and names what it was made for.
LEMMA EncodedReads ==
    ASSUME NEW v, v.components \in Seq(Text), NEW id, NEW filter \in Nat, NEW t \in Encode(v, id, filter)
    PROVE  \E x \in Layouts : /\ ReadsAs(t, x) /\ x.s.id = id
                              /\ t.domain = v.domain /\ t.components = v.components /\ t.filter = filter
  <1> DEFINE values == ValuesOf(v.components, filter)
             Fields(x) == FieldPins(x, values, DOMAIN values)
             Fits(x) == /\ x.s.id = id
                        /\ v.domain = <<"gs1", x.s.keyType>>
                        /\ Canonical(x, v.components)
                        /\ filter <= x.tag[1].max
                        /\ WithinMaxima(x, values)
  <1>1. Encode(v, id, filter) =
          {Translated(x, values, SetBits(Zeros(x.s.tagLength), x.literals \cup Fields(x))) :
              x \in {y \in Layouts : Fits(y)}}
    BY DEF Encode, ValuesOf, FieldPins
  <1>2. PICK x \in Layouts : /\ Fits(x)
                             /\ t = Translated(x, values, SetBits(Zeros(x.s.tagLength), x.literals \cup Fields(x)))
    BY <1>1
  <1> DEFINE pins == x.literals \cup Fields(x)
             bits == SetBits(Zeros(x.s.tagLength), pins)
  <1>3. /\ DOMAIN values = 1..Len(v.components) + 1 /\ values[1] = filter
        /\ \A i \in DOMAIN v.components : values[i + 1] = v.components[i].v
        /\ DOMAIN v.components = 1..Len(v.components) /\ Len(v.components) \in Nat
    BY ValuesWritten
  <1>4. /\ DOMAIN x.binary = 1..Len(x.pure) + 1 /\ DOMAIN x.tag = 1..Len(x.pure) + 1
        /\ DOMAIN x.pure = 1..Len(x.pure) /\ Len(x.pure) \in Nat
    BY LayoutSequences
  <1>5. Len(v.components) = Len(x.pure) /\ DOMAIN values = DOMAIN x.binary
    BY <1>2, <1>3, <1>4 DEF Canonical
  <1>6. \A i \in DOMAIN x.pure : /\ Parses(x.pure[i], v.components[i])
                                 /\ Render(x.pure[i], v.components[i].v) = v.components[i]
                                 /\ v.components[i] \in Text
    BY <1>2, <1>3, <1>4, <1>5 DEF Canonical
  <1>7. \A i \in DOMAIN x.pure : v.components[i].v \in Nat
    BY <1>6 DEF Parses, Text, Empty
  <1> HIDE DEF values
  <1>8. ASSUME NEW i \in DOMAIN x.binary PROVE values[i] \in Nat /\ values[i] <= x.binary[i].max
    <2>1. values[i] <= x.binary[i].max
      BY <1>2, <1>5 DEF WithinMaxima
    <2>2. CASE i = 1
      BY <1>3, <2>1, <2>2
    <2>3. CASE i # 1
      <3>1. PICK j \in DOMAIN x.pure : i = j + 1
        <4>1. i - 1 \in DOMAIN x.pure /\ i = (i - 1) + 1
          BY <1>4, <2>3
        <4> QED BY <4>1
      <3> QED BY <1>3, <1>4, <1>5, <1>7, <2>1, <3>1
    <2> QED BY <2>2, <2>3
  <1>9. Pinned(pins, x.s.tagLength)
    BY <1>5, <1>8, FieldsPinned
  <1>10. x.s.tagLength \in Nat
    BY LayoutSizes
  <1>11. \A l \in pins : BitsAt(bits, l.at, l.len) = l.value
    <2> HIDE DEF pins
    <2> QED BY <1>9, <1>10, WrittenIsRead
  <1>12. bits \in [1..x.s.tagLength -> {0, 1}]
    BY DEF SetBits, Zeros
  <1> HIDE DEF bits
  <1>13. LiteralsHold(x, bits)
    BY <1>11 DEF LiteralsHold
  <1>14. ASSUME NEW i \in DOMAIN x.binary PROVE BitsAt(bits, x.binary[i].at, x.binary[i].len) = values[i]
    <2>1. [at |-> x.binary[i].at, len |-> x.binary[i].len, value |-> values[i]] \in pins
      BY <1>5 DEF FieldPins
    <2> HIDE DEF pins
    <2>2. PICK l \in pins : l.at = x.binary[i].at /\ l.len = x.binary[i].len /\ l.value = values[i]
      BY <2>1
    <2> QED BY <1>11, <2>2
  <1>15. Values(x, bits) = values
    <2>1. values = [i \in DOMAIN x.binary |-> values[i]]
      <3>1. values = [i \in DOMAIN values |-> values[i]]
        BY DEF values, ValuesOf
      <3> QED BY <1>5, <3>1
    <2> QED BY <1>14, <2>1 DEF Values
  <1>16. t = Translated(x, values, bits)
    BY <1>2 DEF bits
  <1>17. t.bits = bits
    BY <1>16 DEF Translated
  <1>18. ReadsAs(t, x)
    BY <1>2, <1>12, <1>13, <1>15, <1>16, <1>17 DEF ReadsAs
  <1>19. t.filter = filter /\ t.domain = v.domain
    BY <1>2, <1>3, <1>16 DEF Translated
  <1>20. t.components = v.components
    <2>1. /\ \A i \in DOMAIN x.binary : t.fields[i] = Render(x.tag[i], values[i])
          /\ t.components \in [DOMAIN x.pure -> Text] /\ \A i \in DOMAIN x.pure : t.components[i] = t.fields[i + 1]
      BY <1>15, <1>17, <1>18, ReadingFields
    <2>2. ASSUME NEW i \in DOMAIN x.pure PROVE t.components[i] = v.components[i]
      <3>1. i + 1 \in DOMAIN x.binary
        BY <1>4
      <3>2. t.components[i] = Render(x.tag[i + 1], v.components[i].v)
        BY <1>3, <1>4, <1>5, <2>1, <3>1
      <3>3. SameRendering(x.tag[i + 1], x.pure[i])
        BY LayoutRenderings
      <3>4. Render(x.tag[i + 1], v.components[i].v) = Render(x.pure[i], v.components[i].v)
        BY <3>3 DEF SameRendering, Render, ZeroLength
      <3> QED BY <1>6, <3>2, <3>4
    <2>3. v.components \in [DOMAIN x.pure -> Text]
      BY <1>3, <1>4, <1>5
    <2> QED BY <2>1, <2>2, <2>3
  <1> QED BY <1>2, <1>18, <1>19, <1>20

\* Encode and Decode agree: the bits Encode writes decode to one tag, its own,
\* which names what was encoded, with the filter it was given.
THEOREM EncodedDecodes ==
    ASSUME NEW v, v.components \in Seq(Text), NEW id, NEW filter \in Nat, NEW t \in Encode(v, id, filter)
    PROVE  /\ Decode(t.bits, t.bitLen) = {t}
           /\ t.domain = v.domain /\ t.components = v.components /\ t.filter = filter
  <1>1. PICK x \in Layouts : /\ ReadsAs(t, x) /\ t.domain = v.domain
                             /\ t.components = v.components /\ t.filter = filter
    BY EncodedReads
  <1> QED BY <1>1, ReadingDecodes

-----------------------------------------------------------------------------
(* What a tag can be                                                       *)

\* A tag is an ISO tag of the register, or says what its bits say at a layout.
Known(t) ==
    \/ t.toggle = TRUE /\ \E c \in Constructs : t.scheme = c.scheme
    \/ \E x \in Layouts : ReadsAs(t, x)

LEMMA DecodedISO ==
    ASSUME NEW bits, NEW n, NEW afi, NEW t \in DecodeISO(bits, n, afi)
    PROVE  Known(t)
  <1>1. PICK c \in Constructs : \E v, b : t = ISOTranslated(v, c.scheme, b, n, afi)
    BY DEF DecodeISO
  <1> QED BY <1>1 DEF Known, ISOTranslated

LEMMA EncodedISO ==
    ASSUME NEW v, NEW scheme, NEW t \in EncodeISO(v, scheme)
    PROVE  Known(t)
  <1>1. PICK c \in Constructs : /\ \E b, n : t = ISOTranslated(v, scheme, b, n, c.afi)
                                /\ c.afi \in CurrentAFI(scheme)
    BY DEF EncodeISO
  <1>2. PICK e \in Constructs : e.scheme = scheme
    BY <1>1 DEF CurrentAFI
  <1> QED BY <1>1, <1>2 DEF Known, ISOTranslated

LEMMA TranslatedKnown ==
    ASSUME NEW in, in.bits \in Seq({0, 1}), in.bitLen \in Nat,
           in.hasPC \in BOOLEAN, in.pc.words \in Nat,
           NEW t \in Translate(in)
    PROVE  Known(t)
  <1>1. CASE FormatOf(in) = "gs1"
    <2>1. t \in Decode(in.bits, Extent(in))
      BY <1>1 DEF Translate
    <2>2. Extent(in) \in Nat
      BY RegisterAssumption DEF Extent, Declared
    <2> QED BY <1>1, <2>1, <2>2, DecodedReads DEF Known
  <1>2. CASE FormatOf(in) # "gs1"
    <2>1. t \in DecodeISO(in.bits, Extent(in), in.pc.afi)
      BY <1>2 DEF Translate
    <2> QED BY <2>1, DecodedISO
  <1> QED BY <1>1, <1>2

LEMMA EncodedKnown ==
    ASSUME NEW v, v.components \in Seq(Text), NEW id, NEW filter \in Nat, NEW t \in Encode(v, id, filter)
    PROVE  Known(t)
  BY EncodedReads DEF Known

\* What the generator makes up is text.
LEMMA RandomIsText ==
    ASSUME NEW x \in Layouts, NEW i \in DOMAIN x.pure, NEW text \in RandomTexts(FieldSpecs(x)[i])
    PROVE  text \in Text
  <1> DEFINE spec == FieldSpecs(x)[i]
             n == IF spec.fixed THEN spec.length ELSE Max({1, Digits(spec.max) - 1})
  <1>1. x.pure[i] \in FieldTexts /\ x.binary[i + 1] \in FieldSites
    <2>1. i + 1 \in DOMAIN x.binary
      BY LayoutSequences
    <2> QED BY <2>1, LayoutSequences
  <1>2. spec.fixed \in BOOLEAN /\ spec.length \in Nat /\ spec.max \in Nat
    BY <1>1 DEF FieldSpecs, Min2, FieldTexts, FieldSites
  <1>3. Digits(spec.max) - 1 \in Nat
    BY <1>2, DigitsAre
  <1>4. Max({1, Digits(spec.max) - 1}) \in Nat \ {0}
    <2>1. PICK k \in Nat : k = Digits(spec.max) - 1
      BY <1>3
    <2>2. \E m \in {1, k} : \A j \in {1, k} : m >= j
      <3>1. CASE k <= 1
        BY <3>1
      <3>2. CASE k > 1
        BY <3>2
      <3> QED BY <3>1, <3>2
    <2>3. Max({1, k}) \in {1, k} /\ \A j \in {1, k} : Max({1, k}) >= j
      BY <2>2 DEF Max
    <2> QED BY <2>1, <2>3
  <1>5. n \in Nat /\ (~spec.fixed => n - 1 \in Nat)
    BY <1>2, <1>4
  <1>6. Power(n) \in Nat /\ (~spec.fixed => Power(n - 1) \in Nat)
    BY <1>5, PowersGrow
  <1>7. PICK v \in (IF spec.fixed THEN 0 ELSE Power(n - 1))..Power(n) - 1 : text = [w |-> n, v |-> v]
    BY DEF RandomTexts
  <1>8. v \in Int
    BY <1>2, <1>6, <1>7
  <1> HIDE DEF n
  <1> QED BY <1>5, <1>7, <1>8 DEF Text

LEMMA FiltersAreNumbers == Filters \subseteq Nat
  <1> SUFFICES ASSUME NEW x \in Layouts, NEW f \in 0..x.tag[1].max PROVE f \in Nat
    BY DEF Filters
  <1>1. 1 \in DOMAIN x.tag
    BY LayoutSequences
  <1>2. x.tag[1].max \in Nat
    BY <1>1, LayoutSequences DEF FieldTexts
  <1> QED BY <1>2

TagsKnown == \A t \in current : Known(t)

LEMMA ConsumeKnown == Consume => TagsKnown'
  <1> SUFFICES ASSUME NEW o \in Observations, NEW t \in Translate(TranslationInput(o)) PROVE Known(t)
    BY DEF Consume, TagsKnown
  <1>1. o.epc \in Seq({0, 1}) /\ o.hasPC \in BOOLEAN /\ o.pc.words \in Nat
    BY TagInputAssumption
  <1> DEFINE in == TranslationInput(o)
  <1>2. in.bits = o.epc /\ in.bitLen = Len(o.epc) /\ in.hasPC = o.hasPC /\ in.pc = o.pc
    BY DEF TranslationInput
  <1> HIDE DEF in
  <1>3. in.bits \in Seq({0, 1}) /\ in.bitLen \in Nat /\ in.hasPC \in BOOLEAN /\ in.pc.words \in Nat
    BY <1>1, <1>2
  <1>4. t \in Translate(in)
    BY DEF in
  <1> QED BY <1>3, <1>4, TranslatedKnown

LEMMA GenerateKnown == Generate => TagsKnown'
  <1> SUFFICES ASSUME NEW x \in Layouts, NEW filter \in Filters,
                      NEW texts \in [DOMAIN x.pure -> UNION {RandomTexts(FieldSpecs(x)[i]) : i \in DOMAIN x.pure}],
                      NEW t \in Encode(Identity("gs1", x.s.keyType, texts), x.s.id, filter),
                      \A i \in DOMAIN x.pure : texts[i] \in RandomTexts(FieldSpecs(x)[i])
               PROVE  Known(t)
    BY DEF Generate, TagsKnown
  <1>1. PICK n \in Nat : DOMAIN x.pure = 1..n
    BY LayoutSequences
  <1>2. \A i \in 1..n : texts[i] \in Text
    BY <1>1, RandomIsText
  <1>3. texts \in [1..n -> Text]
    BY <1>1, <1>2
  <1>4. texts \in Seq(Text)
    BY <1>3
  <1>5. Identity("gs1", x.s.keyType, texts).components = texts
    BY DEF Identity
  <1>6. filter \in Nat
    BY FiltersAreNumbers
  <1> HIDE DEF Identity
  <1> QED BY <1>4, <1>5, <1>6, EncodedKnown

LEMMA MakeUnitKnown == MakeUnit => TagsKnown'
  BY EncodedISO DEF MakeUnit, TagsKnown

\* The components of a GS1 tag are texts.
LEMMA GS1Components ==
    ASSUME NEW t, Known(t), ~t.toggle
    PROVE  /\ t.components \in Seq(Text) /\ t.fields \in Seq(Text) /\ Tail(t.fields) \in Seq(Text)
           /\ t.fields[1].v \in Nat /\ t.bits \in Seq({0, 1}) /\ t.toggle = FALSE
  <1>1. PICK x \in Layouts : ReadsAs(t, x)
    BY DEF Known
  <1>2. 1 \in DOMAIN x.binary
    BY LayoutSequences
  <1>3. t.fields[1] = Render(x.tag[1], Values(x, t.bits)[1])
        /\ Values(x, t.bits)[1] \in Nat /\ Values(x, t.bits)[1] <= x.binary[1].max
    BY <1>1, <1>2, ReadingFields
  <1>4. /\ x.tag[1] \in FieldTexts /\ x.tag[1].max = x.binary[1].max
        /\ ~x.tag[1].fixed => x.tag[1].length = 0
        /\ x.tag[1].fixed => x.tag[1].max < Power(x.tag[1].length)
    BY <1>2, LayoutSites
  <1>5. t.fields[1].v = Values(x, t.bits)[1]
    BY <1>3, <1>4, RenderFacts
  <1>6. x.s.tagLength \in Nat /\ t.bits \in [1..x.s.tagLength -> {0, 1}]
    BY <1>1, LayoutSizes DEF ReadsAs
  <1>7. t.bits \in Seq({0, 1})
    BY <1>6
  <1> QED BY <1>1, <1>3, <1>5, <1>7, ReadingFields

LEMMA RewriteKnown ==
    ASSUME TagsKnown, NEW t \in current, NEW f \in Filters, Rewrite(t, f)
    PROVE  TagsKnown'
  <1>1. Known(t) /\ f \in Nat
    BY FiltersAreNumbers DEF TagsKnown
  <1>2. ASSUME t.toggle, NEW u \in EncodeISO(IdentityOf(t), t.scheme) PROVE Known(u)
    BY <1>2, EncodedISO
  <1>3. ASSUME ~t.toggle, NEW u \in Encode(IdentityOf(t), t.scheme, f) PROVE Known(u)
    <2>1. IdentityOf(t).components \in Seq(Text)
      BY <1>1, <1>3, GS1Components DEF IdentityOf
    <2> HIDE DEF IdentityOf
    <2> QED BY <1>1, <1>3, <2>1, EncodedKnown
  <1> QED BY <1>2, <1>3 DEF Rewrite, Becomes, TagsKnown

LEMMA ByPureURIKnown ==
    ASSUME TagsKnown, NEW t \in current, NEW f \in Filters, ByPureURI(t, f)
    PROVE  TagsKnown'
  <1>1. Known(t) /\ f \in Nat /\ ~t.toggle
    BY FiltersAreNumbers DEF TagsKnown, ByPureURI
  <1>2. ASSUME NEW u \in PureURI(IdentityOf(t)), NEW v \in ParsePureURI(u), NEW w \in Encode(v, t.scheme, f)
        PROVE  Known(w)
    <2>1. v.components = t.components
      BY <1>2 DEF PureURI, ParsePureURI, Identity, IdentityOf
    <2>2. v.components \in Seq(Text)
      BY <1>1, <2>1, GS1Components
    <2> QED BY <1>1, <1>2, <2>2, EncodedKnown
  <1> QED BY <1>2 DEF ByPureURI, Becomes, TagsKnown

LEMMA ByTagURIKnown ==
    ASSUME TagsKnown, NEW t \in current, ByTagURI(t)
    PROVE  TagsKnown'
  <1>1. Known(t) /\ ~t.toggle
    BY DEF TagsKnown, ByTagURI
  <1>2. ASSUME NEW u \in TagURI(t), NEW w \in ParseTagURI(u) PROVE Known(w)
    <2>1. u.parts = t.fields
      BY DEF TagURI
    <2>2. PICK x \in Layouts : w \in Encode(Identity("gs1", x.s.keyType, Tail(u.parts)), x.s.id, u.parts[1].v)
      BY <1>2 DEF ParseTagURI
    <2> DEFINE v == Identity("gs1", x.s.keyType, Tail(u.parts))
    <2>3. v.components \in Seq(Text) /\ u.parts[1].v \in Nat
      BY <1>1, <2>1, GS1Components DEF Identity
    <2> HIDE DEF v
    <2> QED BY <2>2, <2>3, EncodedKnown DEF v
  <1> QED BY <1>2 DEF ByTagURI, Becomes, TagsKnown

LEMMA OverTheAirKnown ==
    ASSUME TagsKnown, NEW t \in current, OverTheAir(t)
    PROVE  TagsKnown'
  <1> DEFINE in == TranslationInput([epc |-> t.bits, hasPC |-> TRUE, pc |-> ProtocolControl(t)])
  <1>1. Known(t)
    BY DEF TagsKnown
  <1>2. in.bits = t.bits /\ in.bitLen = Len(t.bits) /\ in.hasPC = TRUE /\ in.pc = ProtocolControl(t)
    BY DEF TranslationInput
  <1> HIDE DEF in
  <1>3. in.pc.toggle = t.toggle
    BY <1>2 DEF ProtocolControl
  <1>4. ASSUME NEW u \in Translate(in) PROVE Known(u)
    <2>1. CASE t.toggle
      <3>1. FormatOf(in) # "gs1"
        BY <1>2, <1>3, <2>1 DEF FormatOf
      <3>2. u \in DecodeISO(in.bits, Extent(in), in.pc.afi)
        BY <1>4, <3>1 DEF Translate
      <3> QED BY <3>2, DecodedISO
    <2>2. CASE ~t.toggle
      <3>1. t.bits \in Seq({0, 1}) /\ t.bitLen \in Nat
        <4>1. PICK x \in Layouts : ReadsAs(t, x)
          BY <1>1, <2>2 DEF Known
        <4> QED BY <1>1, <2>2, <4>1, GS1Components, ReadingFields, LayoutSizes
      <3>2. in.pc.words \in Nat
        <4>1. PICK m \in Nat \ {0} : m = MaxWords
          BY WordAssumption
        <4>2. PICK w \in Nat \ {0} : w = WordBits
          BY RegisterAssumption
        <4>3. PICK n \in Nat : n = t.bitLen + w - 1
          BY <3>1
        <4>4. n \div w \in Nat
          BY Halved
        <4>5. (n \div w) % m \in Nat
          BY <4>4
        <4> QED BY <1>2, <4>1, <4>2, <4>3, <4>5 DEF ProtocolControl
      <3>3. in.bitLen \in Nat /\ in.bits \in Seq({0, 1})
        BY <1>2, <3>1
      <3> QED BY <1>2, <1>4, <3>2, <3>3, TranslatedKnown
    <2> QED BY <2>1, <2>2
  <1> QED BY <1>1, <1>4 DEF OverTheAir, Becomes, TagsKnown, in

LEMMA TagsKnownStep == TagsKnown /\ [TagNext]_tagVars => TagsKnown'
  <1> SUFFICES ASSUME TagsKnown, [TagNext]_tagVars PROVE TagsKnown'
    OBVIOUS
  <1>1. CASE Consume
    BY <1>1, ConsumeKnown
  <1>2. CASE Generate
    BY <1>2, GenerateKnown
  <1>3. CASE MakeUnit
    BY <1>3, MakeUnitKnown
  <1>4. ASSUME NEW t \in current, NEW f \in Filters, Rewrite(t, f) \/ ByPureURI(t, f) PROVE TagsKnown'
    BY <1>4, RewriteKnown, ByPureURIKnown
  <1>5. ASSUME NEW t \in current, ByTagURI(t) \/ OverTheAir(t) PROVE TagsKnown'
    BY <1>5, ByTagURIKnown, OverTheAirKnown
  <1>6. CASE UNCHANGED tagVars
    BY <1>6 DEF tagVars, TagsKnown
  <1> QED BY <1>1, <1>2, <1>3, <1>4, <1>5, <1>6 DEF TagNext

-----------------------------------------------------------------------------
(* Patterns and their bit tests                                            *)

\* A bit test is its pins, and tags as long as it can be tested.
LEMMA BitTestReads ==
    ASSUME NEW pins, NEW n \in Nat, Pinned(pins, n), NEW p, NEW t, NEW m \in Nat,
           p.mask = SetBits(Zeros(n), Mask(pins)), p.value = SetBits(Zeros(n), pins), p.bitLen = n,
           t.bits \in [1..m -> {0, 1}], t.bitLen = m, n <= m
    PROVE  MatchesBits(p, t) <=> \A l \in pins : BitsAt(t.bits, l.at, l.len) = l.value
  <1>1. p.mask \in [1..n -> {0, 1}]
    BY DEF SetBits, Zeros
  <1>2. Len(p.mask) = n
    BY <1>1
  <1>3. Len(t.bits) = m
    OBVIOUS
  <1>4. MatchesBits(p, t) <=> \A b \in 1..n : p.mask[b] = 1 => t.bits[b] = p.value[b]
    BY <1>2, <1>3 DEF MatchesBits
  <1>5. \A b \in 1..n : t.bits[b] \in {0, 1}
    OBVIOUS
  <1> QED BY <1>4, <1>5, PinsTested

\* Options of a scheme have as many fields.
LEMMA SameFields ==
    ASSUME NEW x \in Layouts, NEW y \in Layouts, x.s = y.s
    PROVE  Len(x.tag) = Len(y.tag)
  <1>1. PICK o \in Options(x.s), q \in Options(x.s) : x = LayoutOf(x.s, o) /\ y = LayoutOf(x.s, q)
    BY LayoutOption
  <1>2. x.tag = o.tag /\ y.tag = q.tag /\ x.s \in Definitions
    BY <1>1, LayoutOption DEF LayoutOf
  <1> QED BY <1>2, LayoutAssumption DEF SitesApart

\* The company prefix is rendered with as many digits as selected the layout.
LEMMA PrefixRendered ==
    ASSUME NEW x \in Layouts
    PROVE  2 \in DOMAIN x.tag /\ x.tag[2].fixed /\ x.tag[2].length = x.gcpLength
  <1>1. PICK o \in Options(x.s) : x = LayoutOf(x.s, o)
    BY LayoutOption
  <1>2. x.s \in Definitions /\ x.tag = o.tag /\ x.gcpLength = o.gcpLength
    BY <1>1, LayoutOption DEF LayoutOf
  <1>3. 2 \in DOMAIN x.tag
    BY LayoutSequences
  <1> QED BY <1>2, <1>3, LayoutAssumption DEF Rendered

PartTypes == [kind : {"any", "exact", "range"}, text : Text, lo : Int, hi : Int]

\* A pattern of exact fields and then stars: what its parts are, and what the
\* layout they imply makes of them.
LEMMA ExactParts ==
    ASSUME NEW z \in Layouts, NEW parts \in Seq(PartTypes),
           \A i \in DOMAIN parts : parts[i].text.v < Power(parts[i].text.w),
           FieldsAccepted(z.tag, parts),
           NEW i \in Exact(parts)
    PROVE  /\ i \in DOMAIN z.binary /\ parts[i].text.v \in Nat /\ parts[i].text.v <= z.binary[i].max
           /\ \A v \in Nat : v <= z.binary[i].max => (v = parts[i].text.v <=> Render(z.tag[i], v) = parts[i].text)
  <1>1. i \in DOMAIN parts /\ parts[i].kind = "exact"
    BY DEF Exact
  <1>2. parts[i] \in PartTypes
    BY <1>1
  <1>3. parts[i].text \in Text
    BY <1>2 DEF PartTypes
  <1>4. Parses(z.tag[i], parts[i].text) /\ i \in 1..Len(z.tag)
    BY <1>1 DEF FieldsAccepted
  <1>5. i \in DOMAIN z.binary /\ i \in DOMAIN z.tag
    BY <1>4, LayoutSequences, LayoutFacts
  <1>6. /\ z.tag[i] \in FieldTexts /\ z.binary[i].max = z.tag[i].max
        /\ ~z.tag[i].fixed => z.tag[i].length = 0
        /\ z.tag[i].fixed => z.tag[i].max < Power(z.tag[i].length)
    BY <1>5, LayoutSites
  <1>7. parts[i].text.v \in 0..z.tag[i].max /\ Render(z.tag[i], parts[i].text.v) = parts[i].text
    BY <1>1, <1>3, <1>4, <1>6, ParsedRenders
  <1>8. \A v \in Nat : v <= z.tag[i].max => Render(z.tag[i], v).v = v
    BY <1>6, RenderFacts
  <1>9. z.tag[i].max \in Nat
    BY <1>6 DEF FieldTexts
  <1> QED BY <1>5, <1>6, <1>7, <1>8, <1>9

\* Exact fields come before stars, so patternBits pins every one of them.
LEMMA PinsAre ==
    ASSUME NEW z \in Layouts, NEW parts \in Seq(PartTypes), Len(parts) = Len(z.tag),
           \A i \in DOMAIN parts : parts[i].kind # "range",
           \A i, j \in DOMAIN parts : i < j /\ parts[i].kind = "any" => parts[j].kind = "any"
    PROVE  Pins(z, parts) = z.literals \cup FieldPins(z, [i \in DOMAIN parts |-> parts[i].text.v], Exact(parts))
  <1> DEFINE starts == {z.s.tagLength} \cup {z.binary[i].at : i \in DOMAIN parts \ Exact(parts)}
             clear == Min(starts)
             header == [at |-> 0, len |-> HeaderBits, value |-> z.s.header]
             fields == {[at |-> z.binary[i].at, len |-> z.binary[i].len, value |-> parts[i].text.v] : i \in Exact(parts)}
  <1>1. DOMAIN parts = DOMAIN z.binary /\ \A i \in DOMAIN parts : i \in Nat
    <2>1. DOMAIN parts = 1..Len(parts) /\ DOMAIN z.binary = 1..Len(z.tag)
      BY LayoutSequences, LayoutFacts
    <2> QED BY <2>1
  <1>2. \A i \in DOMAIN parts : parts[i].kind \in {"any", "exact"}
    <2>1. \A i \in DOMAIN parts : parts[i] \in PartTypes
      OBVIOUS
    <2> QED BY <2>1 DEF PartTypes
  <1>3. \A i \in DOMAIN parts : /\ z.binary[i].at \in Nat /\ z.binary[i].len \in Nat \ {0}
                                /\ z.binary[i].at + z.binary[i].len <= z.s.tagLength
    BY <1>1, LayoutSites DEF FieldSites
  <1>4. z.s.tagLength \in Nat
    BY LayoutSizes
  <1>5. ASSUME NEW i \in Exact(parts), NEW s \in starts PROVE z.binary[i].at < s
    <2>1. i \in DOMAIN parts /\ parts[i].kind = "exact"
      BY DEF Exact
    <2>2. CASE s = z.s.tagLength
      BY <1>3, <1>4, <2>1, <2>2
    <2>3. ASSUME NEW j \in DOMAIN parts \ Exact(parts), s = z.binary[j].at PROVE z.binary[i].at < s
      <3>1. parts[j].kind = "any"
        BY <1>2 DEF Exact
      <3>2. i # j /\ ~ (j < i)
        BY <2>1, <3>1
      <3>3. i < j
        BY <1>1, <2>1, <3>2
      <3>4. z.binary[i].at + z.binary[i].len <= z.binary[j].at
        BY <1>1, <2>1, <3>3, LayoutSites
      <3>5. z.binary[i].at \in Nat /\ z.binary[i].len \in Nat \ {0} /\ z.binary[j].at \in Nat
        BY <1>3, <2>1
      <3> QED BY ONLY <2>3, <3>4, <3>5
    <2> QED BY <2>2, <2>3
  <1>6. clear \in starts
    <2>1. starts \subseteq Nat /\ starts # {}
      BY <1>3, <1>4
    <2> HIDE DEF starts
    <2>2. PICK s \in starts : \A r \in starts : s <= r
      BY <2>1, LeastNumber
    <2> QED BY <2>2 DEF Min
  <1> HIDE DEF clear, starts
  <1>7. \A i \in Exact(parts) : z.binary[i].at < clear
    BY <1>5, <1>6
  <1>8. Pins(z, parts) = {l \in {header} \cup fields : l.at < clear} \cup z.literals
    BY DEF Pins, clear, starts
  <1>9. \A l \in fields : l.at < clear
    BY <1>7
  <1>10. header \in z.literals
    BY LayoutFacts
  <1>11. fields = FieldPins(z, [i \in DOMAIN parts |-> parts[i].text.v], Exact(parts))
    BY DEF FieldPins, Exact
  <1> HIDE DEF header, fields
  <1> QED BY <1>8, <1>9, <1>10, <1>11

\* At the layout its company prefix implies, a pattern's bit test accepts what
\* its fields accept.
LEMMA ImpliedTestIsExact ==
    ASSUME NEW z \in Layouts, NEW parts \in Seq(PartTypes),
           \A i \in DOMAIN parts : parts[i].text.v < Power(parts[i].text.w),
           FieldsAccepted(z.tag, parts), 2 \in Exact(parts), parts[2].text.w = z.gcpLength,
           \A i \in DOMAIN parts : parts[i].kind # "range",
           \A i, j \in DOMAIN parts : i < j /\ parts[i].kind = "any" => parts[j].kind = "any",
           NEW y \in Layouts, y.s = z.s, NEW t, ReadsAs(t, y),
           NEW p, p.fields = parts, p.mask = SetBits(Zeros(z.s.tagLength), Mask(Pins(z, parts))),
           p.value = SetBits(Zeros(z.s.tagLength), Pins(z, parts)), p.bitLen = z.s.tagLength
    PROVE  MatchesBits(p, t) <=> MatchesComponents(p, t.fields)
  <1> DEFINE vals == [i \in DOMAIN parts |-> parts[i].text.v]
             pins == z.literals \cup FieldPins(z, vals, Exact(parts))
  <1>1. Len(parts) = Len(z.tag)
    BY DEF FieldsAccepted
  <1>2. Pins(z, parts) = pins
    BY <1>1, PinsAre
  <1>3. Exact(parts) \subseteq DOMAIN parts /\ DOMAIN parts = DOMAIN z.binary
    <2>1. DOMAIN parts = 1..Len(parts) /\ DOMAIN z.binary = 1..Len(z.tag)
      BY LayoutSequences, LayoutFacts
    <2> QED BY <1>1, <2>1 DEF Exact
  <1>4. \A i \in Exact(parts) : /\ vals[i] \in Nat /\ vals[i] <= z.binary[i].max
                                /\ \A v \in Nat : v <= z.binary[i].max =>
                                      (v = vals[i] <=> Render(z.tag[i], v) = parts[i].text)
    BY <1>3, ExactParts
  <1>5. Pinned(pins, z.s.tagLength)
    <2>1. \A i \in Exact(parts) : vals[i] \in Nat /\ vals[i] <= z.binary[i].max
      BY <1>4
    <2> HIDE DEF vals
    <2> QED BY <1>3, <2>1, FieldsPinned
  <1> HIDE DEF vals
  <1>6. z.s.tagLength \in Nat
    BY LayoutSizes
  <1>7. MatchesBits(p, t) <=> \A l \in pins : BitsAt(t.bits, l.at, l.len) = l.value
    <2>1. t.bits \in [1..z.s.tagLength -> {0, 1}] /\ t.bitLen = z.s.tagLength
      BY ReadingFields DEF ReadsAs
    <2> HIDE DEF pins
    <2> QED BY <1>2, <1>5, <1>6, <2>1, BitTestReads
  <1>8. ASSUME NEW i \in Exact(parts)
        PROVE  /\ Values(z, t.bits)[i] = BitsAt(t.bits, z.binary[i].at, z.binary[i].len)
               /\ [at |-> z.binary[i].at, len |-> z.binary[i].len, value |-> vals[i]] \in pins
    BY <1>3 DEF Values, FieldPins
  <1>9. (\A l \in pins : BitsAt(t.bits, l.at, l.len) = l.value)
           <=> LiteralsHold(z, t.bits) /\ \A i \in Exact(parts) : Values(z, t.bits)[i] = vals[i]
    <2>1. \A l \in FieldPins(z, vals, Exact(parts)) : \E i \in Exact(parts) :
             l = [at |-> z.binary[i].at, len |-> z.binary[i].len, value |-> vals[i]]
      BY DEF FieldPins
    <2>2. ASSUME LiteralsHold(z, t.bits), \A i \in Exact(parts) : Values(z, t.bits)[i] = vals[i], NEW l \in pins
          PROVE  BitsAt(t.bits, l.at, l.len) = l.value
      <3>1. CASE l \in z.literals
        BY <2>2, <3>1 DEF LiteralsHold
      <3>2. CASE l \in FieldPins(z, vals, Exact(parts))
        <4>1. PICK i \in Exact(parts) : l.at = z.binary[i].at /\ l.len = z.binary[i].len /\ l.value = vals[i]
          BY <2>1, <3>2
        <4> QED BY <1>8, <2>2, <4>1
      <3> QED BY <3>1, <3>2
    <2>3. ASSUME \A l \in pins : BitsAt(t.bits, l.at, l.len) = l.value
          PROVE  LiteralsHold(z, t.bits) /\ \A i \in Exact(parts) : Values(z, t.bits)[i] = vals[i]
      <3>1. LiteralsHold(z, t.bits)
        BY <2>3 DEF LiteralsHold
      <3>2. ASSUME NEW i \in Exact(parts) PROVE Values(z, t.bits)[i] = vals[i]
        <4>1. PICK l \in pins : l.at = z.binary[i].at /\ l.len = z.binary[i].len /\ l.value = vals[i]
          BY <1>8
        <4> QED BY <1>8, <2>3, <4>1
      <3> QED BY <3>1, <3>2
    <2> HIDE DEF pins
    <2> QED BY <2>2, <2>3
  <1>10. LiteralsHold(z, t.bits) <=> y = z
    <2>1. LiteralsHold(y, t.bits)
      BY DEF ReadsAs
    <2>2. ASSUME LiteralsHold(z, t.bits) PROVE y = z
      <3>1. ByPartition(z.s, t.bits) = {z} /\ ByPartition(y.s, t.bits) = {y}
        BY <2>1, <2>2, LiteralsSelect
      <3> QED BY <3>1
    <2> QED BY <2>1, <2>2
  <1>11. MatchesComponents(p, t.fields) <=> \A i \in Exact(parts) : t.fields[i] = parts[i].text
    <2>1. Len(t.fields) = Len(parts)
      <3>1. t.fields \in Seq(Text) /\ DOMAIN t.fields = 1..Len(y.tag)
        BY ReadingFields, LayoutSequences, LayoutFacts
      <3>2. Len(t.fields) = Len(y.tag)
        <4>1. DOMAIN t.fields = 1..Len(t.fields) /\ Len(t.fields) \in Nat /\ Len(y.tag) \in Nat
          BY <3>1, LayoutFacts
        <4> QED BY <3>1, <4>1
      <3> QED BY <1>1, <3>2, SameFields
    <2>2. \A i \in DOMAIN parts : parts[i].kind \in {"any", "exact"}
      <3>1. \A i \in DOMAIN parts : parts[i] \in PartTypes
        OBVIOUS
      <3> QED BY <3>1 DEF PartTypes
    <2>3. \A i \in DOMAIN parts : MatchesField(parts[i], t.fields[i]) <=> (i \in Exact(parts) => t.fields[i] = parts[i].text)
      BY <2>2 DEF MatchesField, Exact
    <2>4. DOMAIN parts = 1..Len(p.fields)
      OBVIOUS
    <2> QED BY <1>3, <2>1, <2>3, <2>4 DEF MatchesComponents
  <1>12. ASSUME y = z
         PROVE  \A i \in Exact(parts) : t.fields[i] = parts[i].text <=> Values(z, t.bits)[i] = vals[i]
    <2> SUFFICES ASSUME NEW i \in Exact(parts)
                 PROVE  t.fields[i] = parts[i].text <=> Values(z, t.bits)[i] = vals[i]
      OBVIOUS
    <2>1. i \in DOMAIN z.binary
      BY <1>3
    <2>2. /\ t.fields[i] = Render(z.tag[i], Values(z, t.bits)[i])
          /\ Values(z, t.bits)[i] \in Nat /\ Values(z, t.bits)[i] <= z.binary[i].max
      BY <1>12, <2>1, ReadingFields
    <2> QED BY <1>4, <2>2
  <1>13. ASSUME t.fields[2] = parts[2].text PROVE y = z
    <2>1. 2 \in DOMAIN y.tag /\ y.tag[2].fixed /\ y.tag[2].length = y.gcpLength
      BY PrefixRendered
    <2>2. 2 \in DOMAIN y.binary
      BY <2>1, LayoutSequences
    <2>3. /\ t.fields[2] = Render(y.tag[2], Values(y, t.bits)[2])
          /\ Values(y, t.bits)[2] \in Nat /\ Values(y, t.bits)[2] <= y.binary[2].max
      BY <2>2, ReadingFields
    <2>4. /\ y.tag[2] \in FieldTexts /\ y.binary[2].max = y.tag[2].max
          /\ ~y.tag[2].fixed => y.tag[2].length = 0
          /\ y.tag[2].fixed => y.tag[2].max < Power(y.tag[2].length)
      BY <2>2, LayoutSites
    <2>5. t.fields[2].w = y.gcpLength
      BY <2>1, <2>3, <2>4, RenderFacts
    <2>6. y.gcpLength = z.gcpLength
      BY <1>13, <2>5
    <2> QED BY <2>6, LayoutSelected
  <1> HIDE DEF pins
  <1> QED BY <1>7, <1>9, <1>10, <1>11, <1>12, <1>13

\* And a pattern of stars tests the header alone.
LEMMA HeaderTestIsExact ==
    ASSUME NEW x \in Layouts, NEW y \in Layouts, y.s = x.s, NEW t, ReadsAs(t, y),
           NEW p, p.fields \in Seq(PartTypes), Len(p.fields) = Len(x.tag),
           \A i \in DOMAIN p.fields : p.fields[i].kind = "any",
           NEW pins, pins = {[at |-> 0, len |-> HeaderBits, value |-> x.s.header]},
           p.mask = SetBits(Zeros(HeaderBits), Mask(pins)),
           p.value = SetBits(Zeros(HeaderBits), pins), p.bitLen = HeaderBits
    PROVE  MatchesBits(p, t) /\ MatchesComponents(p, t.fields)
  <1> DEFINE header == [at |-> 0, len |-> HeaderBits, value |-> x.s.header]
  <1>1. header \in y.literals
    BY LayoutFacts
  <1>2. y.s.tagLength \in Nat /\ HeaderBits \in Nat /\ HeaderBits <= y.s.tagLength
    BY LayoutSizes
  <1>3. header \in Site /\ header.value < 2 ^ header.len
    BY <1>1, LayoutFacts, LayoutSites
  <1>4. Pinned(pins, HeaderBits)
    <2>1. \A l \in pins : l = header
      OBVIOUS
    <2>2. header.at + header.len <= HeaderBits
      BY <1>2
    <2> HIDE DEF header
    <2> QED BY <1>3, <2>1, <2>2 DEF Pinned
  <1>5. \A l \in pins : BitsAt(t.bits, l.at, l.len) = l.value
    BY <1>1 DEF ReadsAs, LiteralsHold
  <1>6. t.bits \in [1..y.s.tagLength -> {0, 1}] /\ t.bitLen = y.s.tagLength
    BY ReadingFields DEF ReadsAs
  <1>7. MatchesBits(p, t)
    BY <1>2, <1>4, <1>5, <1>6, BitTestReads
  <1>8. Len(t.fields) = Len(p.fields)
    <2>1. t.fields \in Seq(Text) /\ DOMAIN t.fields = 1..Len(y.tag)
      BY ReadingFields, LayoutSequences, LayoutFacts
    <2>2. DOMAIN t.fields = 1..Len(t.fields) /\ Len(t.fields) \in Nat /\ Len(y.tag) \in Nat
      BY <2>1, LayoutFacts
    <2> QED BY <2>1, <2>2, SameFields
  <1>9. \A i \in 1..Len(p.fields) : MatchesField(p.fields[i], t.fields[i])
    BY DEF MatchesField
  <1> QED BY <1>7, <1>8, <1>9 DEF MatchesComponents

\* The bit test a pattern compiles to says of a known tag what its fields say.
LEMMA CompiledTestIsExact ==
    ASSUME NEW u \in PatternURIs, NEW p \in CompileTagPattern(u), p.hasBits,
           NEW t, Known(t), t.scheme = p.scheme
    PROVE  MatchesBits(p, t) <=> MatchesComponents(p, t.fields)
  <1> DEFINE parts == u.parts
  <1>1. PICK d \in Definitions :
          /\ p = Compiled("encoding", d, d.id, parts, PatternBits(d, Implied(d, parts, 2), parts))
          /\ \E x \in Layouts : /\ x.s = d /\ FieldsAccepted(x.tag, parts)
                                /\ x \in Implied(d, parts, 2) \/ AllAnyFrom(parts, 2)
          /\ ValidPattern(p)
    BY DEF CompileTagPattern
  <1>2. PICK x \in Layouts : /\ x.s = d /\ FieldsAccepted(x.tag, parts)
                             /\ x \in Implied(d, parts, 2) \/ AllAnyFrom(parts, 2)
    BY <1>1
  <1>3. /\ parts \in Seq(PartTypes)
        /\ \A i \in DOMAIN parts : parts[i].text.v < Power(parts[i].text.w)
    BY TagInputAssumption DEF PartTypes, Text
  <1> DEFINE implied == Implied(d, parts, 2)
             test == PatternBits(d, implied, parts)
  <1>4. /\ p.scheme = d.id /\ p.fields = parts /\ p.hasBits = test.hasBits /\ p.mask = test.mask
        /\ p.value = test.value /\ p.bitLen = test.bitLen
    BY <1>1 DEF Compiled
  <1>5. \A i, j \in DOMAIN parts : i < j /\ parts[i].kind = "any" => parts[j].kind = "any"
    <2>0. ValidPattern(p)
      BY <1>1
    <2>1. \A i, j \in DOMAIN p.fields : i < j /\ p.fields[i].kind = "any" => p.fields[j].kind = "any"
      BY ONLY <2>0 DEF ValidPattern
    <2>2. p.fields = parts
      BY <1>4
    <2> QED BY ONLY <2>1, <2>2
  <1>6. PICK y \in Layouts : ReadsAs(t, y)
    BY <1>4, SchemesApart DEF Known
  <1>7. y.s = d
    <2>1. y.s.id = d.id
      BY <1>4, <1>6, ReadingFields
    <2>2. y.s \in Definitions
      BY LayoutOption
    <2> QED BY <2>1, <2>2, LayoutAssumption DEF SelectorsDistinct
  <1> DEFINE header == {[at |-> 0, len |-> HeaderBits, value |-> d.header]}
             Test(pins, n) == BitTest(SetBits(Zeros(n), pins), SetBits(Zeros(n), Mask(pins)), n)
  <1>8. test = IF \E i \in DOMAIN parts : parts[i].kind = "range" THEN NoBitTest
               ELSE IF implied # {} THEN Test(Pins(CHOOSE z \in implied : TRUE, parts), d.tagLength)
               ELSE IF Exact(parts) # {} THEN NoBitTest
               ELSE Test(header, HeaderBits)
    BY DEF PatternBits
  <1> HIDE DEF test
  <1>9. NoBitTest.hasBits = FALSE
    BY DEF NoBitTest
  <1>10. \A i \in DOMAIN parts : parts[i].kind # "range"
    BY <1>4, <1>8, <1>9
  <1>11. CASE implied # {}
    <2>1. PICK z \in implied : z = CHOOSE w \in implied : TRUE
      BY <1>11
    <2>2. z \in Layouts /\ z.s = d /\ 2 <= Len(parts) /\ parts[2].kind = "exact" /\ parts[2].text.w = z.gcpLength
      BY DEF Implied
    <2>3. x \in implied
      <3>1. 2 \in 2..Len(parts)
        BY <1>3, <2>2
      <3>2. ~ AllAnyFrom(parts, 2)
        BY <2>2, <3>1 DEF AllAnyFrom
      <3> QED BY <1>2, <3>2
    <2>4. x = z
      <3>1. parts[2].text.w = x.gcpLength
        BY <2>3 DEF Implied
      <3> QED BY <1>2, <2>2, <3>1, LayoutSelected
    <2>5. 2 \in Exact(parts)
      BY <1>3, <2>2 DEF Exact
    <2>6. test = Test(Pins(z, parts), z.s.tagLength)
      BY <1>8, <1>10, <1>11, <2>1, <2>2
    <2>7. /\ p.mask = SetBits(Zeros(z.s.tagLength), Mask(Pins(z, parts)))
          /\ p.value = SetBits(Zeros(z.s.tagLength), Pins(z, parts)) /\ p.bitLen = z.s.tagLength
      BY <1>4, <2>6 DEF BitTest
    <2> HIDE DEF parts, implied
    <2> QED BY <1>2, <1>3, <1>4, <1>5, <1>6, <1>7, <1>10, <2>2, <2>4, <2>5, <2>7, ImpliedTestIsExact
  <1>12. CASE implied = {}
    <2>1. Exact(parts) = {} /\ test = Test(header, HeaderBits)
      BY <1>4, <1>8, <1>9, <1>10, <1>12
    <2>2. /\ p.mask = SetBits(Zeros(HeaderBits), Mask(header))
          /\ p.value = SetBits(Zeros(HeaderBits), header) /\ p.bitLen = HeaderBits
      BY <1>4, <2>1 DEF BitTest
    <2>3. \A i \in DOMAIN parts : parts[i].kind = "any"
      <3>1. \A i \in DOMAIN parts : parts[i] \in PartTypes
        BY <1>3
      <3> QED BY <1>10, <2>1, <3>1 DEF PartTypes, Exact
    <2>4. Len(parts) = Len(x.tag)
      BY <1>2 DEF FieldsAccepted
    <2>5. header = {[at |-> 0, len |-> HeaderBits, value |-> x.s.header]}
      BY <1>2
    <2> HIDE DEF parts, header
    <2> QED BY <1>2, <1>3, <1>4, <1>6, <1>7, <2>2, <2>3, <2>4, <2>5, HeaderTestIsExact
  <1> QED BY <1>11, <1>12

\* Matching by bits, where a pattern has them, is matching by fields: for any
\* layouts the program accepts, any tags, whatever is done with them, and any
\* patterns.
THEOREM BitTestIsExactHolds == TagSpec => []BitTestIsExact
  <1>1. TagInit => TagsKnown
    BY DEF TagInit, TagsKnown
  <1>2. TagsKnown => BitTestIsExact
    <2> SUFFICES ASSUME NEW t \in current, Known(t), NEW u \in PatternURIs, NEW p \in CompilePattern(u)
                 PROVE  Matches(p, t) <=> ReferenceMatch(t, p)
      BY DEF BitTestIsExact, TagsKnown, TagPatterns
    <2>1. CASE p \in CompileIDPattern(u)
      <3>1. p.level = "identity"
        <4>1. PICK d \in Definitions : p = Compiled("identity", d, "", u.parts, NoBitTest)
          BY <2>1 DEF CompileIDPattern
        <4> QED BY <4>1 DEF Compiled
      <3> QED BY <3>1 DEF Matches, ReferenceMatch
    <2>2. CASE p \in CompileTagPattern(u)
      <3>1. p.level = "encoding"
        BY <2>2 DEF CompileTagPattern, Compiled
      <3>2. p.hasBits /\ t.scheme = p.scheme => (MatchesBits(p, t) <=> MatchesComponents(p, t.fields))
        BY <2>2, CompiledTestIsExact
      <3> QED BY <3>1, <3>2 DEF Matches, ReferenceMatch
    <2> QED BY <2>1, <2>2 DEF CompilePattern
  <1> QED BY <1>1, <1>2, TagsKnownStep, PTL DEF TagSpec

-----------------------------------------------------------------------------
(* Six-bit text                                                            *)

\* s is what Selected has kept of codes, code after code.
Selects(s, codes, S, n) ==
    s = [i \in 0..n |->
            IF i = 0 THEN <<>> ELSE IF codes[i] \in S THEN Append(s[i - 1], codes[i]) ELSE s[i - 1]]

\* Selected goes through all codes.
LEMMA SelectionExists ==
    ASSUME NEW codes, NEW S, NEW n \in Nat
    PROVE  \E s : Selects(s, codes, S, n)
  <1> DEFINE P == {m \in Nat : \E s : Selects(s, codes, S, m)}
  <1>1. 0 \in P
    <2> DEFINE s == [i \in 0..0 |-> <<>>]
    <2>1. Selects(s, codes, S, 0)
      BY DEF Selects
    <2> QED BY <2>1
  <1>2. ASSUME NEW m \in Nat, m \in P PROVE m + 1 \in P
    <2>1. PICK s : Selects(s, codes, S, m)
      BY <1>2
    <2> DEFINE next == IF codes[m + 1] \in S THEN Append(s[m], codes[m + 1]) ELSE s[m]
               r == [i \in 0..(m + 1) |-> IF i = m + 1 THEN next ELSE s[i]]
    <2>2. ASSUME NEW i \in 0..(m + 1)
          PROVE  r[i] = IF i = 0 THEN <<>> ELSE IF codes[i] \in S THEN Append(r[i - 1], codes[i]) ELSE r[i - 1]
      <3>1. CASE i = m + 1
        <4>1. r[i] = next /\ i # 0 /\ i - 1 = m /\ r[i - 1] = s[m]
          BY <3>1
        <4> HIDE DEF r
        <4> QED BY <3>1, <4>1
      <3>2. CASE i # m + 1
        <4>1. i \in 0..m /\ (i # 0 => i - 1 \in 0..m /\ i - 1 # m + 1 /\ i - 1 \in 0..(m + 1))
          BY <3>2
        <4>2. s[i] = IF i = 0 THEN <<>> ELSE IF codes[i] \in S THEN Append(s[i - 1], codes[i]) ELSE s[i - 1]
          BY <2>1, <4>1 DEF Selects
        <4>3. r[i] = s[i] /\ (i # 0 => r[i - 1] = s[i - 1])
          BY <3>2, <4>1
        <4> HIDE DEF r
        <4> QED BY <4>2, <4>3
      <3> QED BY <3>1, <3>2
    <2>3. Selects(r, codes, S, m + 1)
      BY <2>2 DEF Selects
    <2> QED BY <2>3
  <1> HIDE DEF P
  <1>3. Nat \subseteq P
    BY <1>1, <1>2, InductiveSet
  <1> QED BY <1>3 DEF P

\* It begins with none.
LEMMA SelectionStart ==
    ASSUME NEW codes, NEW S, NEW n \in Nat, NEW s, Selects(s, codes, S, n)
    PROVE  s[0] = <<>>
  <1>1. 0 \in 0..n
    OBVIOUS
  <1> QED BY <1>1, Zenon DEF Selects

\* One code more is taken, or passed over.
Takes(s, codes, S, m) == s[m + 1] = IF codes[m + 1] \in S THEN Append(s[m], codes[m + 1]) ELSE s[m]

LEMMA SelectionStep ==
    ASSUME NEW codes, NEW S, NEW n \in Nat, NEW s, Selects(s, codes, S, n), NEW m \in Nat, m + 1 <= n
    PROVE  Takes(s, codes, S, m)
  <1>1. m + 1 \in 0..n /\ m + 1 # 0 /\ (m + 1) - 1 = m
    OBVIOUS
  <1>2. s[m + 1] = IF codes[m + 1] \in S THEN Append(s[(m + 1) - 1], codes[m + 1]) ELSE s[(m + 1) - 1]
    BY <1>1, Zenon DEF Selects
  <1> QED BY <1>1, <1>2, Zenon DEF Takes

\* And ends with what Selected returns.
LEMMA SelectedIs ==
    ASSUME NEW codes, NEW S, NEW n \in Nat, n = Len(codes)
    PROVE  \E s : Selected(codes, S) = s[n] /\ Selects(s, codes, S, n)
  <1> DEFINE V == CHOOSE s : s = [i \in 0..Len(codes) |->
                    IF i = 0 THEN <<>> ELSE IF codes[i] \in S THEN Append(s[i - 1], codes[i]) ELSE s[i - 1]]
  <1>0. \E s : Selects(s, codes, S, Len(codes))
    BY SelectionExists
  <1>1. Selects(V, codes, S, Len(codes))
    <2>1. \E s : s = [i \in 0..Len(codes) |->
                    IF i = 0 THEN <<>> ELSE IF codes[i] \in S THEN Append(s[i - 1], codes[i]) ELSE s[i - 1]]
      BY <1>0, Zenon DEF Selects
    <2> QED BY <2>1, Zenon DEF Selects
  <1>2. Selected(codes, S) = V[n]
    BY DEF Selected
  <1> HIDE DEF V
  <1> QED BY <1>1, <1>2

\* What is selected of codes that are all wanted, or of codes of which none is.
LEMMA SelectedAll ==
    ASSUME NEW T, NEW codes \in Seq(T), NEW S, \A i \in 1..Len(codes) : codes[i] \in S
    PROVE  Selected(codes, S) = codes
  <1>1. PICK n \in Nat : n = Len(codes)
    OBVIOUS
  <1>2. PICK s : Selected(codes, S) = s[n] /\ Selects(s, codes, S, n)
    BY <1>1, SelectedIs
  <1> DEFINE Q(m) == \E z \in Seq(T) : z = s[m] /\ Len(z) = m /\ \A i \in 1..m : z[i] = codes[i]
             P == {m \in Nat : m <= n => Q(m)}
  <1>4. 0 \in P
    <2>1. s[0] = <<>>
      BY <1>2, SelectionStart
    <2>2. <<>> \in Seq(T) /\ Len(<<>>) = 0 /\ \A i \in 1..0 : <<>>[i] = codes[i]
      OBVIOUS
    <2>4. Q(0)
      BY <2>1, <2>2, Zenon
    <2> QED BY <2>4
  <1>5. ASSUME NEW m \in Nat, m \in P PROVE m + 1 \in P
    <2> SUFFICES ASSUME m + 1 <= n PROVE Q(m + 1)
      OBVIOUS
    <2>0. Q(m)
      BY <1>1, <1>5
    <2>1. PICK z \in Seq(T) : z = s[m] /\ Len(z) = m /\ \A i \in 1..m : z[i] = codes[i]
      BY <2>0
    <2>2. PICK c \in T : c = codes[m + 1]
      BY <1>1
    <2>3. codes[m + 1] \in S
      BY <1>1
    <2>4. Takes(s, codes, S, m)
      BY <1>1, <1>2, SelectionStep
    <2>5. Append(z, c) \in Seq(T)
      BY <2>1, <2>2
    <2>6. Append(z, c) = s[m + 1]
      BY <2>1, <2>2, <2>3, <2>4, Zenon DEF Takes
    <2>7. Len(Append(z, c)) = m + 1 /\ \A i \in 1..m + 1 : Append(z, c)[i] = codes[i]
      BY <2>1, <2>2
    <2> QED BY <2>5, <2>6, <2>7, Zenon
  <1> HIDE DEF P
  <1>6. n \in P
    BY <1>1, <1>4, <1>5, InductiveSet
  <1>7. Q(n)
    BY <1>1, <1>6 DEF P
  <1>8. PICK z \in Seq(T) : z = s[n] /\ Len(z) = n /\ \A i \in 1..n : z[i] = codes[i]
    BY <1>7
  <1>9. z = codes
    BY <1>1, <1>8
  <1> QED BY <1>2, <1>8, <1>9, Zenon

LEMMA SelectedNone ==
    ASSUME NEW T, NEW codes \in Seq(T), NEW S
    PROVE  Selected(codes, S) = <<>> <=> \A i \in 1..Len(codes) : codes[i] \notin S
  <1>1. PICK n \in Nat : n = Len(codes)
    OBVIOUS
  <1>2. PICK s : Selected(codes, S) = s[n] /\ Selects(s, codes, S, n)
    BY <1>1, SelectedIs
  <1> DEFINE Q(m) == \E z \in Seq(T) : z = s[m] /\ (z = <<>> <=> \A i \in 1..m : codes[i] \notin S)
             P == {m \in Nat : m <= n => Q(m)}
  <1>4. 0 \in P
    <2>1. s[0] = <<>>
      BY <1>2, SelectionStart
    <2>2. <<>> \in Seq(T) /\ \A i \in 1..0 : codes[i] \notin S
      OBVIOUS
    <2>4. Q(0)
      BY <2>1, <2>2, Zenon
    <2> QED BY <2>4
  <1>5. ASSUME NEW m \in Nat, m \in P PROVE m + 1 \in P
    <2> SUFFICES ASSUME m + 1 <= n PROVE Q(m + 1)
      OBVIOUS
    <2>0. Q(m)
      BY <1>1, <1>5
    <2>1. PICK z \in Seq(T) : z = s[m] /\ (z = <<>> <=> \A i \in 1..m : codes[i] \notin S)
      BY <2>0
    <2>2. PICK c \in T : c = codes[m + 1]
      BY <1>1
    <2>3. (\A i \in 1..m + 1 : codes[i] \notin S) <=> (\A i \in 1..m : codes[i] \notin S) /\ codes[m + 1] \notin S
      OBVIOUS
    <2>6. Takes(s, codes, S, m)
      BY <1>1, <1>2, SelectionStep
    <2>4. CASE codes[m + 1] \in S
      <3>1. s[m + 1] = Append(s[m], codes[m + 1])
        BY <2>4, <2>6, Zenon DEF Takes
      <3>2. Append(z, c) \in Seq(T) /\ Len(Append(z, c)) # 0
        BY <2>1, <2>2
      <3>3. Append(z, c) # <<>>
        BY <2>1, <2>2
      <3>4. Append(z, c) = s[m + 1]
        BY <2>1, <2>2, <3>1, Zenon
      <3> QED BY <2>3, <2>4, <3>2, <3>3, <3>4, Zenon
    <2>5. CASE codes[m + 1] \notin S
      <3>1. s[m + 1] = s[m]
        BY <2>5, <2>6, Zenon DEF Takes
      <3> QED BY <2>1, <2>3, <2>5, <3>1, Zenon
    <2> QED BY <2>4, <2>5
  <1> HIDE DEF P
  <1>6. n \in P
    BY <1>1, <1>4, <1>5, InductiveSet
  <1>7. Q(n)
    BY <1>1, <1>6 DEF P
  <1> QED BY <1>1, <1>2, <1>7, Zenon

\* Division with a rest.
LEMMA Division ==
    ASSUME NEW c \in Nat \ {0}, NEW a \in Nat
    PROVE  \E q \in Nat, r \in Nat : r < c /\ a = q * c + r /\ a \div c = q /\ a % c = r
  <1>1. PICK d \in Int, e \in 0..(c - 1) : d = a \div c /\ a = c * d + e /\ e = a % c
    OBVIOUS
  <1>2. d >= 0
    <2> SUFFICES ASSUME d <= -1 PROVE FALSE
      OBVIOUS
    <2>1. c * (-1 - d) >= 0
      OBVIOUS
    <2> QED BY <1>1, <2>1
  <1>3. d \in Nat /\ e \in Nat /\ e < c /\ a = d * c + e
    BY <1>1, <1>2
  <1> QED BY <1>1, <1>3, Zenon

\* Multiples of the size of a code.
LEMMA Products ==
    ASSUME NEW c \in Nat, NEW i \in Nat
    PROVE  /\ i * c \in Nat /\ (i + 1) * c = i * c + c
           /\ \A j \in Nat : i < j => i * c + c <= j * c
  <1>1. i * c \in Nat /\ (i + 1) * c = i * c + c
    OBVIOUS
  <1>2. ASSUME NEW j \in Nat, i < j PROVE i * c + c <= j * c
    <2>1. PICK d \in Nat : j = i + 1 + d
      <3>1. j - i - 1 \in Nat /\ j = i + 1 + (j - i - 1)
        BY <1>2
      <3> QED BY <3>1
    <2>2. j * c = i * c + c + d * c
      BY <2>1
    <2>3. d * c \in Nat
      OBVIOUS
    <2> QED BY <1>1, <2>2, <2>3
  <1> QED BY <1>1, <1>2

\* Characters and codes.
LEMMA CodeFacts ==
    /\ CodeBits \in Nat \ {0} /\ Half \in Nat \ {0} /\ 2 ^ CodeBits = 2 * Half
    /\ \A v \in 0..2 * Half - 1 : FromCode(v) \in Half..3 * Half - 1 /\ ToCode(FromCode(v)) = v
    /\ \A c \in Half..3 * Half - 1 : ToCode(c) \in 0..2 * Half - 1 /\ FromCode(ToCode(c)) = c
  <1>1. PICK n \in Nat : CodeBits = n + 1
    <2>1. CodeBits - 1 \in Nat /\ CodeBits = (CodeBits - 1) + 1
      BY RegisterAssumption
    <2> QED BY <2>1
  <1>2. Half = 2 ^ n
    BY <1>1 DEF Half
  <1>3. 2 ^ n \in Nat \ {0} /\ 2 ^ (n + 1) = 2 * 2 ^ n
    BY TwoDoubles
  <1>4. PICK h \in Nat \ {0} : h = Half
    BY <1>2, <1>3
  <1>5. \A c \in h..3 * h - 1 : c % (2 * h) = IF c < 2 * h THEN c ELSE c - 2 * h
    OBVIOUS
  <1>6. \A c : ToCode(c) = c % (2 * h)
    BY <1>4 DEF ToCode
  <1>7. \A v : FromCode(v) = IF v < h THEN v + 2 * h ELSE v
    BY <1>4 DEF FromCode
  <1>8. /\ \A v \in 0..2 * h - 1 : FromCode(v) \in h..3 * h - 1 /\ ToCode(FromCode(v)) = v
        /\ \A c \in h..3 * h - 1 : ToCode(c) \in 0..2 * h - 1 /\ FromCode(ToCode(c)) = c
    BY <1>5, <1>6, <1>7
  <1> QED BY <1>1, <1>2, <1>3, <1>4, <1>8

\* The sites of the codes of a text.
CodePins(text) ==
    {[at |-> (i - 1) * CodeBits, len |-> CodeBits, value |-> ToCode(text[i])] : i \in DOMAIN text}

\* Codes lie apart, each within its bits.
LEMMA CodesPinned ==
    ASSUME NEW text \in Seq(Nat), \A i \in DOMAIN text : text[i] \in Half..3 * Half - 1
    PROVE  Pinned(CodePins(text), Len(text) * CodeBits) /\ Len(text) * CodeBits \in Nat
  <1>1. PICK c \in Nat \ {0} : c = CodeBits
    BY CodeFacts
  <1>2. PICK n \in Nat : n = Len(text) /\ DOMAIN text = 1..n
    OBVIOUS
  <1>3. n * c \in Nat
    BY Products
  <1>4. \A i \in 1..n : /\ (i - 1) * c \in Nat /\ (i - 1) * c + c <= n * c
                        /\ \A j \in 1..n : i < j => (i - 1) * c + c <= (j - 1) * c
    <2> SUFFICES ASSUME NEW i \in 1..n
                 PROVE  /\ (i - 1) * c \in Nat /\ (i - 1) * c + c <= n * c
                        /\ \A j \in 1..n : i < j => (i - 1) * c + c <= (j - 1) * c
      OBVIOUS
    <2>1. PICK k \in Nat : k = i - 1 /\ k < n
      OBVIOUS
    <2>2. k * c \in Nat /\ \A j \in Nat : k < j => k * c + c <= j * c
      BY Products
    <2>3. ASSUME NEW j \in 1..n, i < j PROVE k * c + c <= (j - 1) * c
      <3>1. PICK m \in Nat : m = j - 1 /\ k < m
        BY <2>1, <2>3
      <3> QED BY <2>2, <3>1
    <2> QED BY <2>1, <2>2, <2>3
  <1>5. \A i \in 1..n : ToCode(text[i]) \in Nat /\ ToCode(text[i]) < 2 ^ c
    <2>1. PICK h \in Nat : h = Half /\ 2 ^ c = 2 * h
      BY <1>1, CodeFacts
    <2>2. \A i \in 1..n : ToCode(text[i]) \in 0..2 * h - 1
      BY <1>2, <2>1, CodeFacts
    <2> QED BY <2>1, <2>2
  <1>6. CodePins(text) = {[at |-> (i - 1) * c, len |-> c, value |-> ToCode(text[i])] : i \in 1..n}
    BY <1>1, <1>2 DEF CodePins
  <1>7. CodePins(text) \subseteq Site
    <2> SUFFICES ASSUME NEW i \in 1..n
                 PROVE  [at |-> (i - 1) * c, len |-> c, value |-> ToCode(text[i])] \in Site
      BY <1>6
    <2>1. PICK p \in Nat, v \in Nat : p = (i - 1) * c /\ v = ToCode(text[i])
      BY <1>4, <1>5
    <2>2. [at |-> p, len |-> c, value |-> v] \in Site
      BY DEF Site
    <2> QED BY <2>1, <2>2
  <1>8. \A l \in CodePins(text) : l.at + l.len <= n * c /\ l.value < 2 ^ l.len
    <2> SUFFICES ASSUME NEW l \in CodePins(text) PROVE l.at + l.len <= n * c /\ l.value < 2 ^ l.len
      OBVIOUS
    <2>1. PICK i \in 1..n : l = [at |-> (i - 1) * c, len |-> c, value |-> ToCode(text[i])]
      BY <1>6
    <2>2. l.at = (i - 1) * c /\ l.len = c /\ l.value = ToCode(text[i])
      BY <2>1
    <2> QED BY <1>4, <1>5, <2>2
  <1>9. \A l, m \in CodePins(text) : l = m \/ Apart(l, m)
    <2> SUFFICES ASSUME NEW l \in CodePins(text), NEW m \in CodePins(text) PROVE l = m \/ Apart(l, m)
      OBVIOUS
    <2>1. PICK i \in 1..n : l = [at |-> (i - 1) * c, len |-> c, value |-> ToCode(text[i])]
      BY <1>6
    <2>2. PICK j \in 1..n : m = [at |-> (j - 1) * c, len |-> c, value |-> ToCode(text[j])]
      BY <1>6
    <2>3. l.at = (i - 1) * c /\ l.len = c /\ m.at = (j - 1) * c /\ m.len = c
      BY <2>1, <2>2
    <2>4. i = j \/ i < j \/ j < i
      OBVIOUS
    <2>5. CASE i = j
      BY <2>1, <2>2, <2>5
    <2>6. CASE i < j
      <3>1. l.at + l.len <= m.at
        BY <1>4, <2>3, <2>6
      <3> QED BY <3>1 DEF Apart
    <2>7. CASE j < i
      <3>1. m.at + m.len <= l.at
        BY <1>4, <2>3, <2>7
      <3> QED BY <3>1 DEF Apart
    <2> QED BY <2>4, <2>5, <2>6, <2>7
  <1> QED BY <1>1, <1>2, <1>3, <1>7, <1>8, <1>9 DEF Pinned

CodesOf(bits, n) == [i \in 1..n \div CodeBits |-> BitsAt(bits, (i - 1) * CodeBits, CodeBits)]

\* What DecodeText makes of codes without controls, and how it tells.
DecodesTo(text, codes, rest) ==
    /\ text.controls = <<>> <=> \A i \in DOMAIN codes : codes[i] \notin Controls
    /\ text.controls = <<>> => text.characters = [i \in DOMAIN codes |-> FromCode(codes[i])]
    /\ text.residue = rest

LEMMA TextOf ==
    ASSUME NEW bits, NEW n, CodesOf(bits, n) \in Seq(0..2 * Half - 1)
    PROVE  DecodesTo(DecodeText(bits, n), CodesOf(bits, n), n % CodeBits)
  <1>0. PICK codes \in Seq(0..2 * Half - 1) : codes = CodesOf(bits, n)
    OBVIOUS
  <1> DEFINE data == Selected(codes, (0..2 * Half - 1) \ Controls)
             other == Selected(codes, Controls)
  <1>1. DecodeText(bits, n) = [characters |-> [i \in DOMAIN data |-> FromCode(data[i])],
                               controls |-> other, residue |-> n % CodeBits]
    BY <1>0 DEF DecodeText, CodesOf
  <1>2. DOMAIN codes = 1..Len(codes)
    BY <1>0
  <1>3. other = <<>> <=> \A i \in 1..Len(codes) : codes[i] \notin Controls
    BY <1>0, SelectedNone
  <1>4. ASSUME other = <<>> PROVE data = codes
    <2>1. \A i \in 1..Len(codes) : codes[i] \in (0..2 * Half - 1) \ Controls
      <3>1. PICK U : U = 0..2 * Half - 1
        OBVIOUS
      <3>2. codes \in Seq(U)
        BY <1>0, <3>1, Zenon
      <3>3. \A i \in 1..Len(codes) : codes[i] \in U
        BY <3>2
      <3> QED BY <1>3, <1>4, <3>1, <3>3, Zenon
    <2> HIDE DEF data
    <2>2. \A S : (\A i \in 1..Len(codes) : codes[i] \in S) => Selected(codes, S) = codes
      BY <1>0, SelectedAll
    <2> QED BY <2>1, <2>2, Zenon DEF data
  <1> HIDE DEF data, other
  <1>5. /\ DecodeText(bits, n).characters = [i \in DOMAIN data |-> FromCode(data[i])]
        /\ DecodeText(bits, n).controls = other /\ DecodeText(bits, n).residue = n % CodeBits
    BY <1>1
  <1> QED BY <1>0, <1>2, <1>3, <1>4, <1>5 DEF DecodesTo

\* A text that is written is read.
LEMMA TextRead ==
    ASSUME NEW text \in Seq(Nat), \A i \in DOMAIN text : AcceptedCharacter(text[i]),
           NEW n, n = Len(text) * CodeBits
    PROVE  /\ DecodeText(EncodeText(text), n).characters = text
           /\ DecodeText(EncodeText(text), n).controls = <<>>
           /\ DecodeText(EncodeText(text), n).residue = 0
           /\ EncodeText(text) \in [1..n -> {0, 1}] /\ n \in Nat
  <1>1. PICK c \in Nat \ {0} : c = CodeBits
    BY CodeFacts
  <1>2. PICK k \in Nat : k = Len(text) /\ DOMAIN text = 1..k
    OBVIOUS
  <1>3. \A i \in DOMAIN text : text[i] \in Half..3 * Half - 1 /\ ToCode(text[i]) \notin Controls
    BY DEF AcceptedCharacter
  <1>4. Pinned(CodePins(text), n) /\ n \in Nat
    BY <1>3, CodesPinned
  <1>5. n \div c = k /\ n % c = 0
    <2>1. (k * c + 0) \div c = k /\ k * c \in Nat
      BY Quotient, Products
    <2>2. (k * c) % c = 0
      OBVIOUS
    <2>3. k * c + 0 = k * c
      BY <2>1
    <2> QED BY <1>1, <1>2, <2>1, <2>2, <2>3
  <1> DEFINE bits == EncodeText(text)
             codes == [i \in 1..k |-> ToCode(text[i])]
  <1>6. bits = SetBits(Zeros(n), CodePins(text))
    BY DEF EncodeText, CodePins
  <1>7. bits \in [1..n -> {0, 1}]
    BY <1>6 DEF SetBits, Zeros
  <1> HIDE DEF bits
  <1>8. CodesOf(bits, n) = codes
    <2>1. ASSUME NEW i \in 1..k PROVE BitsAt(bits, (i - 1) * CodeBits, CodeBits) = ToCode(text[i])
      <3>1. PICK l \in CodePins(text) : l.at = (i - 1) * CodeBits /\ l.len = CodeBits /\ l.value = ToCode(text[i])
        <4>1. [at |-> (i - 1) * CodeBits, len |-> CodeBits, value |-> ToCode(text[i])] \in CodePins(text)
          BY <1>2 DEF CodePins
        <4> QED BY <4>1
      <3>2. BitsAt(bits, l.at, l.len) = l.value
        BY <1>4, <1>6, WrittenIsRead
      <3> QED BY <3>1, <3>2
    <2> QED BY <1>1, <1>5, <2>1 DEF CodesOf
  <1>9. \A i \in 1..k : codes[i] \in 0..2 * Half - 1 /\ codes[i] \notin Controls /\ FromCode(codes[i]) = text[i]
    BY <1>2, <1>3, CodeFacts
  <1>10. codes \in Seq(0..2 * Half - 1) /\ DOMAIN codes = 1..k
    <2>1. PICK U : U = 0..2 * Half - 1
      OBVIOUS
    <2>2. codes \in [1..k -> U]
      BY <1>9, <2>1
    <2> HIDE DEF codes
    <2>3. codes \in Seq(U) /\ DOMAIN codes = 1..k
      BY <1>2, <2>2
    <2> QED BY <2>1, <2>3, Zenon
  <1>11. [i \in DOMAIN codes |-> FromCode(codes[i])] = text
    <2>1. \A i \in 1..k : FromCode(codes[i]) = text[i]
      BY <1>9
    <2>2. text = [i \in 1..k |-> text[i]]
      BY <1>2
    <2> HIDE DEF codes
    <2> QED BY <1>10, <2>1, <2>2
  <1> HIDE DEF codes
  <1>12. \A i \in DOMAIN codes : codes[i] \notin Controls
    BY <1>9, <1>10
  <1>13. /\ DecodeText(bits, n).controls = <<>> /\ DecodeText(bits, n).residue = n % CodeBits
         /\ DecodeText(bits, n).characters = [i \in DOMAIN codes |-> FromCode(codes[i])]
    <2>1. DecodesTo(DecodeText(bits, n), codes, n % CodeBits)
      BY <1>8, <1>10, TextOf
    <2> QED BY <1>12, <2>1 DEF DecodesTo
  <1> QED BY <1>1, <1>4, <1>5, <1>7, <1>11, <1>13 DEF bits

\* What is written at a site has the bits of its value there.
LEMMA WrittenBits ==
    ASSUME NEW pins, NEW n \in Nat, Pinned(pins, n), NEW l \in pins
    PROVE  HasBits(SetBits(Zeros(n), pins), l.at, l.len, l.value)
  <1>1. l.value \in Nat /\ l.value < 2 ^ l.len
    BY DEF Pinned, Site
  <1>2. ASSUME NEW i \in 1..l.len PROVE SetBits(Zeros(n), pins)[l.at + i] = BitOf(l.value, l.len, i)
    BY BitsWritten
  <1> QED BY <1>1, <1>2 DEF HasBits

\* The text writes the first n bits.
WritesAs(text, bits, n) ==
    /\ text \in Seq(Nat) /\ n = Len(text) * CodeBits
    /\ \A i \in DOMAIN text : AcceptedCharacter(text[i])
    /\ EncodeText(text) = SubSeq(bits, 1, n)

\* And a text that is read is written, as the bits it was read from.
LEMMA TextWritten ==
    ASSUME NEW bits \in Seq({0, 1}), NEW n \in Nat, n <= Len(bits),
           DecodeText(bits, n).controls = <<>>, DecodeText(bits, n).residue = 0,
           NEW text, text = DecodeText(bits, n).characters
    PROVE  WritesAs(text, bits, n)
  <1>1. PICK c \in Nat \ {0} : c = CodeBits
    BY CodeFacts
  <1>2. PICK k \in Nat, r \in Nat : n = k * c + r /\ n \div c = k /\ n % c = r
    BY Division
  <1> DEFINE codes == CodesOf(bits, n)
  <1>3. codes = [i \in 1..k |-> BitsAt(bits, (i - 1) * c, c)]
    BY <1>1, <1>2 DEF CodesOf
  <1> HIDE DEF codes
  <1>4. \A i \in 1..k : (i - 1) * c \in Nat /\ (i - 1) * c + c <= n
    <2> SUFFICES ASSUME NEW i \in 1..k PROVE (i - 1) * c \in Nat /\ (i - 1) * c + c <= n
      OBVIOUS
    <2>1. PICK j \in Nat : j = i - 1 /\ j < k
      OBVIOUS
    <2>2. j * c \in Nat /\ j * c + c <= k * c /\ k * c \in Nat
      BY <2>1, Products
    <2> QED BY <1>2, <2>1, <2>2
  <1>5. \A i \in 1..k : HasBits(bits, (i - 1) * c, c, codes[i])
    <2> SUFFICES ASSUME NEW i \in 1..k PROVE HasBits(bits, (i - 1) * c, c, codes[i])
      OBVIOUS
    <2>1. PICK at \in Nat : at = (i - 1) * c /\ at + c <= n
      BY <1>4
    <2>2. \A j \in 1..c : bits[at + j] \in {0, 1}
      <3>1. \A b \in 1..Len(bits) : bits[b] \in {0, 1}
        OBVIOUS
      <3>2. \A j \in 1..c : at + j \in 1..Len(bits)
        BY <2>1
      <3> QED BY <3>1, <3>2
    <2>3. HasBits(bits, at, c, BitsAt(bits, at, c))
      BY <2>2, BitsAtBits
    <2> QED BY <1>3, <2>1, <2>3
  <1>6. \A i \in 1..k : codes[i] \in 0..2 * Half - 1
    <2>1. PICK h \in Nat : h = Half /\ 2 ^ c = 2 * h
      BY <1>1, CodeFacts
    <2> QED BY <1>5, <2>1 DEF HasBits
  <1>7. codes \in [1..k -> 0..2 * Half - 1]
    BY <1>3, <1>6
  <1>8. codes \in Seq(0..2 * Half - 1) /\ DOMAIN codes = 1..k
    <2>1. PICK U : U = 0..2 * Half - 1
      OBVIOUS
    <2>2. codes \in [1..k -> U]
      BY <1>7, <2>1, Zenon
    <2>3. codes \in Seq(U) /\ DOMAIN codes = 1..k
      BY <1>2, <2>2
    <2> QED BY <2>1, <2>3, Zenon
  <1>9. /\ \A i \in DOMAIN codes : codes[i] \notin Controls
        /\ text = [i \in DOMAIN codes |-> FromCode(codes[i])] /\ n % CodeBits = 0
    <2>1. codes = CodesOf(bits, n)
      BY DEF codes
    <2>2. DecodesTo(DecodeText(bits, n), codes, n % CodeBits)
      BY <1>8, <2>1, TextOf
    <2> QED BY <2>2 DEF DecodesTo
  <1>10. \A i \in 1..k : /\ text[i] \in Half..3 * Half - 1 /\ ToCode(text[i]) = codes[i]
                         /\ AcceptedCharacter(text[i])
    <2> SUFFICES ASSUME NEW i \in 1..k
                 PROVE  /\ text[i] \in Half..3 * Half - 1 /\ ToCode(text[i]) = codes[i]
                        /\ AcceptedCharacter(text[i])
      OBVIOUS
    <2>1. text[i] = FromCode(codes[i]) /\ codes[i] \notin Controls
      BY <1>8, <1>9
    <2>2. FromCode(codes[i]) \in Half..3 * Half - 1 /\ ToCode(FromCode(codes[i])) = codes[i]
      BY <1>6, CodeFacts
    <2> QED BY <2>1, <2>2, Zenon DEF AcceptedCharacter
  <1>11. text \in Seq(Nat) /\ Len(text) = k /\ DOMAIN text = 1..k
    <2>1. PICK h \in Nat : h = Half
      BY CodeFacts
    <2>2. \A i \in 1..k : text[i] \in Nat
      BY <1>10, <2>1
    <2>3. text \in [1..k -> Nat]
      BY <1>8, <1>9, <2>2
    <2> QED BY <2>3
  <1>12. n = k * c
    <2>1. k * c \in Nat
      BY Products
    <2> QED BY <1>1, <1>2, <1>9, <2>1
  <1>13. EncodeText(text) = SubSeq(bits, 1, n)
    <2>1. EncodeText(text) = SetBits(Zeros(n), CodePins(text))
      BY <1>1, <1>11, <1>12 DEF EncodeText, CodePins
    <2>2. Pinned(CodePins(text), n)
      BY <1>1, <1>10, <1>11, <1>12, CodesPinned
    <2>3. EncodeText(text) \in [1..n -> {0, 1}]
      BY <2>1 DEF SetBits, Zeros
    <2>4. ASSUME NEW b \in 1..n PROVE EncodeText(text)[b] = bits[b]
      <3>1. PICK a \in Nat : a = b - 1
        OBVIOUS
      <3>2. PICK q \in Nat, e \in Nat : e < c /\ a = q * c + e
        <4>1. \E q \in Nat, e \in Nat : e < c /\ a = q * c + e /\ a \div c = q /\ a % c = e
          BY <1>1, <3>1, Division, Zenon
        <4> QED BY <4>1, Zenon
      <3>3. q < k
        <4> SUFFICES ASSUME k <= q PROVE FALSE
          OBVIOUS
        <4>1. k * c <= q * c
          <5>1. k * c \in Nat /\ q * c \in Nat /\ (k < q => k * c + c <= q * c)
            BY Products
          <5> QED BY <5>1
        <4>2. k * c \in Nat /\ q * c \in Nat
          BY Products
        <4> QED BY <1>12, <3>1, <3>2, <4>1, <4>2
      <3>4. PICK i \in 1..k : i - 1 = q
        <4>1. q + 1 \in 1..k /\ (q + 1) - 1 = q
          BY <3>3
        <4> QED BY <4>1
      <3>5. PICK j \in 1..c : j = e + 1
        BY <3>2
      <3>6. b = (i - 1) * c + j
        BY <3>1, <3>2, <3>4, <3>5
      <3>7. PICK l \in CodePins(text) : l.at = (i - 1) * c /\ l.len = c /\ l.value = codes[i]
        <4>1. [at |-> (i - 1) * c, len |-> c, value |-> codes[i]] \in CodePins(text)
          BY <1>1, <1>10, <1>11 DEF CodePins
        <4> QED BY <4>1
      <3>8. SetBits(Zeros(n), CodePins(text))[l.at + j] = BitOf(l.value, l.len, j)
        <4>1. HasBits(SetBits(Zeros(n), CodePins(text)), l.at, l.len, l.value)
          BY <2>2, <3>7, WrittenBits
        <4> QED BY <3>7, <4>1 DEF HasBits
      <3>9. bits[(i - 1) * c + j] = BitOf(codes[i], c, j)
        BY <1>5 DEF HasBits
      <3> QED BY <2>1, <3>6, <3>7, <3>8, <3>9
    <2>5. /\ SubSeq(bits, 1, n) \in Seq({0, 1}) /\ Len(SubSeq(bits, 1, n)) = n
          /\ \A b \in 1..n : SubSeq(bits, 1, n)[b] = bits[b]
      OBVIOUS
    <2>6. PICK z \in Seq({0, 1}) : z = SubSeq(bits, 1, n)
      BY <2>5
    <2>7. z \in [1..Len(z) -> {0, 1}]
      OBVIOUS
    <2> QED BY <2>3, <2>4, <2>5, <2>6, <2>7
  <1> QED BY <1>1, <1>10, <1>11, <1>12, <1>13 DEF WritesAs

-----------------------------------------------------------------------------
(* What is written of a GS1 tag again                                      *)

\* What a value renders parses, and the other way round.
LEMMA RenderedParses ==
    ASSUME NEW f \in FieldTexts, ~f.fixed => f.length = 0, f.fixed => f.max < Power(f.length),
           NEW v \in Nat, v <= f.max
    PROVE  Parses(f, Render(f, v)) /\ Render(f, v).v = v
  <1>1. f.length \in Nat /\ f.max \in Nat /\ f.fixed \in BOOLEAN /\ f.padRight = FALSE
    BY DEF FieldTexts
  <1>2. Render(f, v).v = v /\ (f.fixed => Render(f, v).w = f.length)
    BY RenderFacts
  <1>3. CASE ZeroLength(f)
    BY <1>2, <1>3 DEF Parses, Render
  <1>4. CASE ~ZeroLength(f)
    <2>1. CASE f.fixed
      <3>1. f.length \in Nat \ {0}
        BY <1>1, <1>4, <2>1 DEF ZeroLength
      <3> QED BY <1>2, <1>4, <2>1, <3>1 DEF Parses
    <2>2. CASE ~f.fixed
      <3>1. Digits(v) \in Nat \ {0} /\ IsWidth(v, Digits(v))
        BY DigitsAre
      <3>2. Render(f, v) = [w |-> Digits(v), v |-> v]
        BY <1>1, <1>4, <2>2 DEF Render
      <3>3. Render(f, v).w = Digits(v)
        BY <3>2
      <3> QED BY <1>2, <1>4, <2>2, <3>1, <3>3 DEF Parses, IsWidth
    <2> QED BY <1>1, <2>1, <2>2
  <1> QED BY <1>3, <1>4

\* A component has room for what its tag field says, and is written like it.
LEMMA ComponentFacts ==
    ASSUME NEW x \in Layouts, NEW i \in DOMAIN x.pure
    PROVE  /\ x.pure[i] \in FieldTexts /\ x.tag[i + 1] \in FieldTexts /\ i + 1 \in DOMAIN x.binary
           /\ x.binary[i + 1].max = x.tag[i + 1].max /\ x.tag[i + 1].max <= x.pure[i].max
           /\ ~x.pure[i].fixed => x.pure[i].length = 0 /\ Base - 1 <= x.tag[i + 1].max
           /\ x.pure[i].fixed => /\ x.pure[i].max = Power(x.pure[i].length) - 1
                                 /\ x.tag[i + 1].max = x.pure[i].max
                                 /\ x.pure[i].max < Power(x.pure[i].length)
           /\ \A v : Render(x.tag[i + 1], v) = Render(x.pure[i], v)
  <1>1. PICK o \in Options(x.s) : x = LayoutOf(x.s, o)
    BY LayoutOption
  <1>2. x.pure = o.pure /\ x.tag = o.tag /\ x.s \in Definitions
    BY <1>1, LayoutOption DEF LayoutOf
  <1>3. /\ x.tag[i + 1].max <= x.pure[i].max
        /\ IF x.pure[i].fixed THEN x.pure[i].max = Power(x.pure[i].length) - 1 ELSE Base - 1 <= x.tag[i + 1].max
        /\ x.pure[i].fixed => x.tag[i + 1].max = x.pure[i].max
    BY <1>2, LayoutAssumption DEF TextsHold
  <1>4. i + 1 \in DOMAIN x.binary
    BY LayoutSequences
  <1>5. /\ x.tag[i + 1] \in FieldTexts /\ x.binary[i + 1].max = x.tag[i + 1].max
        /\ ~x.tag[i + 1].fixed => x.tag[i + 1].length = 0
    BY <1>4, LayoutSites
  <1>6. x.pure[i] \in FieldTexts
    BY LayoutSequences
  <1>7. SameRendering(x.tag[i + 1], x.pure[i])
    BY LayoutRenderings
  <1>8. \A v : Render(x.tag[i + 1], v) = Render(x.pure[i], v)
    BY <1>7 DEF SameRendering, Render, ZeroLength
  <1>9. x.pure[i].fixed => x.pure[i].max < Power(x.pure[i].length)
    <2>1. x.pure[i].length \in Nat
      BY <1>6 DEF FieldTexts
    <2>2. Power(x.pure[i].length) \in Nat
      BY <2>1, PowersGrow
    <2> QED BY <1>3, <2>2
  <1> QED BY <1>3, <1>4, <1>5, <1>6, <1>7, <1>8, <1>9 DEF SameRendering

\* What a tag says, an identity can: its components are canonical.
LEMMA ReadingCanonical ==
    ASSUME NEW x \in Layouts, NEW t, ReadsAs(t, x)
    PROVE  /\ Canonical(x, t.components)
           /\ \A i \in DOMAIN x.pure : /\ t.components[i].v = Values(x, t.bits)[i + 1]
                                       /\ t.components[i].v \in Nat /\ t.components[i].v <= x.binary[i + 1].max
           /\ t.filter = Values(x, t.bits)[1] /\ t.filter \in Nat /\ t.filter <= x.tag[1].max
           /\ t.fields[1].v = t.filter /\ Parses(x.tag[1], t.fields[1])
  <1>1. /\ \A i \in DOMAIN x.binary : /\ t.fields[i] = Render(x.tag[i], Values(x, t.bits)[i])
                                      /\ Values(x, t.bits)[i] \in Nat
                                      /\ Values(x, t.bits)[i] <= x.binary[i].max
        /\ t.components \in [DOMAIN x.pure -> Text] /\ t.components \in Seq(Text)
        /\ \A i \in DOMAIN x.pure : t.components[i] = t.fields[i + 1]
    BY ReadingFields
  <1>2. /\ DOMAIN x.binary = 1..Len(x.pure) + 1 /\ DOMAIN x.pure = 1..Len(x.pure)
        /\ Len(x.pure) \in Nat \ {0}
    BY LayoutSequences
  <1>3. ASSUME NEW i \in DOMAIN x.pure
        PROVE  /\ t.components[i].v = Values(x, t.bits)[i + 1]
               /\ t.components[i].v \in Nat /\ t.components[i].v <= x.binary[i + 1].max
               /\ Parses(x.pure[i], t.components[i])
               /\ Render(x.pure[i], t.components[i].v) = t.components[i]
    <2>1. PICK v \in Nat : v = Values(x, t.bits)[i + 1] /\ v <= x.binary[i + 1].max
      BY <1>1, ComponentFacts
    <2>2. t.components[i] = Render(x.pure[i], v)
      BY <1>1, <2>1, ComponentFacts
    <2>3. x.pure[i] \in FieldTexts /\ v <= x.pure[i].max
      <3>1. /\ x.pure[i] \in FieldTexts /\ x.tag[i + 1] \in FieldTexts
            /\ x.binary[i + 1].max = x.tag[i + 1].max /\ x.tag[i + 1].max <= x.pure[i].max
        BY ComponentFacts
      <3>2. x.pure[i].max \in Nat /\ x.tag[i + 1].max \in Nat
        BY <3>1 DEF FieldTexts
      <3> QED BY <2>1, <3>1, <3>2
    <2>4. Parses(x.pure[i], Render(x.pure[i], v)) /\ Render(x.pure[i], v).v = v
      BY <2>3, ComponentFacts, RenderedParses
    <2> QED BY <2>1, <2>2, <2>4
  <1>4. t.components[1].w = x.gcpLength
    <2>1. 1 \in DOMAIN x.pure /\ 2 \in DOMAIN x.binary
      BY <1>2
    <2>2. /\ x.tag[2] \in FieldTexts /\ x.tag[2].max = x.binary[2].max
          /\ ~x.tag[2].fixed => x.tag[2].length = 0
          /\ x.tag[2].fixed => x.tag[2].max < Power(x.tag[2].length)
      BY <2>1, LayoutSites
    <2>3. x.tag[2].fixed /\ x.tag[2].length = x.gcpLength
      BY PrefixRendered
    <2>4. PICK v \in Nat : v = Values(x, t.bits)[2] /\ v <= x.tag[2].max
      BY <1>1, <2>1, <2>2
    <2>5. Render(x.tag[2], v).w = x.gcpLength
      BY <2>2, <2>3, <2>4, RenderFacts
    <2>6. t.components[1] = Render(x.tag[2], v)
      <3>1. t.components[1] = t.fields[1 + 1]
        BY <1>1, <2>1
      <3> QED BY <1>1, <2>1, <2>4, <3>1
    <2> QED BY <2>5, <2>6
  <1>5. Len(t.components) = Len(x.pure) /\ DOMAIN t.components = DOMAIN x.pure
    <2>1. DOMAIN t.components = 1..Len(t.components) /\ Len(t.components) \in Nat
      BY <1>1
    <2> QED BY <1>1, <1>2, <2>1
  <1>6. Canonical(x, t.components)
    BY <1>3, <1>4, <1>5 DEF Canonical
  <1>7. 1 \in DOMAIN x.binary
    BY <1>2
  <1>8. t.filter = Values(x, t.bits)[1]
    BY DEF ReadsAs, Translated
  <1>9. /\ x.tag[1] \in FieldTexts /\ x.tag[1].max = x.binary[1].max
        /\ ~x.tag[1].fixed => x.tag[1].length = 0
        /\ x.tag[1].fixed => x.tag[1].max < Power(x.tag[1].length)
    BY <1>7, LayoutSites
  <1>10. t.filter \in Nat /\ t.filter <= x.tag[1].max /\ t.fields[1] = Render(x.tag[1], t.filter)
    BY <1>1, <1>7, <1>8, <1>9
  <1>11. Parses(x.tag[1], Render(x.tag[1], t.filter)) /\ Render(x.tag[1], t.filter).v = t.filter
    BY <1>9, <1>10, RenderedParses
  <1> QED BY <1>3, <1>6, <1>8, <1>10, <1>11

\* Canonical components that the fields have room for are encoded.
LEMMA CanonicalEncodes ==
    ASSUME NEW x \in Layouts, NEW v, v.domain = <<"gs1", x.s.keyType>>, v.components \in Seq(Text),
           Canonical(x, v.components), NEW filter \in Nat, filter <= x.tag[1].max,
           \A i \in DOMAIN x.pure : v.components[i].v <= x.binary[i + 1].max
    PROVE  Encode(v, x.s.id, filter) # {}
  <1> DEFINE values == ValuesOf(v.components, filter)
  <1>1. /\ DOMAIN values = 1..Len(v.components) + 1 /\ values[1] = filter
        /\ \A i \in DOMAIN v.components : values[i + 1] = v.components[i].v
        /\ DOMAIN v.components = 1..Len(v.components) /\ Len(v.components) \in Nat
    BY ValuesWritten
  <1>2. DOMAIN x.pure = 1..Len(x.pure) /\ Len(v.components) = Len(x.pure)
    BY LayoutSequences DEF Canonical
  <1>3. 1 \in DOMAIN x.binary /\ x.binary[1].max = x.tag[1].max
    <2>1. 1 \in DOMAIN x.binary
      BY LayoutSequences
    <2> QED BY <2>1, LayoutSites
  <1> HIDE DEF values
  <1>4. WithinMaxima(x, values)
    <2> SUFFICES ASSUME NEW i \in DOMAIN values PROVE values[i] <= x.binary[i].max
      BY DEF WithinMaxima
    <2>1. CASE i = 1
      BY <1>1, <1>3, <2>1
    <2>2. CASE i # 1
      <3>1. PICK j \in DOMAIN x.pure : i = j + 1
        <4>1. i - 1 \in DOMAIN x.pure /\ i = (i - 1) + 1
          BY <1>1, <1>2, <2>2
        <4> QED BY <4>1
      <3>2. values[j + 1] = v.components[j].v
        BY <1>1, <1>2, <3>1
      <3> QED BY <3>1, <3>2
    <2> QED BY <2>1, <2>2
  <1> DEFINE Fits(y) == /\ y.s.id = x.s.id
                        /\ v.domain = <<"gs1", y.s.keyType>>
                        /\ Canonical(y, v.components)
                        /\ filter <= y.tag[1].max
                        /\ WithinMaxima(y, values)
             Written(y) == Translated(y, values, SetBits(Zeros(y.s.tagLength),
                                                         y.literals \cup FieldPins(y, values, DOMAIN values)))
  <1>5. Encode(v, x.s.id, filter) = {Written(y) : y \in {z \in Layouts : Fits(z)}}
    BY DEF Encode, values, ValuesOf, FieldPins
  <1>6. Fits(x)
    BY <1>4
  <1> HIDE DEF Fits, Written
  <1> QED BY <1>5, <1>6

\* Identity, scheme and filter determine the tag, bits and all.
LEMMA ReadingUnique ==
    ASSUME NEW x \in Layouts, NEW t, ReadsAs(t, x), NEW y \in Layouts, NEW u, ReadsAs(u, y),
           t.scheme = u.scheme, t.components = u.components
    PROVE  x = y /\ (t.filter = u.filter => t = u)
  <1>1. x.s = y.s
    <2>1. x.s \in Definitions /\ y.s \in Definitions /\ x.s.id = y.s.id
      BY LayoutOption, ReadingFields
    <2> QED BY <2>1, LayoutAssumption DEF SelectorsDistinct
  <1>2. x.gcpLength = y.gcpLength
    BY ReadingCanonical DEF Canonical
  <1>3. x = y
    BY <1>1, <1>2, LayoutSelected
  <1>4. ASSUME t.filter = u.filter PROVE t = u
    <2>1. ReadsAs(u, x)
      BY <1>3
    <2>2. PICK n \in Nat : n = x.s.tagLength
      BY LayoutSizes
    <2>3. t.bits \in [1..n -> {0, 1}] /\ u.bits \in [1..n -> {0, 1}]
      BY <2>1, <2>2 DEF ReadsAs
    <2>4. ASSUME NEW i \in DOMAIN x.binary PROVE Values(x, t.bits)[i] = Values(x, u.bits)[i]
      <3>1. CASE i = 1
        BY <1>4, <2>1, <3>1, ReadingCanonical
      <3>2. CASE i # 1
        <4>1. PICK j \in DOMAIN x.pure : i = j + 1
          <5>1. DOMAIN x.binary = 1..Len(x.pure) + 1 /\ DOMAIN x.pure = 1..Len(x.pure) /\ Len(x.pure) \in Nat
            BY LayoutSequences
          <5>2. i - 1 \in DOMAIN x.pure /\ i = (i - 1) + 1
            BY <3>2, <5>1
          <5> QED BY <5>2
        <4>2. t.components[j].v = Values(x, t.bits)[j + 1] /\ u.components[j].v = Values(x, u.bits)[j + 1]
          BY <2>1, <4>1, ReadingCanonical
        <4> QED BY <4>1, <4>2
      <3> QED BY <3>1, <3>2
    <2>5. Values(x, t.bits) = Values(x, u.bits)
      BY <2>4 DEF Values
    <2>6. ASSUME NEW b \in 1..n PROVE t.bits[b] = u.bits[b]
      <3>1. PICK l \in x.literals \cup Range(x.binary) : b \in l.at + 1..l.at + l.len
        <4>1. PICK o \in Options(x.s) : x = LayoutOf(x.s, o)
          BY LayoutOption
        <4>2. x.s \in Definitions /\ x.literals = o.literals /\ x.binary = o.binary
          BY <4>1, LayoutOption DEF LayoutOf
        <4> QED BY <2>2, <4>2, LayoutAssumption DEF SitesCover
      <3>2. /\ l.at \in Nat /\ l.len \in Nat /\ l.at + l.len <= n
            /\ BitsAt(t.bits, l.at, l.len) = BitsAt(u.bits, l.at, l.len)
        <4>1. CASE l \in x.literals
          <5>1. l.at \in Nat /\ l.len \in Nat
            BY <4>1, LayoutFacts DEF Site
          <5>2. BitsAt(t.bits, l.at, l.len) = l.value /\ BitsAt(u.bits, l.at, l.len) = l.value
            BY <2>1, <4>1 DEF ReadsAs, LiteralsHold
          <5> QED BY <2>2, <4>1, <5>1, <5>2, LayoutSites
        <4>2. CASE l \in Range(x.binary)
          <5>1. PICK i \in DOMAIN x.binary : l = x.binary[i]
            BY <4>2 DEF Range
          <5>2. l.at \in Nat /\ l.len \in Nat /\ l.at + l.len <= n
            BY <2>2, <5>1, LayoutSites DEF FieldSites
          <5>3. /\ Values(x, t.bits)[i] = BitsAt(t.bits, l.at, l.len)
                /\ Values(x, u.bits)[i] = BitsAt(u.bits, l.at, l.len)
            BY <5>1 DEF Values
          <5> QED BY <2>5, <5>2, <5>3
        <4> QED BY <3>1, <4>1, <4>2
      <3>3. PICK i \in 1..l.len : b = l.at + i
        <4>1. b - l.at \in 1..l.len /\ b = l.at + (b - l.at)
          BY <3>1, <3>2
        <4> QED BY <4>1
      <3>4. \A j \in 1..l.len : l.at + j \in 1..n
        BY <3>2
      <3>5. \A j \in 1..l.len : t.bits[l.at + j] \in {0, 1} /\ u.bits[l.at + j] \in {0, 1}
        BY <2>3, <3>4
      <3>6. /\ HasBits(t.bits, l.at, l.len, BitsAt(t.bits, l.at, l.len))
            /\ HasBits(u.bits, l.at, l.len, BitsAt(u.bits, l.at, l.len))
        BY <3>2, <3>5, BitsAtBits
      <3> QED BY <3>2, <3>3, <3>6 DEF HasBits
    <2>7. t.bits = u.bits
      BY <2>3, <2>6
    <2> QED BY <2>1, <2>7 DEF ReadsAs
  <1> QED BY <1>3, <1>4

\* The filters of one layout are those of every other one.
LEMMA FiltersFit ==
    ASSUME NEW x \in Layouts, NEW f \in Filters
    PROVE  f \in Nat /\ f <= x.tag[1].max
  <1>1. PICK y \in Layouts : f \in 0..y.tag[1].max
    BY DEF Filters
  <1>2. PICK o \in Options(x.s) : x = LayoutOf(x.s, o)
    BY LayoutOption
  <1>3. PICK q \in Options(y.s) : y = LayoutOf(y.s, q)
    BY LayoutOption
  <1>4. x.s \in Definitions /\ y.s \in Definitions /\ x.tag = o.tag /\ y.tag = q.tag
    BY <1>2, <1>3, LayoutOption DEF LayoutOf
  <1>5. x.tag[1].max = y.tag[1].max
    BY <1>4, LayoutAssumption DEF SelectorsDistinct
  <1>6. f \in Nat
    BY FiltersAreNumbers
  <1>7. 1 \in DOMAIN y.tag
    BY LayoutSequences
  <1>8. y.tag[1].max \in Nat
    BY <1>7, LayoutSequences DEF FieldTexts
  <1> QED BY <1>1, <1>5, <1>6, <1>8

\* Two tags of one kind, scheme and identity.
SameThing(t, u) == IdentityOf(t) = IdentityOf(u) /\ t.scheme = u.scheme /\ t.toggle = u.toggle

IsGS1(t) == \E x \in Layouts : ReadsAs(t, x)

\* Every tag of results is another one for what t names, and there is one.
Rewritten(results, t) == results # {} /\ \A u \in results : IsGS1(u) /\ SameThing(u, t)

\* With any filter there is room for, a tag is written again for the same thing.
LEMMA GS1Rewrites ==
    ASSUME NEW x \in Layouts, NEW t, ReadsAs(t, x), NEW f \in Nat, f <= x.tag[1].max
    PROVE  Rewritten(Encode(IdentityOf(t), t.scheme, f), t)
  <1> DEFINE v == IdentityOf(t)
  <1>1. v.components = t.components /\ v.domain = t.domain
    BY DEF IdentityOf
  <1> HIDE DEF v
  <1>2. v.components \in Seq(Text) /\ v.domain = <<"gs1", x.s.keyType>> /\ t.scheme = x.s.id /\ t.toggle = FALSE
    BY <1>1, ReadingFields
  <1>3. Canonical(x, v.components) /\ \A i \in DOMAIN x.pure : v.components[i].v <= x.binary[i + 1].max
    BY <1>1, ReadingCanonical
  <1>4. Encode(v, t.scheme, f) # {}
    BY <1>2, <1>3, CanonicalEncodes
  <1>5. ASSUME NEW u \in Encode(v, t.scheme, f) PROVE IsGS1(u) /\ SameThing(u, t)
    <2>1. PICK y \in Layouts : /\ ReadsAs(u, y) /\ y.s.id = t.scheme
                               /\ u.domain = v.domain /\ u.components = v.components
      BY <1>2, EncodedReads
    <2>2. u.scheme = y.s.id /\ u.toggle = FALSE
      BY <2>1, ReadingFields
    <2> QED BY <1>1, <1>2, <2>1, <2>2 DEF IsGS1, SameThing, IdentityOf
  <1> QED BY <1>4, <1>5 DEF Rewritten, v

\* The pure identity URI of a tag names what it names.
LEMMA PureURIKeeps ==
    ASSUME NEW x \in Layouts, NEW t, ReadsAs(t, x)
    PROVE  UNION {ParsePureURI(u) : u \in PureURI(IdentityOf(t))} = {IdentityOf(t)}
  <1> DEFINE uri == [family |-> "id", name |-> x.s.key, parts |-> t.components]
  <1>1. /\ t.domain = <<"gs1", x.s.keyType>> /\ t.components \in Seq(Text)
        /\ \A i \in DOMAIN x.pure : t.components[i] = t.fields[i + 1]
    BY ReadingFields
  <1>2. Canonical(x, t.components)
    BY ReadingCanonical
  <1>3. \A y \in Layouts : y.s.keyType = x.s.keyType \/ y.s.key = x.s.key => y.s = x.s
    <2>1. \A y \in Layouts : y.s \in Definitions
      BY LayoutOption
    <2> QED BY <2>1, LayoutAssumption DEF SelectorsDistinct
  <1>4. PureURI(IdentityOf(t)) = {uri}
    <2>1. t.domain[2] = x.s.keyType
      BY <1>1
    <2>2. PureURI(IdentityOf(t)) = {[family |-> "id", name |-> y.s.key, parts |-> t.components] :
                                       y \in {z \in Layouts : z.s.keyType = x.s.keyType /\ Canonical(z, t.components)}}
      BY <2>1 DEF PureURI, IdentityOf
    <2>3. x \in {z \in Layouts : z.s.keyType = x.s.keyType /\ Canonical(z, t.components)}
      BY <1>2
    <2>4. \A y \in {z \in Layouts : z.s.keyType = x.s.keyType /\ Canonical(z, t.components)} : y.s.key = x.s.key
      BY <1>3
    <2> QED BY <2>2, <2>3, <2>4
  <1>5. uri.family = "id" /\ uri.name = x.s.key /\ uri.parts = t.components
    OBVIOUS
  <1> HIDE DEF uri
  <1>6. ParsePureURI(uri) = {IdentityOf(t)}
    <2> DEFINE Fits(y) == y.s.key = x.s.key /\ t.components[1].w = y.gcpLength /\ PartsParse(y.pure, t.components)
    <2>1. ParsePureURI(uri) = {Identity("gs1", y.s.keyType, t.components) : y \in {z \in Layouts : Fits(z)}}
      BY <1>5 DEF ParsePureURI
    <2>2. Fits(x)
      BY <1>2 DEF Canonical, PartsParse
    <2>3. \A y \in {z \in Layouts : Fits(z)} : y.s.keyType = x.s.keyType
      BY <1>3
    <2>4. IdentityOf(t) = Identity("gs1", x.s.keyType, t.components)
      BY <1>1 DEF Identity, IdentityOf
    <2> HIDE DEF Fits
    <2> QED BY <2>1, <2>2, <2>3, <2>4
  <1> QED BY <1>4, <1>6

\* And the tag URI says the tag.
LEMMA TagURIKeeps ==
    ASSUME NEW x \in Layouts, NEW t, ReadsAs(t, x)
    PROVE  UNION {ParseTagURI(u) : u \in TagURI(t)} = Encode(IdentityOf(t), t.scheme, t.filter)
  <1> DEFINE uri == [family |-> "tag", name |-> x.s.id, parts |-> t.fields]
  <1>1. /\ t.domain = <<"gs1", x.s.keyType>> /\ t.scheme = x.s.id /\ t.components = Tail(t.fields)
        /\ t.fields \in [DOMAIN x.binary -> Text] /\ t.fields \in Seq(Text)
        /\ \A i \in DOMAIN x.pure : t.components[i] = t.fields[i + 1]
    BY ReadingFields
  <1>2. Canonical(x, t.components) /\ t.fields[1].v = t.filter /\ Parses(x.tag[1], t.fields[1])
    BY ReadingCanonical
  <1>3. \A y \in Definitions : y.id = x.s.id => y = x.s
    <2>1. x.s \in Definitions
      BY LayoutOption
    <2> QED BY <2>1, LayoutAssumption DEF SelectorsDistinct
  <1>4. TagURI(t) = {uri}
    <2>1. x.s \in Definitions
      BY LayoutOption
    <2> QED BY <1>1, <1>3, <2>1 DEF TagURI
  <1>5. uri.family = "tag" /\ uri.name = x.s.id /\ uri.parts = t.fields
    OBVIOUS
  <1> HIDE DEF uri
  <1>6. /\ DOMAIN x.binary = 1..Len(x.pure) + 1 /\ DOMAIN x.tag = 1..Len(x.pure) + 1
        /\ DOMAIN x.pure = 1..Len(x.pure) /\ Len(x.pure) \in Nat \ {0}
    BY LayoutSequences
  <1> DEFINE Fits(y) == /\ y.s.id = x.s.id /\ Len(t.fields) > 1 /\ t.fields[2].w = y.gcpLength
                        /\ PartsParse(<<y.tag[1]>> \o y.pure, t.fields)
  <1>7. ParseTagURI(uri) =
          UNION {Encode(Identity("gs1", y.s.keyType, t.components), y.s.id, t.filter) : y \in {z \in Layouts : Fits(z)}}
    BY <1>1, <1>2, <1>5 DEF ParseTagURI
  <1>8. t.fields[2].w = x.gcpLength
    <2>1. 1 \in DOMAIN x.pure
      BY <1>6
    <2>2. t.components[1] = t.fields[1 + 1]
      BY <1>1, <2>1
    <2> QED BY <1>2, <2>2 DEF Canonical
  <1>9. Len(t.fields) = Len(x.pure) + 1
    <2>1. PICK n \in Nat : n = Len(x.pure) + 1
      BY <1>6
    <2>2. t.fields \in [1..n -> Text]
      BY <1>1, <1>6, <2>1
    <2> QED BY <2>1, <2>2
  <1>10. PartsParse(<<x.tag[1]>> \o x.pure, t.fields)
    <2>1. PICK pure \in Seq(FieldTexts) : pure = x.pure
      BY LayoutFacts
    <2>2. PICK f \in FieldTexts : f = x.tag[1]
      BY <1>6, LayoutSequences
    <2> HIDE DEF FieldTexts
    <2>3. <<f>> \in Seq(FieldTexts) /\ Len(<<f>>) = 1 /\ <<f>>[1] = f
      OBVIOUS
    <2>4. PICK one \in Seq(FieldTexts) : one = <<f>> /\ Len(one) = 1 /\ one[1] = f
      BY <2>3
    <2>5. /\ Len(one \o pure) = Len(pure) + 1 /\ (one \o pure)[1] = f
          /\ \A i \in 1..Len(pure) : (one \o pure)[i + 1] = pure[i]
      BY <2>4
    <2>6. DOMAIN t.fields = 1..Len(pure) + 1
      BY <1>1, <1>6, <2>1
    <2>7. ASSUME NEW i \in DOMAIN t.fields PROVE Parses((one \o pure)[i], t.fields[i])
      <3>1. CASE i = 1
        BY <1>2, <2>2, <2>5, <3>1
      <3>2. CASE i # 1
        <4>1. PICK j \in DOMAIN x.pure : i = j + 1
          <5>1. i - 1 \in DOMAIN x.pure /\ i = (i - 1) + 1
            BY <1>6, <2>1, <2>6, <3>2
          <5> QED BY <5>1
        <4>2. Parses(x.pure[j], t.components[j])
          <5>1. j \in DOMAIN t.components
            <6>1. Len(t.components) = Len(x.pure) /\ t.components \in Seq(Text)
              BY <1>2, ReadingFields DEF Canonical
            <6> QED BY <1>6, <6>1
          <5> QED BY <1>2, <5>1 DEF Canonical
        <4> QED BY <1>1, <1>6, <2>1, <2>5, <4>1, <4>2
      <3> QED BY <3>1, <3>2
    <2> QED BY <1>9, <2>1, <2>2, <2>4, <2>5, <2>7 DEF PartsParse
  <1>11. Fits(x)
    BY <1>6, <1>8, <1>9, <1>10
  <1>12. \A y \in Layouts : Fits(y) => y = x
    <2>1. ASSUME NEW y \in Layouts, Fits(y) PROVE y = x
      <3>1. y.s = x.s
        BY <1>3, <2>1, LayoutOption
      <3>2. y.gcpLength = x.gcpLength
        BY <1>8, <2>1
      <3> QED BY <3>1, <3>2, LayoutSelected
    <2> QED BY <2>1
  <1>13. {z \in Layouts : Fits(z)} = {x}
    BY <1>11, <1>12
  <1>14. IdentityOf(t) = Identity("gs1", x.s.keyType, t.components)
    BY <1>1 DEF Identity, IdentityOf
  <1> HIDE DEF Fits
  <1>15. ParseTagURI(uri) = Encode(IdentityOf(t), t.scheme, t.filter)
    BY <1>1, <1>7, <1>13, <1>14
  <1> QED BY <1>4, <1>15

\* What the generator makes up, a tag can say.
LEMMA RandomFits ==
    ASSUME NEW x \in Layouts, NEW i \in DOMAIN x.pure, NEW text \in RandomTexts(FieldSpecs(x)[i])
    PROVE  /\ Parses(x.pure[i], text) /\ Render(x.pure[i], text.v) = text
           /\ text.v <= x.binary[i + 1].max
           /\ x.pure[i].fixed => text.w = x.pure[i].length
  <1> DEFINE f == x.pure[i]
             M == x.tag[i + 1].max
             spec == FieldSpecs(x)[i]
             n == IF f.fixed THEN f.length ELSE Max({1, Digits(M) - 1})
  <1>1. /\ f \in FieldTexts /\ x.tag[i + 1] \in FieldTexts
        /\ x.binary[i + 1].max = M /\ M <= f.max
        /\ ~f.fixed => f.length = 0 /\ Base - 1 <= M
        /\ f.fixed => f.max = Power(f.length) - 1 /\ M = f.max /\ f.max < Power(f.length)
    BY ComponentFacts
  <1>2. M \in Nat /\ f.max \in Nat /\ f.length \in Nat /\ f.fixed \in BOOLEAN
    BY <1>1 DEF FieldTexts
  <1>3. spec.fixed = f.fixed /\ spec.length = f.length /\ spec.max = M
    <2>1. spec = [fixed |-> f.fixed, length |-> f.length, max |-> Min2(f.max, x.binary[i + 1].max)]
      BY DEF FieldSpecs
    <2>2. Min2(f.max, M) = M
      BY <1>1, <1>2 DEF Min2
    <2> QED BY <1>1, <2>1, <2>2
  <1> HIDE DEF f, spec, M
  <1>4. PICK v \in (IF f.fixed THEN 0 ELSE Power(n - 1))..Power(n) - 1 : text = [w |-> n, v |-> v]
    BY <1>3 DEF RandomTexts, spec
  <1>5. text \in Text /\ text.w = n /\ text.v = v
    BY <1>4, RandomIsText
  <1>6. CASE f.fixed
    <2>1. n = f.length
      BY <1>6
    <2> HIDE DEF n
    <2>2. Power(n) \in Nat
      BY <1>2, <2>1, PowersGrow
    <2>3. v \in Nat /\ v < Power(n) /\ v <= f.max /\ v <= M
      BY <1>1, <1>4, <1>6, <2>1, <2>2
    <2>4. Parses(f, text)
      <3>1. CASE f.length = 0
        <4>1. v = 0
          BY <2>1, <2>3, <3>1, Powers
        <4> QED BY <1>4, <1>6, <2>1, <3>1, <4>1 DEF Parses, ZeroLength, Empty
      <3>2. CASE f.length # 0
        BY <1>2, <1>5, <1>6, <2>1, <2>3, <3>2 DEF Parses, ZeroLength
      <3> QED BY <3>1, <3>2
    <2>5. Render(f, text.v) = text
      <3>1. text.v < Power(text.w)
        BY <1>5, <2>3
      <3> QED BY <1>1, <1>5, <2>4, <3>1, ParsedRenders
    <2> QED BY <1>1, <1>5, <2>1, <2>3, <2>4, <2>5 DEF f
  <1>7. CASE ~f.fixed
    <2>1. PICK d \in Nat \ {0} : d = Digits(M) /\ IsWidth(M, d)
      BY <1>2, DigitsAre
    <2>2. n \in {1, d - 1} /\ n >= 1
      <3>1. n = Max({1, d - 1})
        BY <1>7, <2>1
      <3>2. \E m \in {1, d - 1} : \A j \in {1, d - 1} : m >= j
        <4>1. CASE d - 1 <= 1
          BY <4>1
        <4>2. CASE d - 1 > 1
          BY <4>2
        <4> QED BY <4>1, <4>2
      <3>3. Max({1, d - 1}) \in {1, d - 1} /\ \A j \in {1, d - 1} : Max({1, d - 1}) >= j
        BY <3>2 DEF Max
      <3> QED BY <3>1, <3>3
    <2> HIDE DEF n
    <2>3. n \in Nat \ {0} /\ n - 1 \in Nat
      BY <2>2
    <2>4. Power(n) \in Nat /\ Power(n - 1) \in Nat
      BY <2>3, PowersGrow
    <2>5. v \in Nat /\ Power(n - 1) <= v /\ v < Power(n)
      BY <1>4, <1>7, <2>4
    <2>6. Power(n) - 1 <= M
      <3>1. CASE n = 1
        <4>1. Power(0 + 1) = Base * Power(0) /\ Power(0) = 1 /\ Base \in Nat
          BY Powers, LayoutAssumption
        <4>2. Power(n) = Base
          BY <3>1, <4>1
        <4> QED BY <1>1, <1>7, <4>1, <4>2
      <3>2. CASE n # 1
        <4>1. n = d - 1 /\ d # 1
          BY <2>2, <2>3, <3>2
        <4>2. Power(n) <= M
          BY <2>1, <4>1 DEF IsWidth
        <4> QED BY <1>2, <2>4, <4>2
      <3> QED BY <3>1, <3>2
    <2>7. v <= M /\ v <= f.max
      BY <1>1, <1>2, <2>4, <2>5, <2>6
    <2>8. Parses(f, text)
      BY <1>5, <1>7, <2>3, <2>5, <2>7 DEF Parses, ZeroLength
    <2>9. Render(f, text.v) = text
      <3>1. text.v < Power(text.w)
        BY <1>5, <2>5
      <3> QED BY <1>1, <1>5, <2>8, <3>1, ParsedRenders
    <2> QED BY <1>1, <1>5, <1>7, <2>7, <2>8, <2>9 DEF f
  <1> QED BY <1>2, <1>6, <1>7

\* So no tag the generator makes is refused.
LEMMA RandomEncodes ==
    ASSUME NEW x \in Layouts, NEW filter \in Filters,
           NEW texts \in [DOMAIN x.pure -> UNION {RandomTexts(FieldSpecs(x)[i]) : i \in DOMAIN x.pure}],
           \A i \in DOMAIN x.pure : texts[i] \in RandomTexts(FieldSpecs(x)[i])
    PROVE  Encode(Identity("gs1", x.s.keyType, texts), x.s.id, filter) # {} /\ texts \in Seq(Text)
  <1>1. PICK n \in Nat \ {0} : n = Len(x.pure) /\ DOMAIN x.pure = 1..n
    BY LayoutSequences
  <1>2. \A i \in 1..n : texts[i] \in Text
    BY <1>1, RandomIsText
  <1>3. texts \in [1..n -> Text]
    BY <1>1, <1>2
  <1>4. texts \in Seq(Text) /\ Len(texts) = n /\ DOMAIN texts = 1..n
    BY <1>3
  <1>5. \A i \in DOMAIN x.pure : /\ Parses(x.pure[i], texts[i]) /\ Render(x.pure[i], texts[i].v) = texts[i]
                                 /\ texts[i].v <= x.binary[i + 1].max
    BY RandomFits
  <1>6. texts[1].w = x.gcpLength
    <2>1. 1 \in DOMAIN x.pure
      BY <1>1
    <2>2. SameRendering(x.tag[1 + 1], x.pure[1])
      BY <2>1, LayoutRenderings
    <2>3. x.pure[1].fixed /\ x.pure[1].length = x.gcpLength
      BY <2>2, PrefixRendered DEF SameRendering
    <2> QED BY <2>1, <2>3, RandomFits
  <1>7. Canonical(x, texts)
    BY <1>1, <1>4, <1>5, <1>6 DEF Canonical
  <1> DEFINE v == Identity("gs1", x.s.keyType, texts)
  <1>8. v.domain = <<"gs1", x.s.keyType>> /\ v.components = texts
    BY DEF Identity
  <1> HIDE DEF v
  <1>9. filter \in Nat /\ filter <= x.tag[1].max
    BY FiltersFit
  <1>10. Encode(v, x.s.id, filter) # {}
    BY <1>4, <1>5, <1>7, <1>8, <1>9, CanonicalEncodes
  <1> QED BY <1>4, <1>10 DEF v

\* The same is encoded, and decoded, in one way.
LEMMA EncodeOne ==
    ASSUME NEW v, v.components \in Seq(Text), NEW id, NEW f \in Nat,
           NEW t \in Encode(v, id, f), NEW u \in Encode(v, id, f)
    PROVE  t = u
  <1>1. PICK x \in Layouts : ReadsAs(t, x) /\ x.s.id = id /\ t.components = v.components /\ t.filter = f
    BY EncodedReads
  <1>2. PICK y \in Layouts : ReadsAs(u, y) /\ y.s.id = id /\ u.components = v.components /\ u.filter = f
    BY EncodedReads
  <1>3. t.scheme = u.scheme
    BY <1>1, <1>2, ReadingFields
  <1> QED BY <1>1, <1>2, <1>3, ReadingUnique

\* The same bits say one tag.
LEMMA DecodeOne ==
    ASSUME NEW bits, NEW n, NEW t \in Decode(bits, n), NEW u \in Decode(bits, n)
    PROVE  t = u
  <1>1. PICK d \in ByHeader(bits) : \E x \in ByPartition(d, bits) :
            t = Translated(x, Values(x, bits), SubSeq(bits, 1, x.s.tagLength))
    BY DEF Decode
  <1>2. PICK x \in ByPartition(d, bits) : t = Translated(x, Values(x, bits), SubSeq(bits, 1, x.s.tagLength))
    BY <1>1
  <1>3. PICK e \in ByHeader(bits) : \E y \in ByPartition(e, bits) :
            u = Translated(y, Values(y, bits), SubSeq(bits, 1, y.s.tagLength))
    BY DEF Decode
  <1>4. PICK y \in ByPartition(e, bits) : u = Translated(y, Values(y, bits), SubSeq(bits, 1, y.s.tagLength))
    BY <1>3
  <1>5. d = e
    <2>1. d \in Definitions /\ e \in Definitions /\ d.header = e.header
      BY DEF ByHeader
    <2> QED BY <2>1, LayoutAssumption DEF SelectorsDistinct
  <1>6. x \in Layouts /\ y \in Layouts /\ x.s = y.s /\ x.partition = y.partition
    BY <1>5 DEF ByPartition
  <1>7. x = y
    BY <1>6, LayoutSelected
  <1> QED BY <1>2, <1>4, <1>7

\* What n bits of words a PC word of their count says.
LEMMA WordsTold ==
    ASSUME NEW k \in 1..MaxWords - 1
    PROVE  ((k * WordBits + WordBits - 1) \div WordBits) % MaxWords = k
  <1>1. PICK w \in Nat \ {0} : w = WordBits
    BY RegisterAssumption
  <1>2. PICK m \in Nat \ {0} : m = MaxWords
    BY WordAssumption
  <1>3. k \in Nat /\ k < m
    BY <1>2
  <1>4. PICK r \in Nat : r = w - 1 /\ r < w
    BY <1>1
  <1>5. (k * w + r) \div w = k
    BY <1>1, <1>3, <1>4, Quotient
  <1>6. k * w + w - 1 = k * w + r
    <2>1. PICK p \in Int : p = k * w
      BY <1>1, <1>3
    <2> QED BY <1>4, <2>1
  <1>7. k % m = k
    BY <1>2, <1>3
  <1> QED BY <1>1, <1>2, <1>5, <1>6, <1>7

\* A tag whose bits fill words is read with the extent and the format it was written with.
LEMMA AirInput ==
    ASSUME NEW t, NEW k \in 1..MaxWords - 1, t.bitLen = k * WordBits,
           t.bits \in Seq({0, 1}), Len(t.bits) = t.bitLen,
           NEW in, in = TranslationInput([epc |-> t.bits, hasPC |-> TRUE, pc |-> ProtocolControl(t)])
    PROVE  /\ in.bits = t.bits /\ Extent(in) = t.bitLen /\ in.pc.afi = t.afi
           /\ t.toggle = FALSE => /\ FormatOf(in) = "gs1"
                                  /\ TranslateRefusal(in) = DecodeRefusal(t.bits, t.bitLen)
           /\ t.toggle = TRUE => /\ FormatOf(in) = "iso"
                                 /\ TranslateRefusal(in) = ISORefusal(t.bits, t.bitLen, t.afi)
  <1>1. in.bits = t.bits /\ in.bitLen = t.bitLen /\ in.hasPC = TRUE /\ in.pc = ProtocolControl(t)
    BY DEF TranslationInput
  <1>2. in.pc.words = k /\ in.pc.xi = FALSE /\ in.pc.toggle = t.toggle /\ in.pc.afi = t.afi
    BY <1>1, WordsTold DEF ProtocolControl
  <1>3. PICK n \in Nat \ {0} : n = t.bitLen /\ n = k * WordBits
    <2>1. PICK w \in Nat \ {0} : w = WordBits
      BY RegisterAssumption
    <2>2. k \in Nat \ {0}
      BY WordAssumption
    <2>3. k * w \in Nat \ {0}
      BY <2>2
    <2> QED BY <2>1, <2>3
  <1>4. Declared(in) = n
    BY <1>2, <1>3 DEF Declared
  <1>5. Extent(in) = n
    BY <1>1, <1>3 DEF Extent
  <1>6. /\ ~(in.hasPC /\ in.pc.xi) /\ ~(in.hasPC /\ Declared(in) = 0)
        /\ ~(in.hasPC /\ in.bitLen \notin {0, Declared(in)})
        /\ ~(Extent(in) = 0 \/ Len(in.bits) < Extent(in))
    BY <1>1, <1>2, <1>3, <1>4, <1>5
  <1>7. TranslateRefusal(in) = IF FormatOf(in) = "gs1" THEN DecodeRefusal(in.bits, Extent(in))
                               ELSE IF FormatOf(in) = "unknown" THEN "ambiguous"
                               ELSE IF ~in.hasPC THEN "unrecognised"
                               ELSE ISORefusal(in.bits, Extent(in), in.pc.afi)
    BY <1>6, Zenon DEF TranslateRefusal
  <1>8. FormatOf(in) = IF t.toggle THEN "iso" ELSE "gs1"
    BY <1>1, <1>2 DEF FormatOf
  <1> QED BY <1>1, <1>2, <1>3, <1>5, <1>7, <1>8

\* A tag that a reader reports with its PC word is read as it was written.
LEMMA GS1OverTheAir ==
    ASSUME NEW x \in Layouts, NEW t, ReadsAs(t, x)
    PROVE  Translate(TranslationInput([epc |-> t.bits, hasPC |-> TRUE, pc |-> ProtocolControl(t)])) = {t}
  <1> DEFINE in == TranslationInput([epc |-> t.bits, hasPC |-> TRUE, pc |-> ProtocolControl(t)])
  <1>1. Decode(t.bits, t.bitLen) = {t}
    BY ReadingDecodes
  <1>2. DecodeRefusal(t.bits, t.bitLen) = ""
    BY <1>1 DEF Decode
  <1>3. PICK n \in Nat : n = x.s.tagLength
    BY LayoutSizes
  <1>4. t.bits \in [1..n -> {0, 1}] /\ t.bitLen = n /\ t.toggle = FALSE
    BY <1>3, ReadingFields DEF ReadsAs
  <1>5. t.bits \in Seq({0, 1}) /\ Len(t.bits) = t.bitLen
    BY <1>4
  <1>6. PICK k \in 1..MaxWords - 1 : t.bitLen = k * WordBits
    <2>1. x.s \in Definitions
      BY LayoutOption
    <2> QED BY <1>3, <1>4, <2>1, WordAssumption DEF WordsCount
  <1>7. in = TranslationInput([epc |-> t.bits, hasPC |-> TRUE, pc |-> ProtocolControl(t)])
    OBVIOUS
  <1> HIDE DEF in
  <1>8. in.bits = t.bits /\ Extent(in) = t.bitLen /\ FormatOf(in) = "gs1" /\ TranslateRefusal(in) = ""
    BY <1>2, <1>4, <1>5, <1>6, <1>7, AirInput
  <1>9. Translate(in) = {t}
    BY <1>1, <1>8 DEF Translate
  <1> QED BY <1>9 DEF in

-----------------------------------------------------------------------------
(* What is written of a transport unit again                               *)

\* A tag that construct c writes.
UnitOf(t, c, di, body) ==
    /\ t.components = <<di, body>> /\ di \in Seq(Nat) \ {<<>>} /\ body \in Seq(Nat)
    /\ Writes(c, IdentityOf(t))
    /\ t = ISOTranslated(IdentityOf(t), c.scheme, EncodeText(di \o body), Len(di \o body) * CodeBits, c.afi)

IsUnit(t) == \E c \in Readable : \E di, body : UnitOf(t, c, di, body)

\* An identifier names one construct of the register.
LEMMA ConstructUnique ==
    ASSUME NEW c \in Constructs, NEW e \in Constructs, c.afi = e.afi
    PROVE  c = e
  BY RegisterAssumption DEF RegisterCoherent

\* What EncodeISO writes is such a tag.
LEMMA EncodedUnit ==
    ASSUME NEW v, v.components \in Seq(Seq(Nat)), Len(v.components) = 2, NEW scheme,
           NEW t \in EncodeISO(v, scheme)
    PROVE  /\ IsUnit(t) /\ t.scheme = scheme /\ t.toggle = TRUE
           /\ IdentityOf(t) = [domain |-> v.domain, components |-> v.components]
  <1>1. PICK c \in Constructs :
            /\ c.afi \in CurrentAFI(scheme) /\ c.supported /\ c.encoding = "6-bit" /\ Writes(c, v)
            /\ t = ISOTranslated(v, scheme, EncodeText(v.components[1] \o v.components[2]),
                                 CodeBits * Len(v.components[1] \o v.components[2]), c.afi)
    BY DEF EncodeISO
  <1>2. PICK e \in Constructs : e.afi = c.afi /\ e.scheme = scheme /\ scheme # ""
    BY <1>1 DEF CurrentAFI
  <1>3. c = e
    BY <1>2, ConstructUnique
  <1>4. c \in Readable /\ c.scheme = scheme
    BY <1>1, <1>2, <1>3 DEF Readable
  <1>5. PICK di \in Seq(Nat), body \in Seq(Nat) : v.components = <<di, body>>
    <2>1. v.components[1] \in Seq(Nat) /\ v.components[2] \in Seq(Nat)
      <3>1. PICK S : S = Seq(Nat)
        OBVIOUS
      <3>2. v.components \in Seq(S)
        BY <3>1
      <3>3. v.components[1] \in S /\ v.components[2] \in S
        BY <3>2
      <3> QED BY <3>1, <3>3
    <2>2. v.components = <<v.components[1], v.components[2]>>
      <3>1. PICK S : S = Seq(Nat)
        OBVIOUS
      <3>2. v.components \in Seq(S)
        BY <3>1
      <3> QED BY <3>2
    <2> QED BY <2>1, <2>2
  <1>6. v.components[1] = di /\ v.components[2] = body
    BY <1>5
  <1>7. di # <<>>
    <2>1. di \in c.dis
      BY <1>1, <1>6 DEF Writes
    <2>2. c.dis \subseteq Seq(Nat) \ {<<>>}
      BY <1>4, RegisterAssumption DEF RegisterCoherent
    <2> QED BY <2>1, <2>2
  <1>8. CodeBits * Len(di \o body) = Len(di \o body) * CodeBits
    <2>1. PICK n \in Nat : n = Len(di \o body)
      BY <1>5
    <2>2. PICK k \in Nat : k = CodeBits
      BY CodeFacts
    <2> QED BY <2>1, <2>2
  <1>9. t = ISOTranslated(v, scheme, EncodeText(di \o body), Len(di \o body) * CodeBits, c.afi)
    BY <1>1, <1>6, <1>8
  <1>10. t.domain = v.domain /\ t.components = v.components /\ t.scheme = scheme /\ t.toggle = TRUE
    BY <1>9 DEF ISOTranslated
  <1>11. IdentityOf(t) = [domain |-> v.domain, components |-> v.components]
    BY <1>10 DEF IdentityOf
  <1>12. IdentityOf(t).domain = v.domain /\ IdentityOf(t).components = v.components
    BY <1>11
  <1>13. Writes(c, IdentityOf(t))
    BY <1>1, <1>12 DEF Writes
  <1>14. t = ISOTranslated(IdentityOf(t), c.scheme, EncodeText(di \o body), Len(di \o body) * CodeBits, c.afi)
    BY <1>4, <1>9, <1>12 DEF ISOTranslated
  <1>15. UnitOf(t, c, di, body)
    BY <1>5, <1>7, <1>10, <1>13, <1>14 DEF UnitOf
  <1> QED BY <1>4, <1>10, <1>11, <1>15 DEF IsUnit

UnitIs(t, c, di, body) ==
    /\ c \in Constructs /\ c.supported /\ c.scheme # "" /\ c.encoding = "6-bit" /\ c.scheme # "iso17363"
    /\ t.scheme = c.scheme /\ t.toggle = TRUE /\ t.afi = c.afi
    /\ t.components = <<di, body>> /\ t.domain = <<Authorities[di], "transport-unit">>
    /\ di \in c.dis /\ di \in DOMAIN Authorities /\ IdentityRefusal(di, body) = ""
    /\ RegisteredDI(c, di \o body) = di /\ TextEncodes(di \o body)
    /\ t.bits = EncodeText(di \o body) /\ t.fields = t.components
    /\ t.bitLen = Len(di \o body) * CodeBits
    /\ di \in Seq(Nat) \ {<<>>} /\ body \in Seq(Nat) /\ di \o body \in Seq(Nat)

\* What a unit is.
LEMMA UnitFacts ==
    ASSUME NEW t, NEW c \in Readable, NEW di, NEW body, UnitOf(t, c, di, body)
    PROVE  UnitIs(t, c, di, body)
  <1>1. c \in Constructs /\ c.supported /\ c.scheme # "" /\ c.encoding = "6-bit"
    BY DEF Readable
  <1>2. c.scheme # "iso17363"
    BY RegisterAssumption DEF RegisterCoherent
  <1>3. /\ t.components = <<di, body>> /\ di \in Seq(Nat) \ {<<>>} /\ body \in Seq(Nat)
        /\ Writes(c, IdentityOf(t))
        /\ t = ISOTranslated(IdentityOf(t), c.scheme, EncodeText(di \o body), Len(di \o body) * CodeBits, c.afi)
    BY DEF UnitOf
  <1>4. IdentityOf(t).components = t.components /\ IdentityOf(t).domain = t.domain
    BY DEF IdentityOf
  <1>5. /\ t.scheme = c.scheme /\ t.toggle = TRUE /\ t.afi = c.afi /\ t.bits = EncodeText(di \o body)
        /\ t.fields = t.components /\ t.bitLen = Len(di \o body) * CodeBits
    BY <1>3, <1>4 DEF ISOTranslated
  <1>6. t.components[1] = di /\ t.components[2] = body
    BY <1>3
  <1>7. /\ t.domain = <<Authorities[di], "transport-unit">>
        /\ di \in c.dis /\ di \in DOMAIN Authorities /\ IdentityRefusal(di, body) = ""
        /\ RegisteredDI(c, di \o body) = di /\ TextEncodes(di \o body)
    BY <1>3, <1>4, <1>6 DEF Writes
  <1>8. di \o body \in Seq(Nat)
    BY <1>3
  <1> QED BY <1>1, <1>2, <1>3, <1>5, <1>7, <1>8 DEF UnitIs

\* The longest data identifier is a matter of the data identifiers.
LEMMA SameIdentifiers ==
    ASSUME NEW c, NEW e, c.dis = e.dis, NEW v
    PROVE  Writes(c, v) <=> Writes(e, v)
  <1>1. \A text : Beginnings(c, text) = Beginnings(e, text)
    BY DEF Beginnings
  <1>2. \A text : RegisteredDI(c, text) = RegisteredDI(e, text)
    BY <1>1 DEF RegisteredDI
  <1> QED BY <1>2 DEF Writes

\* Every unit is written again under a current identifier of its scheme.
LEMMA UnitRewrites ==
    ASSUME NEW t, IsUnit(t)
    PROVE  /\ EncodeISO(IdentityOf(t), t.scheme) # {}
           /\ \A u \in EncodeISO(IdentityOf(t), t.scheme) : IsUnit(u) /\ SameThing(u, t)
  <1>0. PICK c \in Readable : \E di, body : UnitOf(t, c, di, body)
    BY DEF IsUnit
  <1>1. PICK di, body : UnitOf(t, c, di, body)
    BY <1>0
  <1>21. UnitIs(t, c, di, body)
    BY <1>0, <1>1, UnitFacts
  <1>2. t.components = <<di, body>> /\ di \in Seq(Nat) /\ body \in Seq(Nat) /\ t.scheme = c.scheme /\ t.toggle = TRUE
    BY <1>21 DEF UnitIs
  <1>3. PICK e \in Readable : e.scheme = c.scheme /\ e.current /\ e.dis = c.dis
    BY RegisterAssumption DEF RegisterCoherent
  <1>4. Writes(e, IdentityOf(t))
    BY <1>1, <1>3, SameIdentifiers DEF UnitOf
  <1>5. e \in Constructs /\ e.supported /\ e.encoding = "6-bit" /\ e.scheme = t.scheme /\ e.scheme # ""
    BY <1>2, <1>3 DEF Readable
  <1>6. e.afi \in CurrentAFI(t.scheme)
    BY <1>3, <1>5 DEF CurrentAFI
  <1>7. EncodeISO(IdentityOf(t), t.scheme) # {}
    BY <1>4, <1>5, <1>6 DEF EncodeISO
  <1>8. IdentityOf(t).components = t.components /\ IdentityOf(t).domain = t.domain
    BY DEF IdentityOf
  <1>9. IdentityOf(t).components \in Seq(Seq(Nat)) /\ Len(IdentityOf(t).components) = 2
    BY <1>2, <1>8
  <1>10. [domain |-> IdentityOf(t).domain, components |-> IdentityOf(t).components] = IdentityOf(t)
    BY DEF IdentityOf
  <1>11. ASSUME NEW u \in EncodeISO(IdentityOf(t), t.scheme) PROVE IsUnit(u) /\ SameThing(u, t)
    <2>1. /\ IsUnit(u) /\ u.scheme = t.scheme /\ u.toggle = TRUE
          /\ IdentityOf(u) = [domain |-> IdentityOf(t).domain, components |-> IdentityOf(t).components]
      BY <1>9, <1>11, EncodedUnit
    <2> QED BY <1>2, <1>10, <2>1 DEF SameThing
  <1> QED BY <1>7, <1>11

\* Identity and scheme determine its bits.
LEMMA UnitUnique ==
    ASSUME NEW t, IsUnit(t), NEW u, IsUnit(u), IdentityOf(t) = IdentityOf(u)
    PROVE  t.bits = u.bits /\ t.fields = u.fields
  <1>0. PICK c \in Readable : \E di, body : UnitOf(t, c, di, body)
    BY DEF IsUnit
  <1>1. PICK di, body : UnitOf(t, c, di, body)
    BY <1>0
  <1>20. PICK e \in Readable : \E dj, other : UnitOf(u, e, dj, other)
    BY DEF IsUnit
  <1>2. PICK dj, other : UnitOf(u, e, dj, other)
    BY <1>20
  <1>3. t.components = u.components
    BY DEF IdentityOf
  <1>41. UnitIs(t, c, di, body)
    BY <1>0, <1>1, UnitFacts
  <1>4. t.components = <<di, body>> /\ t.bits = EncodeText(di \o body) /\ t.fields = t.components
    BY <1>41 DEF UnitIs
  <1>51. UnitIs(u, e, dj, other)
    BY <1>20, <1>2, UnitFacts
  <1>5. u.components = <<dj, other>> /\ u.bits = EncodeText(dj \o other) /\ u.fields = u.components
    BY <1>51 DEF UnitIs
  <1>6. di = dj /\ body = other
    <2>1. <<di, body>> = <<dj, other>>
      BY <1>3, <1>4, <1>5, Zenon
    <2> QED BY ONLY <2>1
  <1> QED BY <1>3, <1>4, <1>5, <1>6

-----------------------------------------------------------------------------
(* What is read of a transport unit                                        *)

\* What begins a sequence, and what follows it.
LEMMA Joined ==
    ASSUME NEW a \in Seq(Nat), NEW b \in Seq(Nat)
    PROVE  /\ IsPrefix(a, a \o b) /\ SubSeq(a \o b, Len(a) + 1, Len(a \o b)) = b
           /\ Len(a \o b) = Len(a) + Len(b)
  <1>1. Len(a \o b) = Len(a) + Len(b) /\ a \o b \in Seq(Nat)
    OBVIOUS
  <1>2. SubSeq(a \o b, Len(a) + 1, Len(a \o b)) = b
    OBVIOUS
  <1>3. SubSeq(a, 1, Len(a)) = SubSeq(a \o b, 1, Len(a))
    OBVIOUS
  <1> QED BY <1>1, <1>2, <1>3 DEF IsPrefix

LEMMA Prefixed ==
    ASSUME NEW a \in Seq(Nat), NEW t \in Seq(Nat), IsPrefix(a, t)
    PROVE  /\ a \o SubSeq(t, Len(a) + 1, Len(t)) = t /\ SubSeq(t, Len(a) + 1, Len(t)) \in Seq(Nat)
           /\ Len(a) <= Len(t)
  <1>1. Len(a) <= Len(t) /\ SubSeq(a, 1, Len(a)) = SubSeq(t, 1, Len(a))
    BY DEF IsPrefix
  <1>2. \A i \in 1..Len(a) : a[i] = t[i]
    <2>1. TAKE i \in 1..Len(a)
    <2>2. SubSeq(a, 1, Len(a))[i] = a[i] /\ SubSeq(t, 1, Len(a))[i] = t[i]
      BY <1>1
    <2> QED BY <1>1, <2>2
  <1>3. SubSeq(t, Len(a) + 1, Len(t)) \in Seq(Nat)
    BY <1>1
  <1>4. a \o SubSeq(t, Len(a) + 1, Len(t)) = t
    BY <1>1, <1>2, <1>3
  <1> QED BY <1>1, <1>3, <1>4

\* A quotient is less than what its divisor does not go into.
LEMMA QuotientBelow ==
    ASSUME NEW w \in Nat \ {0}, NEW q \in Nat, NEW m \in Nat, q * w < w * m
    PROVE  q < m
  <1>1. w * m = m * w
    OBVIOUS
  <1>2. ASSUME m <= q PROVE FALSE
    <2>1. m * w <= q * w
      BY <1>2, Products
    <2>2. q * w \in Int /\ m * w \in Int
      OBVIOUS
    <2> QED BY <1>1, <2>1, <2>2
  <1> QED BY <1>2

\* A text that can be an identity fills words that a PC word can count.
LEMMA WordsOfText ==
    ASSUME NEW t, NEW c \in Readable, NEW di, NEW body, UnitIs(t, c, di, body)
    PROVE  \E k \in 1..MaxWords - 1 : t.bitLen = k * WordBits
  <1>1. PICK text \in Seq(Nat) : text = di \o body
    BY DEF UnitIs
  <1>2. PICK n \in Nat \ {0} : n = Len(text)
    <2>1. text # <<>>
      BY <1>1 DEF UnitIs, TextEncodes
    <2> QED BY <2>1
  <1>3. PICK b \in Nat \ {0} : b = CodeBits
    BY CodeFacts
  <1>4. PICK w \in Nat \ {0} : w = WordBits
    BY RegisterAssumption
  <1>5. PICK m \in Nat : m = MaxWords
    BY WordAssumption
  <1>6. PICK l \in Nat : l = IdentityLimit
    BY RegisterAssumption
  <1>7. n <= l
    <2>0. IdentityRefusal(di, body) = "" /\ di \in Seq(Nat) /\ body \in Seq(Nat)
      BY DEF UnitIs
    <2>3. ~(Len(di) + Len(body) > IdentityLimit)
      BY <2>0 DEF IdentityRefusal
    <2>1. Len(di) + Len(body) <= IdentityLimit
      <3>0. di \in Seq(Nat) /\ body \in Seq(Nat)
        BY <2>0
      <3>1. Len(di) \in Nat /\ Len(body) \in Nat
        BY ONLY <3>0
      <3> QED BY <1>6, <2>3, <3>1
    <2>2. Len(text) = Len(di) + Len(body)
      BY <1>1, Joined DEF UnitIs
    <2> QED BY <1>2, <1>6, <2>1, <2>2
  <1>8. PICK a \in Nat : a = n * b
    OBVIOUS
  <1>9. a % w = 0 /\ t.bitLen = a
    BY <1>1, <1>2, <1>3, <1>4, <1>8 DEF UnitIs, TextEncodes
  <1>10. PICK q \in Nat : a = q * w
    <2>1. PICK q \in Nat, r \in Nat : r < w /\ a = q * w + r /\ a % w = r
      BY Division
    <2>2. r = 0
      BY <1>9, <2>1
    <2>3. q * w \in Nat
      BY <2>1
    <2> QED BY <2>1, <2>2, <2>3
  <1>11. a > 0
    <2>1. 0 * b + b <= n * b
      BY Products
    <2> QED BY <1>8, <2>1
  <1>12. q # 0
    BY <1>10, <1>11
  <1>13. q < m
    <2>1. n * b <= l * b
      BY <1>7, Products
    <2>2. b * l < w * m
      BY <1>3, <1>4, <1>5, <1>6, WordAssumption
    <2>3. l * b = b * l
      OBVIOUS
    <2>4. PICK y \in Int : y = w * m
      OBVIOUS
    <2>5. PICK z \in Int : z = l * b
      OBVIOUS
    <2>6. q * w < w * m
      BY <1>8, <1>10, <2>1, <2>2, <2>3, <2>4, <2>5
    <2> QED BY <1>10, <2>6, QuotientBelow
  <1>14. q \in 1..MaxWords - 1
    BY <1>5, <1>10, <1>12, <1>13
  <1> QED BY <1>4, <1>9, <1>10, <1>14

\* What the register makes of an identifier: its construct and nothing else.
LEMMA Recognised ==
    ASSUME NEW c \in Constructs
    PROVE  /\ {x \in Constructs : x.afi = c.afi} = {c}
           /\ (CHOOSE x \in {y \in Constructs : y.afi = c.afi} : TRUE) = c
  <1>1. {x \in Constructs : x.afi = c.afi} = {c}
    BY ConstructUnique
  <1>2. (CHOOSE x \in {c} : TRUE) = c
    OBVIOUS
  <1> QED BY <1>1, <1>2

\* What is read of a text with a registered identity.
InterpretsAs(c, text, di, body) ==
    /\ Beginnings(c, text) # {} /\ RegisteredDI(c, text) = di /\ di \in DOMAIN Authorities
    /\ SubSeq(text, Len(di) + 1, Len(text)) = body /\ IdentityRefusal(di, body) = ""

\* Such a text is accepted, whatever its construct.
LEMMA Interpreted ==
    ASSUME NEW c \in Readable, NEW t, t.controls = <<>>, t.residue = 0, NEW di, NEW body
    PROVE  InterpretsAs(c, t.characters, di, body) => InterpretRefusal(c, t) = ""
  <1>1. c.scheme # "iso17363"
    BY RegisterAssumption DEF RegisterCoherent
  <1> QED BY <1>1 DEF InterpretRefusal, InterpretsAs

\* And no other text is.
LEMMA InterpretedOnly ==
    ASSUME NEW c, NEW t, InterpretRefusal(c, t) = "",
           NEW di, di = RegisteredDI(c, t.characters),
           NEW body, body = SubSeq(t.characters, Len(di) + 1, Len(t.characters))
    PROVE  t.controls = <<>> /\ t.residue = 0 /\ InterpretsAs(c, t.characters, di, body)
  BY DEF InterpretRefusal, InterpretsAs

\* The tag of a unit, in the words of the decoder.
LEMMA UnitTag ==
    ASSUME NEW t, NEW c \in Readable, NEW di, NEW body, UnitOf(t, c, di, body)
    PROVE  t = ISOTranslated(TransportUnit(Authorities[di], di, body), c.scheme,
                             EncodeText(di \o body), Len(di \o body) * CodeBits, c.afi)
  <1>1. UnitIs(t, c, di, body)
    BY UnitFacts
  <1>2. IdentityOf(t).components = <<di, body>> /\ IdentityOf(t).domain = <<Authorities[di], "transport-unit">>
    BY <1>1 DEF UnitIs, IdentityOf
  <1>3. t = ISOTranslated(IdentityOf(t), c.scheme, EncodeText(di \o body), Len(di \o body) * CodeBits, c.afi)
    BY DEF UnitOf
  <1>4. TransportUnit(Authorities[di], di, body).domain = <<Authorities[di], "transport-unit">>
    BY DEF TransportUnit, Identity
  <1>5. TransportUnit(Authorities[di], di, body).components = <<di, body>>
    BY DEF TransportUnit, Identity
  <1> QED BY <1>2, <1>3, <1>4, <1>5 DEF ISOTranslated

\* A unit is read from its bits, and nothing else is.
LEMMA UnitReads ==
    ASSUME NEW t, NEW c \in Readable, NEW di, NEW body, UnitOf(t, c, di, body)
    PROVE  /\ ISORefusal(t.bits, t.bitLen, t.afi) = "" /\ DecodeISO(t.bits, t.bitLen, t.afi) = {t}
           /\ t.bits \in Seq({0, 1}) /\ Len(t.bits) = t.bitLen
  <1>1. UnitIs(t, c, di, body)
    BY UnitFacts
  <1>2. PICK text \in Seq(Nat) : text = di \o body
    BY <1>1 DEF UnitIs
  <1>3. PICK n : n = Len(text) * CodeBits
    OBVIOUS
  <1>4. t.bits = EncodeText(text) /\ t.bitLen = n /\ t.afi = c.afi
    BY <1>1, <1>2, <1>3 DEF UnitIs
  <1>5. /\ TextEncodes(text) /\ RegisteredDI(c, text) = di /\ di \in c.dis /\ di \in DOMAIN Authorities
        /\ IdentityRefusal(di, body) = "" /\ di \in Seq(Nat) \ {<<>>} /\ body \in Seq(Nat)
    BY <1>1, <1>2 DEF UnitIs
  <1>6. PICK d : d = DecodeText(t.bits, n)
    OBVIOUS
  <1>7. /\ d.characters = text /\ d.controls = <<>> /\ d.residue = 0
        /\ t.bits \in [1..n -> {0, 1}] /\ n \in Nat
    <2>1. \A i \in DOMAIN text : AcceptedCharacter(text[i])
      BY <1>5 DEF TextEncodes
    <2> QED BY <1>3, <1>4, <1>6, <2>1, TextRead
  <1>8. t.bits \in Seq({0, 1}) /\ Len(t.bits) = n
    BY <1>7
  <1>9. IsPrefix(di, text) /\ SubSeq(text, Len(di) + 1, Len(text)) = body
    BY <1>2, <1>5, Joined
  <1>10. di \in Beginnings(c, text)
    BY <1>5, <1>9 DEF Beginnings
  <1>11. InterpretRefusal(c, d) = ""
    <2>1. InterpretsAs(c, text, di, body)
      BY <1>5, <1>9, <1>10 DEF InterpretsAs
    <2> QED BY <1>7, <2>1, Interpreted
  <1>12. c \in Constructs /\ c.supported /\ c.scheme # "" /\ c.encoding = "6-bit"
    BY <1>1 DEF UnitIs
  <1>13. ~(n < CodeBits)
    <2>1. PICK b \in Nat \ {0} : b = CodeBits
      BY CodeFacts
    <2>2. PICK m \in Nat \ {0} : m = Len(text)
      <3>1. text # <<>>
        BY <1>5 DEF TextEncodes
      <3> QED BY <3>1
    <2>3. 0 * b + b <= m * b
      BY Products
    <2> QED BY <1>3, <2>1, <2>2, <2>3
  <1>14. ISORefusal(t.bits, n, c.afi) = ""
    <2>1. {x \in Constructs : x.afi = c.afi} # {}
      BY <1>12
    <2>2. ~(n < CodeBits \/ Len(t.bits) < n)
      BY <1>7, <1>8, <1>13
    <2>3. (CHOOSE x \in {y \in Constructs : y.afi = c.afi} : TRUE) = c
      BY <1>12, Recognised
    <2>4. InterpretRefusal(c, DecodeText(t.bits, n)) = ""
      BY <1>6, <1>11
    <2> QED BY <1>12, <2>1, <2>2, <2>3, <2>4, Zenon DEF ISORefusal
  <1>15. SubSeq(t.bits, 1, n) = t.bits
    BY <1>7, <1>8
  <1>16. ISOTranslated(TransportUnit(Authorities[di], di, body), c.scheme, t.bits, n, c.afi) = t
    BY <1>2, <1>3, <1>4, UnitTag
  <1>17. DecodeISO(t.bits, n, c.afi) = {t}
    <2>1. {x \in Constructs : x.afi = c.afi} = {c}
      BY <1>12, Recognised
    <2> DEFINE Unit(x) == TransportUnit(Authorities[RegisteredDI(x, text)], RegisteredDI(x, text),
                                        SubSeq(text, Len(RegisteredDI(x, text)) + 1, Len(text)))
    <2>2. Unit(c) = TransportUnit(Authorities[di], di, body)
      BY <1>5, <1>9
    <2>3. DecodeText(t.bits, n).characters = text
      BY <1>6, <1>7
    <2>4. DecodeISO(t.bits, n, c.afi)
            = {ISOTranslated(Unit(x), x.scheme, SubSeq(t.bits, 1, n), n, c.afi) :
                 x \in {y \in Constructs : y.afi = c.afi}}
      BY <1>14, <2>3 DEF DecodeISO
    <2> HIDE DEF Unit
    <2>5. DecodeISO(t.bits, n, c.afi)
            = {ISOTranslated(Unit(c), c.scheme, SubSeq(t.bits, 1, n), n, c.afi)}
      BY <2>1, <2>4
    <2> QED BY <1>15, <1>16, <2>2, <2>5
  <1> QED BY <1>4, <1>8, <1>14, <1>17

\* So a unit that a reader reports with its PC word is read as it was written.
LEMMA UnitOverTheAir ==
    ASSUME NEW t, IsUnit(t)
    PROVE  Translate(TranslationInput([epc |-> t.bits, hasPC |-> TRUE, pc |-> ProtocolControl(t)])) = {t}
  <1> DEFINE in == TranslationInput([epc |-> t.bits, hasPC |-> TRUE, pc |-> ProtocolControl(t)])
  <1>0. PICK c \in Readable : \E di, body : UnitOf(t, c, di, body)
    BY DEF IsUnit
  <1>1. PICK di, body : UnitOf(t, c, di, body)
    BY <1>0
  <1>2. UnitIs(t, c, di, body)
    BY <1>0, <1>1, UnitFacts
  <1>3. t.toggle = TRUE
    BY <1>2 DEF UnitIs
  <1>4. PICK k \in 1..MaxWords - 1 : t.bitLen = k * WordBits
    BY <1>0, <1>2, WordsOfText
  <1>5. /\ ISORefusal(t.bits, t.bitLen, t.afi) = "" /\ DecodeISO(t.bits, t.bitLen, t.afi) = {t}
        /\ t.bits \in Seq({0, 1}) /\ Len(t.bits) = t.bitLen
    BY <1>0, <1>1, UnitReads
  <1>6. in = TranslationInput([epc |-> t.bits, hasPC |-> TRUE, pc |-> ProtocolControl(t)])
    OBVIOUS
  <1> HIDE DEF in
  <1>7. /\ in.bits = t.bits /\ Extent(in) = t.bitLen /\ in.pc.afi = t.afi
        /\ FormatOf(in) = "iso" /\ TranslateRefusal(in) = ""
    BY <1>3, <1>4, <1>5, <1>6, AirInput
  <1>8. Translate(in) = {t}
    BY <1>5, <1>7 DEF Translate
  <1> QED BY <1>8 DEF in

\* Of the data identifiers that begin a text, one is the longest.
LEMMA LongestBeginning ==
    ASSUME NEW c, c.dis \subseteq Seq(Nat), NEW text \in Seq(Nat), Beginnings(c, text) # {}
    PROVE  RegisteredDI(c, text) \in Beginnings(c, text)
  <1>1. PICK n \in Nat : n = Len(text)
    OBVIOUS
  <1>2. \A d \in Beginnings(c, text) : Len(d) \in Nat /\ Len(d) <= n
    <2>1. TAKE d \in Beginnings(c, text)
    <2>2. d \in c.dis /\ IsPrefix(d, text)
      BY DEF Beginnings
    <2>3. d \in Seq(Nat)
      BY <2>2
    <2>4. Len(d) <= Len(text)
      BY <2>2, <2>3, Prefixed
    <2>5. Len(d) \in Nat
      BY ONLY <2>3
    <2> QED BY <1>1, <2>4, <2>5
  <1> DEFINE Rests == {n - Len(d) : d \in Beginnings(c, text)}
  <1>3. Rests \subseteq Nat /\ Rests # {}
    BY <1>1, <1>2
  <1>4. PICK r \in Rests : \A m \in Rests : r <= m
    BY <1>3, LeastNumber
  <1>5. PICK d \in Beginnings(c, text) : r = n - Len(d)
    BY <1>4
  <1>6. \A e \in Beginnings(c, text) : Len(e) <= Len(d)
    <2>1. TAKE e \in Beginnings(c, text)
    <2>2. n - Len(d) <= n - Len(e)
      BY <1>4, <1>5
    <2>3. Len(d) \in Nat /\ Len(e) \in Nat
      BY <1>2
    <2> QED BY <1>1, <2>2, <2>3
  <1> QED BY <1>6 DEF RegisteredDI

WholeWords(n) == \E k \in Nat : n = k * WordBits

\* What is decoded of whole words is a unit, and there is one.
LEMMA DecodedUnit ==
    ASSUME NEW bits \in Seq({0, 1}), NEW n, WholeWords(n), NEW afi, NEW t \in DecodeISO(bits, n, afi)
    PROVE  IsUnit(t) /\ DecodeISO(bits, n, afi) = {t}
  <1>0. PICK k \in Nat : n = k * WordBits
    BY DEF WholeWords
  <1>1. ISORefusal(bits, n, afi) = "" /\ {x \in Constructs : x.afi = afi} # {}
    BY DEF DecodeISO
  <1>2. PICK c \in Constructs : c.afi = afi
    BY <1>1
  <1>3. {x \in Constructs : x.afi = afi} = {c} /\ (CHOOSE x \in {y \in Constructs : y.afi = afi} : TRUE) = c
    BY <1>2, Recognised
  <1>4. PICK d : d = DecodeText(bits, n)
    OBVIOUS
  <1>5. PICK text : text = d.characters
    OBVIOUS
  <1>6. PICK di : di = RegisteredDI(c, text)
    OBVIOUS
  <1>7. PICK body : body = SubSeq(text, Len(di) + 1, Len(text))
    OBVIOUS
  <1>8. /\ c.supported /\ c.scheme # "" /\ c.encoding = "6-bit" /\ ~(n < CodeBits \/ Len(bits) < n)
        /\ InterpretRefusal(c, d) = ""
    BY <1>1, <1>3, <1>4 DEF ISORefusal
  <1>9. c \in Readable
    BY <1>8 DEF Readable
  <1>10. d.controls = <<>> /\ d.residue = 0 /\ InterpretsAs(c, text, di, body)
    BY <1>5, <1>6, <1>7, <1>8, InterpretedOnly
  <1>11. PICK w \in Nat \ {0} : w = WordBits
    BY RegisterAssumption
  <1>12. n \in Nat /\ n <= Len(bits)
    <2>1. PICK a \in Nat : a = k * w
      BY <1>0
    <2>2. PICK l \in Nat : l = Len(bits)
      OBVIOUS
    <2>3. n = a /\ ~(l < n)
      BY <1>0, <1>8, <1>11, <2>1, <2>2
    <2> QED BY <2>1, <2>2, <2>3
  <1>13. /\ text \in Seq(Nat) /\ n = Len(text) * CodeBits /\ \A i \in DOMAIN text : AcceptedCharacter(text[i])
         /\ EncodeText(text) = SubSeq(bits, 1, n)
    <2>1. /\ DecodeText(bits, n).controls = <<>> /\ DecodeText(bits, n).residue = 0
          /\ text = DecodeText(bits, n).characters
      BY <1>4, <1>5, <1>10
    <2>2. WritesAs(text, bits, n)
      BY <1>12, <2>1, TextWritten
    <2> QED BY <2>2 DEF WritesAs
  <1>14. c.dis \subseteq Seq(Nat) \ {<<>>}
    BY <1>9, RegisterAssumption DEF RegisterCoherent
  <1>15. di \in Beginnings(c, text)
    <2>1. Beginnings(c, text) # {}
      BY <1>10 DEF InterpretsAs
    <2>2. c.dis \subseteq Seq(Nat)
      BY <1>14
    <2> QED BY <1>6, <1>13, <2>1, <2>2, LongestBeginning
  <1>16. di \in c.dis /\ di \in Seq(Nat) /\ di # <<>> /\ IsPrefix(di, text)
    BY <1>14, <1>15 DEF Beginnings
  <1>17. di \o body = text /\ body \in Seq(Nat)
    BY <1>7, <1>13, <1>16, Prefixed
  <1>18. di \in DOMAIN Authorities /\ IdentityRefusal(di, body) = ""
    BY <1>10 DEF InterpretsAs
  <1>19. n % WordBits = 0
    <2>1. (k * w + 0) \div w = k
      BY <1>0, Quotient
    <2>2. PICK a \in Nat : a = k * w
      BY <1>0
    <2>3. PICK q \in Nat, r \in Nat : r < w /\ a = q * w + r /\ a \div w = q /\ a % w = r
      BY Division
    <2>4. a \div w = k
      BY <1>0, <2>1, <2>2
    <2>5. r = 0
      <3>1. q = k
        BY <2>3, <2>4
      <3>2. a = a + r
        BY <1>0, <2>2, <2>3, <3>1
      <3> QED BY <2>2, <2>3, <3>2
    <2> QED BY <1>0, <1>11, <2>2, <2>3, <2>5
  <1>20. TextEncodes(text)
    <2>1. text # <<>>
      <3>1. Len(di) <= Len(text)
        BY <1>13, <1>16, Prefixed
      <3>2. PICK m \in Nat \ {0} : m = Len(di)
        BY <1>16
      <3> QED BY <3>1, <3>2
    <2> QED BY <1>13, <1>19, <2>1 DEF TextEncodes
  <1>21. DecodeISO(bits, n, afi) =
            {ISOTranslated(TransportUnit(Authorities[di], di, body), c.scheme, SubSeq(bits, 1, n), n, afi)}
    <2>1. PICK found : found = {x \in Constructs : x.afi = afi}
      OBVIOUS
    <2>2. found = {c}
      BY <1>3, <2>1
    <2>3. text = DecodeText(bits, n).characters
      BY <1>4, <1>5
    <2>4. DecodeISO(bits, n, afi) =
             {ISOTranslated(LET dj == RegisteredDI(e, text)
                            IN TransportUnit(Authorities[dj], dj, SubSeq(text, Len(dj) + 1, Len(text))),
                            e.scheme, SubSeq(bits, 1, n), n, afi) : e \in found}
      BY <1>1, <2>1, <2>3, Zenon DEF DecodeISO
    <2> QED BY <1>6, <1>7, <2>2, <2>4
  <1>22. PICK v : v = TransportUnit(Authorities[di], di, body)
    OBVIOUS
  <1>23. v.domain = <<Authorities[di], "transport-unit">> /\ v.components = <<di, body>>
    BY <1>22 DEF TransportUnit, Identity
  <1>24. t = ISOTranslated(v, c.scheme, EncodeText(di \o body), Len(di \o body) * CodeBits, c.afi)
    BY <1>2, <1>13, <1>17, <1>21, <1>22
  <1>25. t.components = v.components /\ t.domain = v.domain /\ t.toggle = TRUE
    BY <1>24 DEF ISOTranslated
  <1>26. IdentityOf(t).domain = v.domain /\ IdentityOf(t).components = v.components
    BY <1>25 DEF IdentityOf
  <1>27. Writes(c, IdentityOf(t))
    <2>1. IdentityOf(t).components[1] = di /\ IdentityOf(t).components[2] = body
      BY <1>23, <1>26
    <2>2. RegisteredDI(c, di \o body) = di /\ TextEncodes(di \o body)
      BY <1>6, <1>17, <1>20
    <2> QED BY <1>16, <1>18, <1>23, <1>26, <2>1, <2>2 DEF Writes
  <1>28. t = ISOTranslated(IdentityOf(t), c.scheme, EncodeText(di \o body), Len(di \o body) * CodeBits, c.afi)
    BY <1>24, <1>26 DEF ISOTranslated
  <1>29. UnitOf(t, c, di, body)
    BY <1>16, <1>17, <1>23, <1>25, <1>27, <1>28 DEF UnitOf
  <1> QED BY <1>9, <1>21, <1>25, <1>29 DEF IsUnit

-----------------------------------------------------------------------------
(* The tag under its rewriting                                             *)

\* A tag the program can write: a unit, or one that says what its bits say.
Written(t) == IsUnit(t) \/ IsGS1(t)

\* The toggle bit tells the two apart.
LEMMA WrittenToggle ==
    ASSUME NEW t
    PROVE  (IsUnit(t) => t.toggle = TRUE) /\ (IsGS1(t) => t.toggle = FALSE)
  <1>1. ASSUME IsUnit(t) PROVE t.toggle = TRUE
    <2>1. PICK c \in Readable : \E di, body : UnitOf(t, c, di, body)
      BY <1>1 DEF IsUnit
    <2>2. PICK di, body : UnitOf(t, c, di, body)
      BY <2>1
    <2>3. UnitIs(t, c, di, body)
      BY <2>1, <2>2, UnitFacts
    <2> QED BY <2>3 DEF UnitIs
  <1>2. ASSUME IsGS1(t) PROVE t.toggle = FALSE
    <2>1. PICK x \in Layouts : ReadsAs(t, x)
      BY <1>2 DEF IsGS1
    <2> QED BY <2>1, ReadingFields
  <1> QED BY <1>1, <1>2

\* What the translation is made of: all of it was written for what it began with.
Kept(now, then) ==
    /\ \A t \in now : Written(t) /\ \A o \in then : SameThing(t, o)
    /\ \A o \in then : Written(o)

KeptInv == outcome # "refused" /\ Kept(current, first)

\* Results that name what one of now does.
Keeps(results, t) == results # {} /\ \A u \in results : Written(u) /\ SameThing(u, t)

\* A step to such results keeps the invariant.
LEMMA BecomesKept ==
    ASSUME KeptInv, NEW t \in current, NEW results, Keeps(results, t), Becomes(results)
    PROVE  KeptInv'
  <1>1. current' = results /\ outcome' = "again" /\ first' = first
    BY DEF Becomes, Keeps
  <1>2. Kept(results, first)
    <2>1. ASSUME NEW u \in results, NEW o \in first PROVE SameThing(u, o)
      <3>1. SameThing(u, t)
        BY DEF Keeps
      <3>2. SameThing(t, o)
        BY DEF KeptInv, Kept
      <3> QED BY <3>1, <3>2 DEF SameThing
    <2>2. \A u \in results : Written(u)
      BY DEF Keeps
    <2>3. \A o \in first : Written(o)
      BY DEF KeptInv, Kept
    <2> QED BY <2>1, <2>2, <2>3 DEF Kept
  <1> QED BY <1>1, <1>2 DEF KeptInv

LEMMA RewrittenKeeps ==
    ASSUME NEW results, NEW t, Rewritten(results, t)
    PROVE  Keeps(results, t)
  BY DEF Rewritten, Keeps, Written

\* EncodeGS1 and EncodeISO give such results.
LEMMA RewriteKept ==
    ASSUME KeptInv, NEW t \in current, NEW f \in Filters, Rewrite(t, f)
    PROVE  KeptInv'
  <1>1. CASE IsUnit(t)
    <2>1. Becomes(EncodeISO(IdentityOf(t), t.scheme))
      BY <1>1, WrittenToggle DEF Rewrite
    <2>2. Keeps(EncodeISO(IdentityOf(t), t.scheme), t)
      BY <1>1, UnitRewrites DEF Keeps, Written
    <2> QED BY <2>1, <2>2, BecomesKept
  <1>2. CASE IsGS1(t)
    <2>1. Becomes(Encode(IdentityOf(t), t.scheme, f))
      BY <1>2, WrittenToggle DEF Rewrite
    <2>2. PICK x \in Layouts : ReadsAs(t, x)
      BY <1>2 DEF IsGS1
    <2>3. f \in Nat /\ f <= x.tag[1].max
      BY <2>2, FiltersFit
    <2>4. Keeps(Encode(IdentityOf(t), t.scheme, f), t)
      BY <2>2, <2>3, GS1Rewrites, RewrittenKeeps
    <2> QED BY <2>1, <2>4, BecomesKept
  <1> QED BY <1>1, <1>2 DEF KeptInv, Kept, Written

\* So does the way through the pure identity URI.
LEMMA ByPureURIKept ==
    ASSUME KeptInv, NEW t \in current, NEW f \in Filters, ByPureURI(t, f)
    PROVE  KeptInv'
  <1>1. IsGS1(t)
    BY WrittenToggle DEF ByPureURI, KeptInv, Kept, Written
  <1>2. PICK x \in Layouts : ReadsAs(t, x)
    BY <1>1 DEF IsGS1
  <1>3. f \in Nat /\ f <= x.tag[1].max
    BY <1>2, FiltersFit
  <1>4. PICK named : named = UNION {ParsePureURI(u) : u \in PureURI(IdentityOf(t))}
    OBVIOUS
  <1>5. named = {IdentityOf(t)}
    BY <1>2, <1>4, PureURIKeeps
  <1>6. Becomes(UNION {Encode(v, t.scheme, f) : v \in named})
    BY <1>4 DEF ByPureURI
  <1>7. UNION {Encode(v, t.scheme, f) : v \in named} = Encode(IdentityOf(t), t.scheme, f)
    BY <1>5
  <1>8. Keeps(Encode(IdentityOf(t), t.scheme, f), t)
    BY <1>2, <1>3, GS1Rewrites, RewrittenKeeps
  <1> QED BY <1>6, <1>7, <1>8, BecomesKept

\* And through the tag URI.
LEMMA ByTagURIKept ==
    ASSUME KeptInv, NEW t \in current, ByTagURI(t)
    PROVE  KeptInv'
  <1>1. IsGS1(t)
    BY WrittenToggle DEF ByTagURI, KeptInv, Kept, Written
  <1>2. PICK x \in Layouts : ReadsAs(t, x)
    BY <1>1 DEF IsGS1
  <1>3. t.filter \in Nat /\ t.filter <= x.tag[1].max
    BY <1>2, ReadingCanonical
  <1>4. Becomes(Encode(IdentityOf(t), t.scheme, t.filter))
    BY <1>2, TagURIKeeps DEF ByTagURI
  <1>5. Keeps(Encode(IdentityOf(t), t.scheme, t.filter), t)
    BY <1>2, <1>3, GS1Rewrites, RewrittenKeeps
  <1> QED BY <1>4, <1>5, BecomesKept

\* And through a reader and Translate.
LEMMA OverTheAirKept ==
    ASSUME KeptInv, NEW t \in current, OverTheAir(t)
    PROVE  KeptInv'
  <1>1. IsUnit(t) \/ IsGS1(t)
    BY DEF KeptInv, Kept, Written
  <1>2. Translate(TranslationInput([epc |-> t.bits, hasPC |-> TRUE, pc |-> ProtocolControl(t)])) = {t}
    <2>1. CASE IsUnit(t)
      BY <2>1, UnitOverTheAir
    <2>2. CASE IsGS1(t)
      BY <2>2, GS1OverTheAir DEF IsGS1
    <2> QED BY <1>1, <2>1, <2>2
  <1>3. Becomes({t})
    BY <1>2 DEF OverTheAir
  <1>4. Keeps({t}, t)
    BY <1>1 DEF Keeps, Written, SameThing
  <1> QED BY <1>3, <1>4, BecomesKept

\* What begins is one tag, or several of one thing.
LEMMA BeginsKept ==
    ASSUME NEW S, \A t \in S : Written(t), \A t, u \in S : SameThing(t, u),
           first' = S, current' = first', outcome' # "refused"
    PROVE  KeptInv'
  BY DEF KeptInv, Kept

\* What a reader reports translates to one tag that could have been written.
LEMMA TranslatedOne ==
    ASSUME NEW in, in.bits \in Seq({0, 1}), in.bitLen = Len(in.bits), in.hasPC \in BOOLEAN, in.pc.words \in Nat,
           NEW t \in Translate(in)
    PROVE  Written(t) /\ \A u \in Translate(in) : u = t
  <1>1. CASE FormatOf(in) = "gs1"
    <2>1. Translate(in) = Decode(in.bits, Extent(in))
      BY <1>1 DEF Translate
    <2>2. IsGS1(t)
      <3>1. PICK n \in Nat : n = Extent(in)
        <4>1. PICK w \in Nat : w = WordBits
          BY RegisterAssumption
        <4>2. PICK l \in Nat : l = Len(in.bits)
          OBVIOUS
        <4>3. PICK k \in Nat : k = in.pc.words
          OBVIOUS
        <4>4. k * w \in Nat
          BY <4>1, <4>3
        <4> QED BY <4>1, <4>2, <4>3, <4>4 DEF Extent, Declared
      <3> QED BY <2>1, <3>1, DecodedReads DEF IsGS1
    <2> QED BY <2>1, <2>2, DecodeOne DEF Written
  <1>2. CASE FormatOf(in) # "gs1"
    <2>1. Translate(in) = DecodeISO(in.bits, Extent(in), in.pc.afi) /\ TranslateRefusal(in) = ""
      BY <1>2 DEF Translate
    <2>2. in.hasPC
      BY <1>2, <2>1 DEF TranslateRefusal
    <2>3. Extent(in) = in.pc.words * WordBits
      <3>1. in.bitLen \in {0, Declared(in)}
        BY <2>1, <2>2 DEF TranslateRefusal
      <3> QED BY <2>2, <3>1 DEF Extent, Declared
    <2>4. IsUnit(t) /\ Translate(in) = {t}
      <3>1. PICK n : n = Extent(in)
        OBVIOUS
      <3>2. PICK k \in Nat : k = in.pc.words
        OBVIOUS
      <3>3. PICK bits \in Seq({0, 1}) : bits = in.bits
        OBVIOUS
      <3>4. n = k * WordBits /\ Translate(in) = DecodeISO(bits, n, in.pc.afi)
        BY <2>1, <2>3, <3>1, <3>2, <3>3
      <3>5. t \in DecodeISO(bits, n, in.pc.afi)
        BY <3>4
      <3>6. WholeWords(n)
        BY <3>2, <3>4 DEF WholeWords
      <3>7. IsUnit(t) /\ DecodeISO(bits, n, in.pc.afi) = {t}
        BY <3>3, <3>4, <3>5, <3>6, DecodedUnit
      <3> QED BY <3>4, <3>7
    <2> QED BY <2>4 DEF Written
  <1> QED BY <1>1, <1>2

\* So a tag that was read begins well.
LEMMA ConsumeKept == Consume => KeptInv'
  <1> SUFFICES ASSUME Consume PROVE KeptInv'
    OBVIOUS
  <1>1. PICK o \in Observations :
            /\ first' = Translate(TranslationInput(o))
            /\ outcome' = IF TranslateRefusal(TranslationInput(o)) = "" THEN "translated"
                          ELSE IF TranslateRefusal(TranslationInput(o)) \in Untranslatable
                               THEN "untranslated" ELSE "failed"
    BY DEF Consume
  <1>2. outcome' # "refused" /\ current' = first'
    BY <1>1 DEF Consume
  <1>3. PICK in : in = TranslationInput(o)
    OBVIOUS
  <1>4. in.bits \in Seq({0, 1}) /\ in.bitLen = Len(in.bits) /\ in.hasPC \in BOOLEAN /\ in.pc.words \in Nat
    BY <1>3, TagInputAssumption DEF TranslationInput
  <1>5. \A t \in Translate(in) : Written(t) /\ \A u \in Translate(in) : u = t
    BY <1>4, TranslatedOne
  <1>6. \A t, u \in Translate(in) : SameThing(t, u)
    BY <1>5 DEF SameThing
  <1> QED BY <1>1, <1>2, <1>3, <1>5, <1>6, BeginsKept

\* So does a tag that was made up.
LEMMA GenerateKept == Generate => KeptInv'
  <1> SUFFICES ASSUME Generate PROVE KeptInv'
    OBVIOUS
  <1>1. PICK x \in Layouts, filter \in Filters :
          \E texts \in [DOMAIN x.pure -> UNION {RandomTexts(FieldSpecs(x)[i]) : i \in DOMAIN x.pure}] :
             /\ \A i \in DOMAIN x.pure : texts[i] \in RandomTexts(FieldSpecs(x)[i])
             /\ first' = Encode(Identity("gs1", x.s.keyType, texts), x.s.id, filter)
    BY DEF Generate
  <1>2. PICK texts \in [DOMAIN x.pure -> UNION {RandomTexts(FieldSpecs(x)[i]) : i \in DOMAIN x.pure}] :
             /\ \A i \in DOMAIN x.pure : texts[i] \in RandomTexts(FieldSpecs(x)[i])
             /\ first' = Encode(Identity("gs1", x.s.keyType, texts), x.s.id, filter)
    BY <1>1
  <1>3. PICK v : v = Identity("gs1", x.s.keyType, texts)
    OBVIOUS
  <1>4. Encode(v, x.s.id, filter) # {} /\ texts \in Seq(Text)
    BY <1>1, <1>2, <1>3, RandomEncodes
  <1>5. v.components \in Seq(Text) /\ filter \in Nat
    BY <1>1, <1>3, <1>4, FiltersAreNumbers DEF Identity
  <1>6. current' = first' /\ outcome' # "refused"
    BY <1>2, <1>3, <1>4 DEF Generate
  <1>7. \A t \in Encode(v, x.s.id, filter) : Written(t)
    BY <1>5, EncodedReads DEF Written, IsGS1
  <1>8. \A t, u \in Encode(v, x.s.id, filter) : SameThing(t, u)
    BY <1>5, EncodeOne DEF SameThing
  <1> QED BY <1>2, <1>3, <1>6, <1>7, <1>8, BeginsKept

\* And a unit that was asked for.
LEMMA MakeUnitKept == MakeUnit => KeptInv'
  <1> SUFFICES ASSUME MakeUnit PROVE KeptInv'
    OBVIOUS
  <1>1. PICK v \in MadeUnits, c \in Constructs : first' = EncodeISO(v, c.scheme)
    BY DEF MakeUnit
  <1>2. current' = first' /\ outcome' # "refused"
    BY DEF MakeUnit
  <1>3. v.components \in Seq(Seq(Nat)) /\ Len(v.components) = 2
    BY <1>1, TagInputAssumption
  <1>4. \A t \in EncodeISO(v, c.scheme) :
           /\ IsUnit(t) /\ t.scheme = c.scheme /\ t.toggle = TRUE
           /\ IdentityOf(t) = [domain |-> v.domain, components |-> v.components]
    BY <1>3, EncodedUnit
  <1>5. \A t, u \in EncodeISO(v, c.scheme) : SameThing(t, u)
    BY <1>4, Zenon DEF SameThing
  <1>6. \A t \in EncodeISO(v, c.scheme) : Written(t)
    BY <1>4 DEF Written
  <1> QED BY <1>1, <1>2, <1>5, <1>6, BeginsKept

\* Whatever happens to a tag keeps the invariant.
LEMMA KeptStep == KeptInv /\ [TagNext]_tagVars => KeptInv'
  <1> SUFFICES ASSUME KeptInv, [TagNext]_tagVars PROVE KeptInv'
    OBVIOUS
  <1>1. CASE Consume
    BY <1>1, ConsumeKept
  <1>2. CASE Generate
    BY <1>2, GenerateKept
  <1>3. CASE MakeUnit
    BY <1>3, MakeUnitKept
  <1>4. ASSUME NEW t \in current, NEW f \in Filters, Rewrite(t, f) PROVE KeptInv'
    BY <1>4, RewriteKept
  <1>5. ASSUME NEW t \in current, NEW f \in Filters, ByPureURI(t, f) PROVE KeptInv'
    BY <1>5, ByPureURIKept
  <1>6. ASSUME NEW t \in current, ByTagURI(t) PROVE KeptInv'
    BY <1>6, ByTagURIKept
  <1>7. ASSUME NEW t \in current, OverTheAir(t) PROVE KeptInv'
    BY <1>7, OverTheAirKept
  <1>8. CASE UNCHANGED tagVars
    BY <1>8 DEF tagVars, KeptInv
  <1> QED BY <1>1, <1>2, <1>3, <1>4, <1>5, <1>6, <1>7, <1>8 DEF TagNext

\* Which says that its identity is kept, and what identity and filter determine.
LEMMA KeptIdentity == KeptInv => IdentityKept
  <1> SUFFICES ASSUME KeptInv, NEW t \in current, NEW o \in first
               PROVE  /\ IdentityOf(t) = IdentityOf(o)
                      /\ t.filter = o.filter => t.bits = o.bits /\ t.fields = o.fields /\ t.scheme = o.scheme
    BY DEF IdentityKept, KeptInv
  <1>1. Written(t) /\ Written(o) /\ SameThing(t, o)
    BY DEF KeptInv, Kept
  <1>2. IdentityOf(t) = IdentityOf(o) /\ t.scheme = o.scheme /\ t.toggle = o.toggle
    BY <1>1 DEF SameThing
  <1>3. CASE IsUnit(t) /\ IsUnit(o)
    BY <1>2, <1>3, UnitUnique
  <1>4. CASE IsGS1(t) /\ IsGS1(o)
    <2>1. PICK x \in Layouts : ReadsAs(t, x)
      BY <1>4 DEF IsGS1
    <2>2. PICK y \in Layouts : ReadsAs(o, y)
      BY <1>4 DEF IsGS1
    <2>3. t.components = o.components
      BY <1>2 DEF IdentityOf
    <2>4. t.filter = o.filter => t = o
      BY <1>2, <2>1, <2>2, <2>3, ReadingUnique
    <2> QED BY <1>2, <2>4
  <1>5. (IsUnit(t) /\ IsUnit(o)) \/ (IsGS1(t) /\ IsGS1(o))
    <2>1. (IsUnit(t) => t.toggle = TRUE) /\ (IsGS1(t) => t.toggle = FALSE)
      BY WrittenToggle
    <2>2. (IsUnit(o) => o.toggle = TRUE) /\ (IsGS1(o) => o.toggle = FALSE)
      BY WrittenToggle
    <2>3. ~(IsUnit(t) /\ IsGS1(o))
      BY <1>2, <2>1, <2>2
    <2>4. ~(IsGS1(t) /\ IsUnit(o))
      BY <1>2, <2>1, <2>2
    <2> QED BY <1>1, <2>3, <2>4 DEF Written
  <1> QED BY <1>3, <1>4, <1>5

\* However a tag is rewritten, printed, parsed and read, it names the same thing
\* and is never refused, and identity and filter determine it.
THEOREM IdentityKeptHolds == TagSpec => []IdentityKept
  <1>1. TagInit => KeptInv
    BY DEF TagInit, KeptInv, Kept
  <1>2. KeptInv /\ [TagNext]_tagVars => KeptInv'
    BY KeptStep
  <1>3. KeptInv => IdentityKept
    BY KeptIdentity
  <1> QED BY <1>1, <1>2, <1>3, PTL DEF TagSpec
=============================================================================
