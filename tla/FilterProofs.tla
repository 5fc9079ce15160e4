---------------------------- MODULE FilterProofs ----------------------------
(***************************************************************************)
(* Proofs about the filter. The index answers as the linear matcher does,  *)
(* for lists, patterns and tags of any length and any size of bytes. And   *)
(* the adaptive matcher does no harm and switches for a reason, for any    *)
(* configuration it accepts, any callers and costs, and any number of      *)
(* calls.                                                                  *)
(***************************************************************************)
EXTENDS PatternIndex, Adaptive, TLAPS, WellFoundedInduction, FiniteSetTheorems

-----------------------------------------------------------------------------
(* Induction over numbers, as facts about sets of them                     *)

\* Numbers have a least one.
LEMMA LeastNumber ==
    ASSUME NEW T, T \subseteq Nat, T # {}
    PROVE  \E n \in T : \A m \in T : n <= m
  <1> DEFINE R == OpToRel(<, Nat)
  <1>1. IsWellFoundedOn(R, Nat)
    BY NatLessThanWellFounded
  <1>2. \E n \in T : \A m \in T : ~ (<<m, n>> \in R)
    <2> HIDE DEF R
    <2> QED BY <1>1, WFMin
  <1>3. \A m, n \in Nat : m < n => <<m, n>> \in R
    BY DEF OpToRel
  <1> HIDE DEF R
  <1>4. PICK n \in T : \A m \in T : ~ (<<m, n>> \in R)
    BY <1>2
  <1>5. \A m \in T : m \in Nat /\ n \in Nat /\ ~ (m < n)
    BY <1>3, <1>4
  <1> QED BY <1>4, <1>5

\* A set with 0 and the successors of its members has every number.
LEMMA InductiveSet ==
    ASSUME NEW P, 0 \in P, \A n \in Nat : n \in P => n + 1 \in P
    PROVE  Nat \subseteq P
  <1> DEFINE T == Nat \ P
  <1> SUFFICES ASSUME T # {} PROVE FALSE
    OBVIOUS
  <1>1. PICK n \in T : \A m \in T : n <= m
    BY LeastNumber
  <1>2. n # 0 /\ n - 1 \in Nat
    BY <1>1
  <1>3. n - 1 \in P
    BY <1>1, <1>2
  <1>4. (n - 1) + 1 \in P
    BY <1>2, <1>3
  <1> QED BY <1>1, <1>4

-----------------------------------------------------------------------------
(* The index                                                               *)

\* What is a multiple is the product of its quotient.
LEMMA Divided ==
    ASSUME NEW n \in Nat, n % ByteBits = 0
    PROVE  n = ByteBits * (n \div ByteBits) /\ n \div ByteBits \in Nat
  <1>1. PICK b \in Nat : b = ByteBits /\ b > 0
        BY ByteAssumption
  <1>2. PICK q \in Int : q = n \div b
        BY <1>1
  <1>3. n = b * q + (n % b)
        BY <1>1, <1>2
  <1>4. n = b * q
        BY <1>1, <1>3
  <1>5. q >= 0
        <2> SUFFICES ASSUME q <= -1 PROVE FALSE
              BY <1>2
        <2>1. b * (-1 - q) >= 0 /\ b * (-1 - q) = -b - b * q
              BY <1>1
        <2> QED BY <1>1, <1>4, <2>1
  <1> QED BY <1>1, <1>2, <1>4, <1>5

\* The end of the byte of a position inside a string of whole bytes is inside it.
LEMMA ByteEndsInside ==
    ASSUME NEW bytes \in Nat, NEW i \in 1..(bytes * ByteBits)
    PROVE  LastOfByte(i) <= bytes * ByteBits
  <1> DEFINE q == (i - 1) \div ByteBits
             r == (i - 1) % ByteBits
  <1>1. ByteBits \in Nat /\ ByteBits > 0
        BY ByteAssumption
  <1>2. i \in Int /\ 1 <= i /\ i <= bytes * ByteBits
        BY <1>1
  <1>3. /\ q \in Int /\ r \in 0..(ByteBits - 1)
        /\ i - 1 = ByteBits * q + r
        BY <1>1, <1>2
  <1> HIDE DEF q, r
  <1>4. q < bytes
        <2>1. ByteBits * q < bytes * ByteBits
              BY <1>1, <1>2, <1>3
        <2>2. SUFFICES ASSUME q >= bytes PROVE FALSE
              BY <1>3
        <2>3. ByteBits * (q - bytes) >= 0
              BY <1>1, <1>3, <2>2
        <2>4. ByteBits * (q - bytes) = ByteBits * q - bytes * ByteBits
              BY <1>1, <1>3
        <2> QED BY <1>1, <1>3, <2>1, <2>3, <2>4
  <1>5. (q + 1) * ByteBits <= bytes * ByteBits
        <2>1. bytes - (q + 1) >= 0
              BY <1>3, <1>4
        <2>2. (bytes - (q + 1)) * ByteBits >= 0
              BY <1>1, <1>3, <2>1
        <2>3. (bytes - (q + 1)) * ByteBits = bytes * ByteBits - (q + 1) * ByteBits
              BY <1>1, <1>3
        <2> QED BY <1>1, <1>3, <2>2, <2>3
  <1> QED BY <1>5 DEF LastOfByte, q

\* walkBits reaches every entry whose bit test the tag passes.
LEMMA BitsReached ==
    ASSUME NEW p, CompiledPattern(p), NEW s, TranslatedTag(s), MatchesBits(p, s)
    PROVE  ReachedBits(p, s)
  <1>1. /\ Len(p.mask) \in Nat /\ Len(s.bits) \in Nat
        /\ Len(p.mask) <= Len(s.bits)
        BY DEF CompiledPattern, TranslatedTag, MatchesBits
  <1>2. ASSUME NEW i \in Leading(p)
        PROVE  i \in 1..Len(s.bits) /\ s.bits[i] = p.value[i]
        <2>1. i \in 1..Len(p.mask) /\ p.mask[i] = 1
              BY <1>1 DEF Leading
        <2> QED BY <1>1, <2>1 DEF MatchesBits
  <1>3. PICK bytes \in Nat : Len(s.bits) = bytes * ByteBits
        <2>1. PICK n \in Nat : n = Len(s.bits) /\ n % ByteBits = 0
              BY DEF TranslatedTag
        <2>2. PICK q \in Nat : n = ByteBits * q
              BY <2>1, Divided
        <2>3. ByteBits * q = q * ByteBits
              BY ByteAssumption
        <2> QED BY <2>1, <2>2, <2>3
  <1>4. ASSUME NEW i \in Leading(p) PROVE LastOfByte(i) <= Len(s.bits)
        BY <1>2, <1>3, ByteEndsInside
  <1>5. Path(p) \subseteq Leading(p) /\ Remainder(p) \subseteq Leading(p)
        BY DEF Path, Remainder
  <1> QED BY <1>1, <1>2, <1>4, <1>5 DEF ReachedBits

\* walkFields reaches every entry whose fields the components satisfy.
LEMMA FieldsReached ==
    ASSUME NEW p, CompiledPattern(p), InFieldTrie(p),
           NEW components, MatchesComponents(p, components)
    PROVE  ReachedFields(p, components)
  <1>1. Len(p.fields) \in Nat /\ Len(components) = Len(p.fields)
        BY DEF CompiledPattern, MatchesComponents
  <1>2. ASSUME NEW i \in 1..Len(p.fields), p.fields[i].kind # "any"
        PROVE  i <= Len(components) /\ components[i] = p.fields[i].text
        <2>1. p.fields[i].kind # "range"
              BY DEF InFieldTrie
        <2>2. MatchesField(p.fields[i], components[i])
              BY DEF MatchesComponents
        <2> QED BY <1>1, <1>2, <2>1, <2>2 DEF MatchesField
  <1> QED BY <1>2 DEF ReachedFields

\* index.go: the structures only prune, and never a true match.
THEOREM PruningIsExact ==
    ASSUME NEW p, CompiledPattern(p), NEW s, TranslatedTag(s), Matches(p, s)
    PROVE  Reached(p, s)
  <1>1. CASE InBitTrie(p)
        <2>1. p.scheme = s.scheme /\ MatchesBits(p, s)
              BY <1>1 DEF InBitTrie, Matches
        <2> QED BY <1>1, <2>1, BitsReached DEF Reached
  <1>2. CASE InFieldTrie(p)
        <2>1. CASE p.level = "identity"
              <3>1. p.domain = s.domain /\ MatchesComponents(p, s.components)
                    BY <2>1 DEF Matches
              <3> QED BY <1>2, <2>1, <3>1, FieldsReached DEF Reached
        <2>2. CASE p.level = "encoding"
              <3>1. p.scheme = s.scheme /\ MatchesComponents(p, s.fields)
                    BY <1>2, <2>2 DEF Matches, InFieldTrie, InBitTrie
              <3> QED BY <1>2, <2>2, <3>1, FieldsReached DEF Reached
        <2> QED BY <2>1, <2>2 DEF Matches
  <1>3. CASE ~InBitTrie(p) /\ ~InFieldTrie(p)
        BY <1>3 DEF Reached
  <1> QED BY <1>1, <1>2, <1>3

\* On every list and tag the index finds the entries the rule accepts, no
\* more and no fewer.
THEOREM FoundIsMatched ==
    ASSUME NEW subs, CompiledList(subs), NEW s, TranslatedTag(s)
    PROVE  Found(subs, s) = {e \in Entries(subs) : Matches(subs[e[1]].patterns[e[2]], s)}
  <1>1. ASSUME NEW e \in Entries(subs) PROVE CompiledPattern(subs[e[1]].patterns[e[2]])
        BY DEF Entries, CompiledList
  <1> QED BY <1>1, PruningIsExact DEF Found

-----------------------------------------------------------------------------
(* Order                                                                   *)

\* f has what the first k labels come to.
Scans(f, labels, K, k) ==
    f = [n \in 0..k |-> IF n = 0 THEN <<>>
                        ELSE IF n \in K THEN Append(f[n - 1], labels[n]) ELSE f[n - 1]]

\* There is such an f, so Scan's recursion defines it.
LEMMA ScansExist ==
    ASSUME NEW labels, NEW K, NEW k \in Nat
    PROVE  \E f : Scans(f, labels, K, k)
  <1> DEFINE P == {m \in Nat : \E f : Scans(f, labels, K, m)}
  <1>1. 0 \in P
    <2> DEFINE f == [n \in 0..0 |-> <<>>]
    <2>1. Scans(f, labels, K, 0)
      BY DEF Scans
    <2> QED BY <2>1
  <1>2. ASSUME NEW m \in Nat, m \in P PROVE m + 1 \in P
    <2>1. PICK f : Scans(f, labels, K, m)
      BY <1>2
    <2> DEFINE last == IF m + 1 \in K THEN Append(f[m], labels[m + 1]) ELSE f[m]
               g == [n \in 0..(m + 1) |-> IF n = m + 1 THEN last ELSE f[n]]
    <2>2. ASSUME NEW n \in 0..(m + 1)
          PROVE  g[n] = IF n = 0 THEN <<>>
                        ELSE IF n \in K THEN Append(g[n - 1], labels[n]) ELSE g[n - 1]
      <3>1. CASE n = m + 1
        <4>1. g[n] = last /\ g[n - 1] = f[m] /\ n - 1 = m /\ n # 0
          BY <3>1
        <4> QED BY <3>1, <4>1
      <3>2. CASE n # m + 1
        <4>1. n \in 0..m /\ (n # 0 => n - 1 \in 0..m /\ n - 1 # m + 1 /\ n - 1 \in 0..(m + 1))
          BY <3>2
        <4>2. f[n] = IF n = 0 THEN <<>>
                     ELSE IF n \in K THEN Append(f[n - 1], labels[n]) ELSE f[n - 1]
          BY <2>1, <4>1 DEF Scans
        <4>3. g[n] = f[n] /\ (n # 0 => g[n - 1] = f[n - 1])
          BY <3>2, <4>1
        <4> HIDE DEF g
        <4> QED BY <4>2, <4>3
      <3> QED BY <3>1, <3>2
    <2>3. Scans(g, labels, K, m + 1)
      BY <2>2 DEF Scans
    <2> HIDE DEF g
    <2> QED BY <2>3
  <1> HIDE DEF P
  <1>3. Nat \subseteq P
    BY <1>1, <1>2, InductiveSet
  <1> QED BY <1>3 DEF P

\* Scan is the last of them.
LEMMA ScanSteps ==
    ASSUME NEW labels, NEW K, Len(labels) \in Nat
    PROVE  \E f : /\ Scan(labels, K) = f[Len(labels)] /\ f[0] = <<>>
                  /\ \A n \in 1..Len(labels) :
                        f[n] = IF n \in K THEN Append(f[n - 1], labels[n]) ELSE f[n - 1]
  <1> DEFINE F == CHOOSE f : f = [n \in 0..Len(labels) |->
                                    IF n = 0 THEN <<>>
                                    ELSE IF n \in K THEN Append(f[n - 1], labels[n]) ELSE f[n - 1]]
  <1>1. Scans(F, labels, K, Len(labels))
    <2>1. \E f : f = [n \in 0..Len(labels) |->
                        IF n = 0 THEN <<>>
                        ELSE IF n \in K THEN Append(f[n - 1], labels[n]) ELSE f[n - 1]]
      <3>1. PICK n \in Nat : n = Len(labels)
        OBVIOUS
      <3>2. \E f : Scans(f, labels, K, n)
        BY ScansExist
      <3> QED BY <3>1, <3>2 DEF Scans
    <2> QED BY <2>1 DEF Scans
  <1>2. Scan(labels, K) = F[Len(labels)]
    BY DEF Scan
  <1> HIDE DEF F
  <1>3. \A n \in 0..Len(labels) : F[n] = IF n = 0 THEN <<>>
                               ELSE IF n \in K THEN Append(F[n - 1], labels[n]) ELSE F[n - 1]
    BY <1>1 DEF Scans
  <1> QED BY <1>2, <1>3

Ranks(k) == [i \in 1..k |-> i]

\* Ranks are labelled by themselves.
LEMMA RanksAre == ASSUME NEW k \in Nat PROVE Len(Ranks(k)) = k /\ \A i \in 1..k : Ranks(k)[i] = i
  BY DEF Ranks

\* The same of ranks.
LEMMA RankSteps ==
    ASSUME NEW k \in Nat, NEW K
    PROVE  \E f : /\ Scan(Ranks(k), K) = f[k] /\ f[0] = <<>>
                  /\ \A n \in 1..k : f[n] = IF n \in K THEN Append(f[n - 1], n) ELSE f[n - 1]
  <1>1. PICK labels : labels = Ranks(k)
    OBVIOUS
  <1>2. Len(labels) \in Nat
    BY <1>1, RanksAre
  <1>3. PICK f : /\ Scan(labels, K) = f[Len(labels)] /\ f[0] = <<>>
                 /\ \A n \in 1..Len(labels) :
                       f[n] = IF n \in K THEN Append(f[n - 1], labels[n]) ELSE f[n - 1]
    BY ONLY <1>2, ScanSteps
  <1> QED BY <1>1, <1>3, RanksAre

\* One rank or none needs no sorting.
LEMMA ScanOfFew ==
    ASSUME NEW k \in Nat, NEW K
    PROVE  /\ K = {} => Scan(Ranks(k), K) = <<>>
           /\ \A r \in 1..k : K = {r} => Scan(Ranks(k), K) = <<r>>
  <1>1. PICK f : /\ Scan(Ranks(k), K) = f[k] /\ f[0] = <<>>
                 /\ \A n \in 1..k : f[n] = IF n \in K THEN Append(f[n - 1], n) ELSE f[n - 1]
    BY RankSteps
  <1>2. ASSUME K = {} PROVE f[k] = <<>>
    <2> DEFINE P == {m \in Nat : m <= k => f[m] = <<>>}
    <2>1. 0 \in P
      BY <1>1
    <2>2. ASSUME NEW m \in Nat, m \in P PROVE m + 1 \in P
      BY <1>1, <1>2, <2>2
    <2> HIDE DEF P
    <2>3. k \in P
      BY <2>1, <2>2, InductiveSet
    <2> QED BY <2>3 DEF P
  <1>3. ASSUME NEW r \in 1..k, K = {r} PROVE f[k] = <<r>>
    <2> DEFINE P == {m \in Nat : m <= k => f[m] = IF m < r THEN <<>> ELSE <<r>>}
    <2>1. 0 \in P
      BY <1>1
    <2>2. ASSUME NEW m \in Nat, m \in P PROVE m + 1 \in P
      <3> SUFFICES ASSUME m + 1 <= k PROVE f[m + 1] = IF m + 1 < r THEN <<>> ELSE <<r>>
        OBVIOUS
      <3>1. m + 1 \in 1..k /\ (m + 1) - 1 = m /\ f[m] = IF m < r THEN <<>> ELSE <<r>>
        BY <2>2
      <3>2. f[m + 1] = IF m + 1 = r THEN Append(f[m], m + 1) ELSE f[m]
        BY <1>1, <1>3, <3>1
      <3>4. Append(<<>>, r) = <<r>>
        OBVIOUS
      <3> HIDE DEF P
      <3>5. CASE m + 1 = r
        BY <3>1, <3>2, <3>4, <3>5
      <3>6. CASE m + 1 < r
        BY <3>1, <3>2, <3>6
      <3>7. CASE m + 1 > r
        BY <3>1, <3>2, <3>7
      <3> QED BY <3>5, <3>6, <3>7
    <2> HIDE DEF P
    <2>3. k \in P
      BY <2>1, <2>2, InductiveSet
    <2> QED BY <2>3 DEF P
  <1> QED BY <1>1, <1>2, <1>3

\* To look up what is appended is to append what is looked up.
LEMMA AppendedMaps ==
    ASSUME NEW k \in Nat, NEW r \in Seq(1..k), NEW m \in 1..k, NEW labels
    PROVE  /\ Append(r, m) \in Seq(1..k)
           /\ [i \in 1..Len(Append(r, m)) |-> labels[Append(r, m)[i]]] =
                 Append([i \in 1..Len(r) |-> labels[r[i]]], labels[m])
  OBVIOUS

\* To scan labels is to scan ranks and look each up.
LEMMA ScanMaps ==
    ASSUME NEW k \in Nat, NEW K, NEW labels, k = Len(labels)
    PROVE  LET ranks == Scan(Ranks(k), K)
           IN  /\ ranks \in Seq(1..k)
               /\ [i \in 1..Len(ranks) |-> labels[ranks[i]]] = Scan(labels, K)
  <1>1. PICK f : /\ Scan(Ranks(k), K) = f[k] /\ f[0] = <<>>
                 /\ \A n \in 1..k : f[n] = IF n \in K THEN Append(f[n - 1], n) ELSE f[n - 1]
    BY RankSteps
  <1>2. PICK g : /\ Scan(labels, K) = g[k] /\ g[0] = <<>>
                 /\ \A n \in 1..k : g[n] = IF n \in K THEN Append(g[n - 1], labels[n]) ELSE g[n - 1]
    <2>1. Len(labels) \in Nat
      OBVIOUS
    <2>2. PICK g : /\ Scan(labels, K) = g[Len(labels)] /\ g[0] = <<>>
                   /\ \A n \in 1..Len(labels) :
                         g[n] = IF n \in K THEN Append(g[n - 1], labels[n]) ELSE g[n - 1]
      BY ONLY <2>1, ScanSteps
    <2> QED BY <2>2
  <1> DEFINE P == {m \in Nat : m <= k => /\ f[m] \in Seq(1..k)
                                         /\ g[m] = [i \in 1..Len(f[m]) |-> labels[f[m][i]]]}
  <1>3. 0 \in P
    <2>1. <<>> \in Seq(1..k) /\ <<>> = [i \in 1..Len(<<>>) |-> labels[<<>>[i]]]
      OBVIOUS
    <2> QED BY <1>1, <1>2, <2>1
  <1>4. ASSUME NEW m \in Nat, m \in P PROVE m + 1 \in P
    <2> SUFFICES ASSUME m + 1 <= k
                 PROVE  /\ f[m + 1] \in Seq(1..k)
                        /\ g[m + 1] = [i \in 1..Len(f[m + 1]) |-> labels[f[m + 1][i]]]
      OBVIOUS
    <2>1. m + 1 \in 1..k /\ (m + 1) - 1 = m
      OBVIOUS
    <2>2. f[m] \in Seq(1..k) /\ g[m] = [i \in 1..Len(f[m]) |-> labels[f[m][i]]]
      BY <1>4, <2>1
    <2> HIDE DEF P
    <2>3. CASE m + 1 \in K
      <3>1. f[m + 1] = Append(f[m], m + 1)
        BY <1>1, <2>1, <2>3
      <3>2. g[m + 1] = Append(g[m], labels[m + 1])
        BY <1>2, <2>1, <2>3
      <3> QED BY <2>1, <2>2, <3>1, <3>2, AppendedMaps
    <2>4. CASE m + 1 \notin K
      <3>1. f[m + 1] = f[m] /\ g[m + 1] = g[m]
        BY <1>1, <1>2, <2>1, <2>4
      <3> QED BY <2>2, <3>1
    <2> QED BY <2>3, <2>4
  <1> HIDE DEF P
  <1>5. k \in P
    BY <1>3, <1>4, InductiveSet
  <1> QED BY <1>1, <1>2, <1>5 DEF P

\* What SetToSeq makes of a finite set has each of its members once.
LEMMA AllInSeq ==
    ASSUME NEW S, IsFiniteSet(S)
    PROVE  /\ Len(SetToSeq(S)) = Cardinality(S) /\ Cardinality(S) \in Nat
           /\ S = {SetToSeq(S)[i] : i \in 1..Cardinality(S)}
  <1>1. PICK n \in Nat : n = Cardinality(S) /\ ExistsBijection(1..n, S)
    BY FS_CardinalityType
  <1>2. \E f \in [1..n -> S] : IsInjective(f)
    BY <1>1 DEF ExistsBijection, Bijection, Injection
  <1>3. PICK f \in [1..n -> S] : IsInjective(f) /\ f = SetToSeq(S)
    BY <1>1, <1>2 DEF SetToSeq
  <1>4. f \in Injection(1..n, S)
    BY <1>3 DEF Injection
  <1>5. Cardinality(1..n) = n
    BY FS_Interval
  <1>6. f \in Surjection(1..n, S)
    BY <1>1, <1>4, <1>5, FS_Injection
  <1>7. \A x \in S : \E i \in 1..n : f[i] = x
    BY <1>6 DEF Surjection
  <1> QED BY <1>1, <1>3, <1>7

\* A list has finitely many entries.
LEMMA EntriesAreFinite ==
    ASSUME NEW subs, CompiledList(subs)
    PROVE  IsFiniteSet(Entries(subs))
  <1> DEFINE Of(rank) == {<<rank, i>> : i \in DOMAIN subs[rank].patterns}
  <1>1. ASSUME NEW rank \in DOMAIN subs PROVE IsFiniteSet(Of(rank))
    <2>1. PICK n \in Nat : DOMAIN subs[rank].patterns = 1..n
      BY DEF CompiledList
    <2> DEFINE f == [i \in 1..n |-> <<rank, i>>]
    <2>2. f \in Surjection(1..n, Of(rank))
      BY <2>1 DEF Surjection
    <2> HIDE DEF f, Of
    <2> QED BY <2>2, FS_Surjection, FS_Interval
  <1>2. PICK k \in Nat : DOMAIN subs = 1..k
    BY DEF CompiledList
  <1> DEFINE g == [rank \in 1..k |-> Of(rank)]
             parts == {Of(rank) : rank \in 1..k}
  <1>3. g \in Surjection(1..k, parts)
    BY DEF Surjection
  <1>4. IsFiniteSet(parts)
    <2> HIDE DEF g, parts
    <2> QED BY <1>3, FS_Surjection, FS_Interval
  <1>5. \A T \in parts : IsFiniteSet(T)
    BY <1>1, <1>2
  <1>6. Entries(subs) = UNION parts
    BY <1>2 DEF Entries
  <1> HIDE DEF parts
  <1> QED BY <1>4, <1>5, <1>6, FS_UNION

\* The subscriptions of the entries that the index confirms are those with a
\* pattern the rule accepts.
LEMMA FoundRanks ==
    ASSUME NEW subs, CompiledList(subs), NEW s, TranslatedTag(s)
    PROVE  /\ {e[1] : e \in Found(subs, s)} = Hits(subs, s)
           /\ IsFiniteSet(Found(subs, s))
  <1>1. Found(subs, s) = {e \in Entries(subs) : Matches(subs[e[1]].patterns[e[2]], s)}
    BY FoundIsMatched
  <1>2. IsFiniteSet(Found(subs, s))
    BY <1>1, EntriesAreFinite, FS_Subset
  <1>3. ASSUME NEW e \in Found(subs, s) PROVE e[1] \in Hits(subs, s)
    <2>0. PICK rank \in DOMAIN subs : \E i \in DOMAIN subs[rank].patterns : e = <<rank, i>>
      BY <1>1 DEF Entries
    <2>1. PICK i \in DOMAIN subs[rank].patterns : e = <<rank, i>>
      BY <2>0
    <2>2. Matches(subs[rank].patterns[i], s)
      BY <1>1, <2>1
    <2> QED BY <2>1, <2>2 DEF Hits
  <1>4. ASSUME NEW r \in Hits(subs, s) PROVE \E e \in Found(subs, s) : e[1] = r
    <2>1. PICK j \in DOMAIN subs[r].patterns : r \in DOMAIN subs /\ Matches(subs[r].patterns[j], s)
      BY DEF Hits
    <2>2. <<r, j>> \in Entries(subs)
      BY <2>1 DEF Entries
    <2>3. <<r, j>> \in Found(subs, s)
      BY <1>1, <2>1, <2>2
    <2> QED BY <2>3
  <1> QED BY <1>2, <1>3, <1>4

\* index.Match answers as linear.Match does, whatever the list and the tag.
THEOREM IndexMatchIsLinear ==
    ASSUME NEW subs, CompiledList(subs), NEW s, TranslatedTag(s)
    PROVE  IndexMatch(subs, s) = LinearMatch(subs, s)
  <1>1. PICK k \in Nat : k = Len(subs) /\ DOMAIN subs = 1..k
    BY DEF CompiledList
  <1>2. PICK K : K = Hits(subs, s) /\ K \subseteq 1..k
    BY <1>1 DEF Hits
  <1>3. PICK S : S = Found(subs, s)
    OBVIOUS
  <1>4. {e[1] : e \in S} = K /\ IsFiniteSet(S)
    BY <1>2, <1>3, FoundRanks
  <1>5. PICK q : q = SetToSeq(S)
    OBVIOUS
  <1>5a. PICK n \in Nat : n = Len(q) /\ S = {q[i] : i \in 1..n}
    BY <1>4, <1>5, AllInSeq
  <1>6. PICK found : found = [i \in 1..n |-> q[i][1]]
    OBVIOUS
  <1>7. Len(found) = n /\ ToSet(found) = K
    <2>1. Len(found) = n /\ ToSet(found) = {q[i][1] : i \in 1..n}
      BY <1>6 DEF ToSet
    <2>2. {q[i][1] : i \in 1..n} = {e[1] : e \in S}
      BY <1>5a
    <2> QED BY <1>4, <2>1, <2>2
  <1>8. Order(found, k) = Scan(Ranks(k), K)
    <2>1. CASE n = 0
      <3>1. found = <<>> /\ K = {}
        BY <1>6, <1>7, <2>1 DEF ToSet
      <3> QED BY <1>7, <2>1, <3>1, ScanOfFew DEF Order
    <2>2. CASE n = 1
      <3>1. PICK r : r = found[1]
        OBVIOUS
      <3>2. found = <<r>> /\ K = {r}
        BY <1>6, <1>7, <2>2, <3>1 DEF ToSet
      <3>3. r \in 1..k
        BY <1>2, <3>2
      <3> QED BY <1>7, <2>2, <3>2, <3>3, ScanOfFew DEF Order
    <2>3. CASE n > 1
      BY <1>7, <2>3 DEF Order, Ranks
    <2> QED BY <2>1, <2>2, <2>3
  <1>9. PICK ranks : ranks = Scan(Ranks(k), K)
    OBVIOUS
  <1>10. IndexMatch(subs, s) = [i \in 1..Len(ranks) |-> subs[ranks[i]].id]
    BY <1>1, <1>3, <1>5, <1>5a, <1>6, <1>8, <1>9 DEF IndexMatch
  <1>11. Len(Ids(subs)) = k /\ \A i \in 1..k : Ids(subs)[i] = subs[i].id
    BY <1>1 DEF Ids
  <1>12. /\ ranks \in Seq(1..k)
         /\ [i \in 1..Len(ranks) |-> Ids(subs)[ranks[i]]] = Scan(Ids(subs), K)
    BY <1>9, <1>11, ScanMaps
  <1>13. [i \in 1..Len(ranks) |-> Ids(subs)[ranks[i]]] = [i \in 1..Len(ranks) |-> subs[ranks[i]].id]
    BY <1>11, <1>12
  <1> QED BY <1>2, <1>10, <1>12, <1>13 DEF LinearMatch

\* So every answer is the linear matcher's.
THEOREM IndexAgreesHolds == IndexSpec => []IndexAgrees
  <1> DEFINE Inv == /\ subscriptions \in Lists
                    /\ \/ subject = {}
                       \/ \E s \in Subjects : /\ subject = {s}
                                              /\ answer = IndexMatch(subscriptions, s)
  <1>1. IndexInit => Inv
    BY DEF IndexInit
  <1>2. Inv /\ [IndexNext]_indexVars => Inv'
    BY DEF IndexNext, Compile, Match, indexVars
  <1>3. Inv => IndexAgrees
    BY IndexMatchIsLinear, InputAssumption DEF IndexAgrees
  <1> QED BY <1>1, <1>2, <1>3, PTL DEF IndexSpec

-----------------------------------------------------------------------------
(* Sums and means                                                          *)

\* g is the running sum of the first k numbers of q.
Sums(g, q, k) == g = [n \in 0..k |-> IF n = 0 THEN 0 ELSE g[n - 1] + q[n]]

\* Running sums exist, so Total's recursion defines them.
LEMMA SumsExist ==
    ASSUME NEW q, NEW k \in Nat
    PROVE  \E g : Sums(g, q, k)
  <1> DEFINE P == {m \in Nat : \E g : Sums(g, q, m)}
  <1>1. 0 \in P
    <2> DEFINE g == [n \in 0..0 |-> 0]
    <2>1. Sums(g, q, 0)
      BY DEF Sums
    <2> QED BY <2>1
  <1>2. ASSUME NEW m \in Nat, m \in P PROVE m + 1 \in P
    <2>1. PICK g : Sums(g, q, m)
      BY <1>2
    <2> DEFINE h == [n \in 0..(m + 1) |-> IF n = m + 1 THEN g[m] + q[m + 1] ELSE g[n]]
    <2>2. ASSUME NEW n \in 0..(m + 1)
          PROVE  h[n] = IF n = 0 THEN 0 ELSE h[n - 1] + q[n]
      <3>1. CASE n = m + 1
        BY <3>1
      <3>2. CASE n # m + 1
        <4>1. n \in 0..m /\ (n # 0 => n - 1 \in 0..m /\ n - 1 # m + 1 /\ n - 1 \in 0..(m + 1))
          BY <3>2
        <4>2. g[n] = IF n = 0 THEN 0 ELSE g[n - 1] + q[n]
          BY <2>1, <4>1 DEF Sums
        <4> QED BY <3>2, <4>1, <4>2
      <3> QED BY <3>1, <3>2
    <2>3. Sums(h, q, m + 1)
      BY <2>2 DEF Sums
    <2> QED BY <2>3
  <1> HIDE DEF P
  <1>3. Nat \subseteq P
    BY <1>1, <1>2, InductiveSet
  <1> QED BY <1>3 DEF P

\* Total is the last of the running sums.
LEMMA TotalIsSum ==
    ASSUME NEW q, Len(q) \in Nat
    PROVE  \E g : Sums(g, q, Len(q)) /\ Total(q) = g[Len(q)]
  <1> DEFINE G == CHOOSE g : g = [n \in 0..Len(q) |-> IF n = 0 THEN 0 ELSE g[n - 1] + q[n]]
  <1>1. Sums(G, q, Len(q))
    <2>1. \E g : g = [n \in 0..Len(q) |-> IF n = 0 THEN 0 ELSE g[n - 1] + q[n]]
      BY SumsExist DEF Sums
    <2> QED BY <2>1 DEF Sums
  <1>2. Total(q) = G[Len(q)]
    BY DEF Total
  <1> QED BY <1>1, <1>2

\* A step of a bounded sum.
LEMMA NextMultiple ==
    ASSUME NEW m \in Nat, NEW h \in Nat, NEW s \in Nat, NEW x \in Nat, s <= h * m, x <= h
    PROVE  s + x <= h * (m + 1) /\ h * m \in Nat /\ h * (m + 1) \in Nat
  <1>1. h * (m + 1) = h * m + h /\ h * m \in Nat
    OBVIOUS
  <1> QED BY <1>1

\* A sum of numbers up to h is at most h for each.
LEMMA TotalIsBounded ==
    ASSUME NEW q \in Seq(Nat), NEW h \in Nat, \A i \in 1..Len(q) : q[i] <= h
    PROVE  Total(q) \in Nat /\ Total(q) <= h * Len(q)
  <1>1. PICK k \in Nat : k = Len(q)
    OBVIOUS
  <1>2. PICK g : Sums(g, q, k) /\ Total(q) = g[k]
    BY <1>1, TotalIsSum
  <1>3. \A n \in 0..k : g[n] = IF n = 0 THEN 0 ELSE g[n - 1] + q[n]
    BY <1>2 DEF Sums
  <1> DEFINE P == {m \in Nat : m <= k => g[m] \in Nat /\ g[m] <= h * m}
  <1>4. 0 \in P
    BY <1>3
  <1>5. ASSUME NEW m \in Nat, m \in P PROVE m + 1 \in P
    <2> SUFFICES ASSUME m + 1 <= k PROVE g[m + 1] \in Nat /\ g[m + 1] <= h * (m + 1)
      OBVIOUS
    <2>1. m + 1 \in 0..k /\ m + 1 # 0 /\ (m + 1) - 1 = m /\ m + 1 \in 1..Len(q)
      BY <1>1
    <2>2. g[m + 1] = g[m] + q[m + 1]
      BY <1>3, <2>1
    <2>3. g[m] \in Nat /\ g[m] <= h * m
      BY <1>5
    <2>4. q[m + 1] \in Nat /\ q[m + 1] <= h
      BY <2>1
    <2> HIDE DEF P
    <2> QED BY <2>2, <2>3, <2>4, NextMultiple
  <1> HIDE DEF P
  <1>6. k \in P
    BY <1>4, <1>5, InductiveSet
  <1> QED BY <1>1, <1>2, <1>6 DEF P

\* A sum with one addend that counts.
LEMMA TotalOfOne ==
    ASSUME NEW q \in Seq(Nat), NEW h \in Nat, NEW j,
           \A i \in 1..Len(q) : IF i = j THEN q[i] <= h ELSE q[i] = 0
    PROVE  Total(q) \in Nat /\ Total(q) <= h
  <1>1. PICK k \in Nat : k = Len(q)
    OBVIOUS
  <1>2. PICK g : Sums(g, q, k) /\ Total(q) = g[k]
    BY <1>1, TotalIsSum
  <1>3. \A n \in 0..k : g[n] = IF n = 0 THEN 0 ELSE g[n - 1] + q[n]
    BY <1>2 DEF Sums
  <1> DEFINE P == {m \in Nat : m <= k => /\ g[m] \in Nat /\ g[m] <= h
                                         /\ (\A i \in 1..m : i # j) => g[m] = 0}
  <1>4. 0 \in P
    BY <1>3
  <1>5. ASSUME NEW m \in Nat, m \in P PROVE m + 1 \in P
    <2> SUFFICES ASSUME m + 1 <= k
                 PROVE  /\ g[m + 1] \in Nat /\ g[m + 1] <= h
                        /\ (\A i \in 1..(m + 1) : i # j) => g[m + 1] = 0
      OBVIOUS
    <2>1. m + 1 \in 0..k /\ m + 1 # 0 /\ (m + 1) - 1 = m /\ m + 1 \in 1..Len(q)
      BY <1>1
    <2>2. g[m + 1] = g[m] + q[m + 1]
      BY <1>3, <2>1
    <2>3. g[m] \in Nat /\ g[m] <= h /\ ((\A i \in 1..m : i # j) => g[m] = 0)
      BY <1>5
    <2>4. CASE m + 1 = j
      <3>1. g[m] = 0
        BY <2>3, <2>4
      <3>2. q[m + 1] \in Nat /\ q[m + 1] <= h
        BY <2>1, <2>4
      <3>3. ~ \A i \in 1..(m + 1) : i # j
        BY <2>4
      <3> HIDE DEF P
      <3> QED BY <2>2, <3>1, <3>2, <3>3
    <2>5. CASE m + 1 # j
      <3>1. q[m + 1] = 0
        BY <2>1, <2>5
      <3>2. g[m + 1] = g[m]
        BY <2>2, <2>3, <3>1
      <3>3. (\A i \in 1..(m + 1) : i # j) => (\A i \in 1..m : i # j)
        OBVIOUS
      <3> HIDE DEF P
      <3> QED BY <2>3, <3>2, <3>3
    <2> QED BY <2>4, <2>5
  <1> HIDE DEF P
  <1>6. k \in P
    BY <1>4, <1>5, InductiveSet
  <1> QED BY <1>1, <1>2, <1>6 DEF P

\* A mean is at most what bounds what it is the mean of.
LEMMA MeanIsBounded ==
    ASSUME NEW q \in Seq(Nat), NEW h \in Nat, \A i \in 1..Len(q) : q[i] <= h
    PROVE  MeanOf(q) \in Nat /\ MeanOf(q) <= h
  <1>1. CASE q = <<>>
    BY <1>1 DEF MeanOf
  <1>2. CASE q # <<>>
    <2>1. PICK k \in Nat : k = Len(q) /\ k > 0
      BY <1>2
    <2>2. PICK s \in Nat : s = Total(q) /\ s <= h * k
      BY <2>1, TotalIsBounded
    <2>3. PICK m \in Int : m = s \div k
      BY <2>1
    <2>4. k * m <= s /\ s < k * m + k
      BY <2>1, <2>3
    <2>5. m >= 0
      <3> SUFFICES ASSUME m <= -1 PROVE FALSE
        OBVIOUS
      <3>1. k * m <= k * (-1)
        <4>1. k * (-1 - m) >= 0
          BY <2>1
        <4>2. k * (-1 - m) = k * (-1) - k * m
          OBVIOUS
        <4> QED BY <4>1, <4>2
      <3> QED BY <2>1, <2>4, <3>1
    <2>6. m <= h
      <3> SUFFICES ASSUME m >= h + 1 PROVE FALSE
        OBVIOUS
      <3>1. k * (m - (h + 1)) >= 0
        BY <2>1
      <3>2. k * (m - (h + 1)) = k * m - h * k - k
        OBVIOUS
      <3> QED BY <2>1, <2>2, <2>4, <3>1, <3>2
    <2> QED BY <1>2, <2>1, <2>2, <2>3, <2>5, <2>6 DEF MeanOf
  <1> QED BY <1>1, <1>2

-----------------------------------------------------------------------------
(* The adaptive matcher: types, and what a sampled call does               *)

Highest == CHOOSE c \in Costs : \A d \in Costs : d <= c

Places == {"start", "read", "lock", "return"}

AdaptiveTypes ==
    /\ full \in BOOLEAN /\ calls \in Nat /\ selected \in Candidates
    /\ ctl \in [selected : Candidates, switches : Nat, sinceSwitch : Nat]
    /\ counts \in [Candidates -> Nat] /\ rings \in [Candidates -> Seq(Costs)]
    /\ nextShadow \in Candidates /\ sampled \in Nat /\ shadowTime \in Nat
    /\ lastSwitch \in Nat
    /\ place \in [Callers -> Places] /\ dst \in [Callers -> Seq(Candidates)]

\* The highest cost is one of the costs.
LEMMA HighestIs == Highest \in Costs /\ Highest \in Nat /\ \A d \in Costs : d <= Highest
  BY AdaptiveAssumption DEF Highest

\* Costs are numbers.
LEMMA CostsAreNumbers == Costs \subseteq Nat
  BY AdaptiveAssumption

\* There are two to four candidates, and the first of them is 0.
LEMMA CountsAre == N \in {2, 3, 4} /\ N \in Nat /\ Candidates = 0..(N - 1) /\ 0 \in Candidates
  BY AdaptiveAssumption DEF Candidates

\* Round robin: the next candidate, not the selected one.
LEMMA NextCandidate ==
    ASSUME NEW k \in Candidates
    PROVE  (k + 1) % N = IF k = N - 1 THEN 0 ELSE k + 1
  <1>1. CASE N = 2
    BY <1>1, CountsAre
  <1>2. CASE N = 3
    BY <1>2, CountsAre
  <1>3. CASE N = 4
    BY <1>3, CountsAre
  <1> QED BY <1>1, <1>2, <1>3, CountsAre

\* The shadow of a sampled call is a candidate other than the selected one, and
\* while the first is selected it goes through the others in turn.
LEMMA ShadowPicked ==
    ASSUME AdaptiveTypes
    PROVE  /\ PickShadow \in Candidates /\ PickShadow # ctl.selected
           /\ ctl.selected = 0 => PickShadow = IF nextShadow = N - 1 THEN 1 ELSE nextShadow + 1
  <1>1. nextShadow \in Candidates /\ ctl.selected \in Candidates
    BY DEF AdaptiveTypes
  <1> DEFINE next == (nextShadow + 1) % N
  <1>2. next = IF nextShadow = N - 1 THEN 0 ELSE nextShadow + 1
    BY <1>1, NextCandidate
  <1>3. next \in Candidates
    BY <1>1, <1>2, CountsAre
  <1>4. (next + 1) % N = IF next = N - 1 THEN 0 ELSE next + 1
    BY <1>3, NextCandidate
  <1>5. PickShadow = IF next = ctl.selected THEN (next + 1) % N ELSE next
    BY DEF PickShadow
  <1> HIDE DEF next
  <1> QED BY <1>1, <1>2, <1>3, <1>4, <1>5, CountsAre

\* Who runs as a shadow: all others with FullShadow, else one or none.
LEMMA ShadowsAre ==
    ASSUME AdaptiveTypes
    PROVE  /\ full => Shadows = Candidates \ {ctl.selected}
           /\ ~full /\ Shadowing => Shadows = {PickShadow}
           /\ ~full /\ ~Shadowing => Shadows = {}
           /\ Shadows \subseteq Candidates /\ ctl.selected \in Candidates
  <1>1. PickShadow \in Candidates /\ PickShadow # ctl.selected /\ ctl.selected \in Candidates
    BY ShadowPicked DEF AdaptiveTypes
  <1> QED BY <1>1 DEF Shadows

\* What the shadows of a sampled call cost: nothing without one, and no more
\* than the highest cost when there is one.
LEMMA ShadowsCost ==
    ASSUME AdaptiveTypes, NEW cost \in [{ctl.selected} \cup Shadows -> Costs]
    PROVE  LET spent == Total([n \in 1..N |-> IF n - 1 \in Shadows THEN cost[n - 1] ELSE 0])
           IN  /\ spent \in Nat
               /\ ~full => spent <= Highest
               /\ ~full /\ ~Shadowing => spent = 0
  <1> DEFINE q == [n \in 1..N |-> IF n - 1 \in Shadows THEN cost[n - 1] ELSE 0]
  <1>1. \A n \in 1..N : q[n] = (IF n - 1 \in Shadows THEN cost[n - 1] ELSE 0)
    OBVIOUS
  <1>2. \A n \in 1..N : q[n] \in Nat /\ q[n] <= Highest
    <2> TAKE n \in 1..N
    <2>1. CASE n - 1 \in Shadows
      <3>1. cost[n - 1] \in Costs
        BY <2>1
      <3>2. q[n] = cost[n - 1]
        BY <1>1, <2>1
      <3> HIDE DEF q
      <3> QED BY <3>1, <3>2, HighestIs, CostsAreNumbers
    <2>2. CASE n - 1 \notin Shadows
      BY <1>1, <2>2, HighestIs
    <2> QED BY <2>1, <2>2
  <1>3. q \in Seq(Nat) /\ Len(q) = N
    BY <1>2, CountsAre
  <1> HIDE DEF q
  <1>4. Total(q) \in Nat
    BY <1>2, <1>3, HighestIs, TotalIsBounded
  <1>5. ASSUME ~full, Shadowing PROVE Total(q) <= Highest
    <2>1. Shadows = {PickShadow} /\ PickShadow \in Candidates
      BY <1>5, ShadowsAre, ShadowPicked
    <2>2. PICK j \in Int : j = PickShadow + 1
      BY <2>1, CountsAre
    <2>3. \A n \in 1..Len(q) : IF n = j THEN q[n] <= Highest ELSE q[n] = 0
      BY <1>1, <1>2, <1>3, <2>1, <2>2, CountsAre
    <2> QED BY <1>3, <2>3, HighestIs, TotalOfOne
  <1>6. ASSUME ~full, ~Shadowing PROVE Total(q) = 0
    <2>1. Shadows = {}
      BY <1>6, ShadowsAre
    <2>2. \A n \in 1..Len(q) : q[n] <= 0
      BY <1>1, <1>3, <2>1
    <2>3. Total(q) \in Nat /\ Total(q) <= 0 * Len(q)
      BY <1>3, <2>2, TotalIsBounded
    <2> QED BY <1>3, <2>3, CountsAre
  <1> QED BY <1>4, <1>5, <1>6, HighestIs DEF q

\* The mean of a window is no more than the highest cost.
LEMMA RingMeans ==
    ASSUME NEW ring \in Seq(Costs)
    PROVE  MeanOf(ring) \in Nat /\ MeanOf(ring) <= Highest
  <1>1. ring \in Seq(Nat) /\ \A i \in 1..Len(ring) : ring[i] <= Highest
    <2>1. \A i \in 1..Len(ring) : ring[i] \in Costs
      OBVIOUS
    <2>2. PICK n \in Nat : n = Len(ring) /\ ring \in [1..n -> Costs]
      OBVIOUS
    <2>3. ring \in [1..n -> Nat]
      BY <2>2, CostsAreNumbers
    <2>4. ring \in Seq(Nat)
      BY <2>3
    <2> QED BY <2>1, <2>4, HighestIs
  <1> QED BY <1>1, HighestIs, MeanIsBounded

\* Some candidate has the least mean, and Best is one of the candidates.
LEMMA BestIs ==
    ASSUME AdaptiveTypes, NEW r \in [Candidates -> Seq(Costs)]
    PROVE  Best(r) \in Candidates
  <1> DEFINE cheapest == {c \in Candidates : \A d \in Candidates : MeanOf(r[c]) <= MeanOf(r[d])}
             means == {MeanOf(r[c]) : c \in Candidates}
  <1>1. \A c \in Candidates : MeanOf(r[c]) \in Nat
    BY RingMeans
  <1>2. PICK m \in means : \A k \in means : m <= k
    <2>1. means \subseteq Nat /\ means # {}
      BY <1>1, CountsAre
    <2> HIDE DEF means
    <2> QED BY <2>1, LeastNumber
  <1>3. PICK c \in Candidates : m = MeanOf(r[c])
    BY <1>2
  <1>4. c \in cheapest
    BY <1>2, <1>3
  <1>5. cheapest \subseteq Nat /\ cheapest \subseteq Candidates
    BY CountsAre
  <1>6. Best(r) = IF ctl.selected \in cheapest THEN ctl.selected
                  ELSE CHOOSE a \in cheapest : \A d \in cheapest : a <= d
    BY DEF Best
  <1> HIDE DEF cheapest
  <1>7. \E a \in cheapest : \A d \in cheapest : a <= d
    BY <1>4, <1>5, LeastNumber
  <1> QED BY <1>5, <1>6, <1>7

\* The policy switches to a cheaper candidate after the cooldown, or counts one
\* sampled call more since its last switch.
Switches(d, n, r) ==
    /\ Warm(n)
    /\ ctl.switches = 0 \/ ctl.sinceSwitch + 1 > Cooldown
    /\ MeanOf(r[d.selected]) < MeanOf(r[ctl.selected])
    /\ d.switches = ctl.switches + 1 /\ d.sinceSwitch = 0

Stays(d) ==
    /\ d.selected = ctl.selected /\ d.switches = ctl.switches
    /\ d.sinceSwitch = ctl.sinceSwitch + 1

\* Less than another by any hysteresis is less.
LEMMA Cheaper ==
    ASSUME NEW a \in Nat, NEW b \in Nat, NEW h \in 0..9, 10 * a < b * (10 - h)
    PROVE  a < b
  <1>1. b * (10 - h) = 10 * b - b * h /\ b * h >= 0
    OBVIOUS
  <1> QED BY <1>1

\* Decide switches for its reasons, or stays.
LEMMA Decides ==
    ASSUME AdaptiveTypes, NEW n, NEW r \in [Candidates -> Seq(Costs)], NEW d, d = Decide(n, r)
    PROVE  /\ d \in [selected : Candidates, switches : Nat, sinceSwitch : Nat]
           /\ Switches(d, n, r) \/ Stays(d)
  <1>1. PICK best \in Candidates : best = Best(r)
    BY BestIs
  <1>2. ctl \in [selected : Candidates, switches : Nat, sinceSwitch : Nat]
    BY DEF AdaptiveTypes
  <1>3. CASE /\ Warm(n)
             /\ ctl.switches = 0 \/ ctl.sinceSwitch + 1 > Cooldown
             /\ 10 * MeanOf(r[best]) < MeanOf(r[ctl.selected]) * (10 - Hysteresis)
    <2>1. d = [selected |-> best, switches |-> ctl.switches + 1, sinceSwitch |-> 0]
      BY <1>1, <1>3 DEF Decide
    <2>2. d \in [selected : Candidates, switches : Nat, sinceSwitch : Nat]
      BY <1>2, <2>1
    <2>3. MeanOf(r[best]) \in Nat /\ MeanOf(r[ctl.selected]) \in Nat /\ Hysteresis \in 0..9
      BY <1>2, RingMeans, AdaptiveAssumption
    <2>4. MeanOf(r[best]) < MeanOf(r[ctl.selected])
      BY <1>3, <2>3, Cheaper
    <2> QED BY <1>3, <2>1, <2>2, <2>4 DEF Switches
  <1>4. CASE ~ (/\ Warm(n)
                /\ ctl.switches = 0 \/ ctl.sinceSwitch + 1 > Cooldown
                /\ 10 * MeanOf(r[best]) < MeanOf(r[ctl.selected]) * (10 - Hysteresis))
    <2>1. d = [ctl EXCEPT !.sinceSwitch = @ + 1]
      BY <1>1, <1>4 DEF Decide
    <2> QED BY <1>2, <2>1 DEF Stays
  <1> QED BY <1>3, <1>4

\* A window of costs stays one.
LEMMA Observed ==
    ASSUME NEW ring \in Seq(Costs), NEW cost \in Costs
    PROVE  Observe(ring, cost) \in Seq(Costs)
  <1>1. CASE Len(ring) < Window
    BY <1>1 DEF Observe
  <1>2. CASE ~ (Len(ring) < Window)
    <2>1. Len(ring) # 0
      BY <1>2, AdaptiveAssumption
    <2> QED BY <1>2, <2>1 DEF Observe
  <1> QED BY <1>1, <1>2

\* What a sampled call leaves.
LEMMA SampleLeaves ==
    ASSUME AdaptiveTypes, NEW p \in Callers, Sample(p)
    PROVE  /\ counts' \in [Candidates -> Nat]
           /\ \A c \in Candidates :
                 counts'[c] = IF c = ctl.selected \/ c \in Shadows THEN counts[c] + 1 ELSE counts[c]
           /\ rings' \in [Candidates -> Seq(Costs)]
           /\ shadowTime' \in Nat
           /\ ~full => shadowTime' <= shadowTime + Highest
           /\ ~full /\ ~Shadowing => shadowTime' = shadowTime
  <1>1. PICK cost \in [{ctl.selected} \cup Shadows -> Costs] :
          /\ counts' = [c \in Candidates |-> IF c \in DOMAIN cost THEN counts[c] + 1 ELSE counts[c]]
          /\ rings' = [c \in Candidates |->
                         IF c \in DOMAIN cost THEN Observe(rings[c], cost[c]) ELSE rings[c]]
          /\ shadowTime' = shadowTime + Total([n \in 1..N |-> IF n - 1 \in Shadows THEN cost[n - 1] ELSE 0])
    BY DEF Sample
  <1>2. DOMAIN cost = {ctl.selected} \cup Shadows
    OBVIOUS
  <1>3. counts \in [Candidates -> Nat] /\ rings \in [Candidates -> Seq(Costs)] /\ shadowTime \in Nat
    BY DEF AdaptiveTypes
  <1>4. \A c \in Candidates : counts'[c] = IF c \in DOMAIN cost THEN counts[c] + 1 ELSE counts[c]
    BY <1>1
  <1>5. counts' \in [Candidates -> Nat]
    BY <1>1, <1>3
  <1>6. rings' \in [Candidates -> Seq(Costs)]
    <2>1. ASSUME NEW c \in Candidates
          PROVE  (IF c \in DOMAIN cost THEN Observe(rings[c], cost[c]) ELSE rings[c]) \in Seq(Costs)
      <3>1. rings[c] \in Seq(Costs)
        BY <1>3
      <3>2. c \in DOMAIN cost => cost[c] \in Costs
        OBVIOUS
      <3> QED BY <3>1, <3>2, Observed
    <2> QED BY <1>1, <2>1
  <1>7. PICK spent : spent = Total([n \in 1..N |-> IF n - 1 \in Shadows THEN cost[n - 1] ELSE 0])
    OBVIOUS
  <1>8. /\ spent \in Nat
        /\ ~full => spent <= Highest
        /\ ~full /\ ~Shadowing => spent = 0
    BY <1>7, ShadowsCost
  <1>9. shadowTime' = shadowTime + spent
    BY <1>1, <1>7
  <1>10. /\ shadowTime' \in Nat
         /\ ~full => shadowTime' <= shadowTime + Highest
         /\ ~full /\ ~Shadowing => shadowTime' = shadowTime
    BY ONLY <1>3, <1>8, <1>9, HighestIs
  <1> QED BY <1>2, <1>4, <1>5, <1>6, <1>10

\* What a sampled call makes of the controller.
LEMMA SampleDecides ==
    ASSUME AdaptiveTypes, NEW p \in Callers, Sample(p)
    PROVE  /\ ctl' \in [selected : Candidates, switches : Nat, sinceSwitch : Nat]
           /\ Switches(ctl', counts', rings') \/ Stays(ctl')
  <1>1. PICK d : d = ctl'
    OBVIOUS
  <1>2. PICK n, r : n = counts' /\ r = rings'
    OBVIOUS
  <1>3. d = Decide(n, r) /\ r \in [Candidates -> Seq(Costs)]
    BY <1>1, <1>2, SampleLeaves DEF Sample
  <1> QED BY <1>1, <1>2, <1>3, Decides

-----------------------------------------------------------------------------
(* The invariants                                                          *)

\* The controller's counter is the distance to the last switch, and there is
\* none before every candidate was tried Warmup times.
CooldownKept ==
    /\ lastSwitch <= sampled
    /\ lastSwitch = 0 <=> ctl.switches = 0
    /\ lastSwitch > 0 => ctl.sinceSwitch = sampled - lastSwitch
    /\ ctl.switches = 0 => ctl.selected = 0
    /\ ~Warm(counts) => ctl.switches = 0

\* While warming up, nextShadow says how far the round of the shadows is.
RoundsKept ==
    /\ full => \A c \in Candidates : counts[c] = sampled
    /\ ~full /\ ~Warm(counts) =>
          \E q \in Nat : /\ sampled = q * (N - 1) + nextShadow /\ counts[0] = sampled
                         /\ \A c \in 1..(N - 1) : counts[c] = IF c <= nextShadow THEN q + 1 ELSE q

\* What warming up may cost, and what the calls pay for.
OverheadKept ==
    ~full => /\ ~Warm(counts) => shadowTime <= Highest * sampled
             /\ \/ 100 * shadowTime <= 100 * Warmup * (N - 1) * Highest + 100 * Highest
                \/ 100 * shadowTime <= OverheadBudget * Highest * calls + 100 * Highest

AnswersKept == \A p \in Callers : Len(dst[p]) = IF place[p] = "return" THEN 1 ELSE 0

AdaptiveInv == AdaptiveTypes /\ CooldownKept /\ RoundsKept /\ OverheadKept /\ AnswersKept

Unsampled(p) == Count(p) \/ CountNothing(p) \/ MatchSelected(p) \/ Return(p)

\* No other step touches the policy's state.
LEMMA PolicyKept ==
    ASSUME UNCHANGED vars \/ \E p \in Callers : Unsampled(p)
    PROVE  /\ UNCHANGED <<full, ctl, counts, rings, nextShadow, sampled, shadowTime, lastSwitch>>
           /\ calls' = calls \/ calls' = calls + 1
  BY DEF Unsampled, Count, CountNothing, MatchSelected, Return, policy, vars

\* The types are inductive.
LEMMA AdaptiveTypesStep ==
    ASSUME AdaptiveTypes, [Next]_vars
    PROVE  AdaptiveTypes'
  <1>1. ASSUME NEW p \in Callers, Count(p) PROVE AdaptiveTypes'
    BY <1>1 DEF Count, policy, AdaptiveTypes, Places
  <1>2. ASSUME NEW p \in Callers, CountNothing(p) PROVE AdaptiveTypes'
    BY <1>2 DEF CountNothing, policy, AdaptiveTypes, Places
  <1>3. ASSUME NEW p \in Callers, MatchSelected(p) PROVE AdaptiveTypes'
    BY <1>3 DEF MatchSelected, policy, AdaptiveTypes, Places
  <1>4. ASSUME NEW p \in Callers, Return(p) PROVE AdaptiveTypes'
    BY <1>4 DEF Return, policy, AdaptiveTypes, Places
  <1>5. ASSUME NEW p \in Callers, Sample(p) PROVE AdaptiveTypes'
    <2> USE <1>5
    <2>1. /\ counts' \in [Candidates -> Nat] /\ rings' \in [Candidates -> Seq(Costs)]
          /\ shadowTime' \in Nat
      BY SampleLeaves
    <2>2. ctl' \in [selected : Candidates, switches : Nat, sinceSwitch : Nat]
      BY SampleDecides
    <2>3. selected' \in Candidates
      BY <2>2 DEF Sample
    <2>4. nextShadow' \in Candidates
      BY ShadowPicked DEF Sample, AdaptiveTypes
    <2>5. sampled' \in Nat /\ lastSwitch' \in Nat
      BY DEF Sample, AdaptiveTypes
    <2>6. dst' \in [Callers -> Seq(Candidates)] /\ place' \in [Callers -> Places]
      BY DEF Sample, Answers, AdaptiveTypes, Places
    <2>7. full' = full /\ calls' = calls
      BY DEF Sample
    <2> QED BY <2>1, <2>2, <2>3, <2>4, <2>5, <2>6, <2>7 DEF AdaptiveTypes
  <1>6. CASE UNCHANGED vars
    BY <1>6 DEF vars, AdaptiveTypes
  <1> QED BY <1>1, <1>2, <1>3, <1>4, <1>5, <1>6 DEF Next

\* Samples only grow, so what is warm stays warm.
LEMMA WarmStays ==
    ASSUME AdaptiveTypes, NEW p \in Callers, Sample(p), Warm(counts)
    PROVE  Warm(counts')
  <1>1. Warmup \in Nat /\ counts \in [Candidates -> Nat]
    BY AdaptiveAssumption DEF AdaptiveTypes
  <1>2. \A c \in Candidates : counts'[c] \in Nat /\ counts'[c] >= counts[c]
    <2> TAKE c \in Candidates
    <2>1. counts[c] \in Nat
      BY <1>1
    <2>2. counts'[c] = counts[c] + 1 \/ counts'[c] = counts[c]
      BY SampleLeaves
    <2> QED BY <2>1, <2>2
  <1>3. \A c \in Candidates : counts[c] >= Warmup
    BY DEF Warm
  <1>4. \A c \in Candidates : counts'[c] >= Warmup
    BY <1>1, <1>2, <1>3
  <1> QED BY <1>4 DEF Warm

\* The controller's counter keeps the distance to the last switch.
LEMMA CooldownStep ==
    ASSUME AdaptiveTypes, CooldownKept, [Next]_vars
    PROVE  CooldownKept'
  <1>1. ASSUME UNCHANGED vars \/ \E p \in Callers : Unsampled(p) PROVE CooldownKept'
    <2>1. UNCHANGED <<full, ctl, counts, rings, nextShadow, sampled, shadowTime, lastSwitch>>
      BY <1>1, PolicyKept
    <2> QED BY <2>1 DEF CooldownKept, Warm
  <1>2. ASSUME NEW p \in Callers, Sample(p) PROVE CooldownKept'
    <2>1. /\ sampled' = sampled + 1
          /\ lastSwitch' = IF ctl'.switches > ctl.switches THEN sampled + 1 ELSE lastSwitch
      BY <1>2 DEF Sample
    <2>2. /\ sampled \in Nat /\ lastSwitch \in Nat /\ ctl.switches \in Nat /\ ctl.sinceSwitch \in Nat
          /\ ctl'.switches \in Nat /\ ctl'.sinceSwitch \in Nat
      BY <1>2, SampleDecides DEF AdaptiveTypes
    <2>3. ~Warm(counts') => ~Warm(counts)
      BY <1>2, WarmStays
    <2>4. CASE Switches(ctl', counts', rings')
      <3>1. Warm(counts') /\ ctl'.switches = ctl.switches + 1 /\ ctl'.sinceSwitch = 0
        BY <2>4 DEF Switches
      <3>2. lastSwitch' = sampled + 1 /\ lastSwitch' = sampled' /\ ctl'.switches # 0
        BY <2>1, <2>2, <3>1
      <3> QED BY <2>1, <2>2, <3>1, <3>2 DEF CooldownKept
    <2>5. CASE Stays(ctl')
      <3>1. /\ ctl'.selected = ctl.selected /\ ctl'.switches = ctl.switches
            /\ ctl'.sinceSwitch = ctl.sinceSwitch + 1
        BY <2>5 DEF Stays
      <3>2. lastSwitch' = lastSwitch
        BY <2>1, <2>2, <3>1
      <3> QED BY <2>1, <2>2, <2>3, <3>1, <3>2 DEF CooldownKept
    <2> QED BY <1>2, <2>4, <2>5, SampleDecides
  <1> QED BY <1>1, <1>2 DEF Next, Unsampled

\* One round more, or one place further in the round.
LEMMA NextPlace ==
    ASSUME NEW q \in Nat, NEW k \in Candidates, NEW s, s = q * (N - 1) + k
    PROVE  /\ k = N - 1 => s + 1 = (q + 1) * (N - 1) + 1
           /\ k # N - 1 => s + 1 = q * (N - 1) + (k + 1)
           /\ s \in Nat
  <1>1. N \in {2, 3, 4} /\ k \in 0..(N - 1)
    BY CountsAre
  <1>2. CASE N = 2
    BY <1>1, <1>2
  <1>3. CASE N = 3
    BY <1>1, <1>3
  <1>4. CASE N = 4
    BY <1>1, <1>4
  <1> QED BY <1>1, <1>2, <1>3, <1>4

\* While warming up, the rounds of the shadows are complete but for the last.
LEMMA RoundsStep ==
    ASSUME AdaptiveTypes, CooldownKept, RoundsKept, [Next]_vars
    PROVE  RoundsKept'
  <1>1. ASSUME UNCHANGED vars \/ \E p \in Callers : Unsampled(p) PROVE RoundsKept'
    <2>1. UNCHANGED <<full, ctl, counts, rings, nextShadow, sampled, shadowTime, lastSwitch>>
      BY <1>1, PolicyKept
    <2> QED BY <2>1 DEF RoundsKept, Warm
  <1>2. ASSUME NEW p \in Callers, Sample(p) PROVE RoundsKept'
    <2>1. sampled' = sampled + 1 /\ full' = full
          /\ nextShadow' = IF Shadowing THEN PickShadow ELSE nextShadow
      BY <1>2 DEF Sample
    <2>2. \A c \in Candidates :
             counts'[c] = IF c = ctl.selected \/ c \in Shadows THEN counts[c] + 1 ELSE counts[c]
      BY <1>2, SampleLeaves
    <2>3. sampled \in Nat /\ nextShadow \in Candidates /\ counts \in [Candidates -> Nat]
      BY DEF AdaptiveTypes
    <2>4. ASSUME full PROVE \A c \in Candidates : counts'[c] = sampled'
      BY <2>1, <2>2, <2>4, ShadowsAre DEF RoundsKept
    <2>5. ASSUME ~full, ~Warm(counts')
          PROVE  \E q \in Nat :
                    /\ sampled' = q * (N - 1) + nextShadow' /\ counts'[0] = sampled'
                    /\ \A c \in 1..(N - 1) : counts'[c] = IF c <= nextShadow' THEN q + 1 ELSE q
      <3>1. ~Warm(counts) /\ ctl.selected = 0 /\ Shadowing
        BY <1>2, <2>5, WarmStays DEF CooldownKept, Shadowing
      <3>2. PICK q \in Nat :
              /\ sampled = q * (N - 1) + nextShadow /\ counts[0] = sampled
              /\ \A c \in 1..(N - 1) : counts[c] = IF c <= nextShadow THEN q + 1 ELSE q
        BY <2>5, <3>1 DEF RoundsKept
      <3>3. /\ nextShadow' = IF nextShadow = N - 1 THEN 1 ELSE nextShadow + 1
            /\ Shadows = {nextShadow'}
        BY <2>1, <2>5, <3>1, ShadowPicked, ShadowsAre
      <3>4. counts'[0] = counts[0] + 1
        BY <2>2, <3>1, CountsAre
      <3>5. \A c \in 1..(N - 1) :
               counts'[c] = IF c = nextShadow' THEN counts[c] + 1 ELSE counts[c]
        BY <2>2, <3>1, <3>3, CountsAre
      <3>6. CASE nextShadow = N - 1
        <4>1. sampled' = (q + 1) * (N - 1) + nextShadow' /\ nextShadow' = 1
          <5>1. sampled + 1 = (q + 1) * (N - 1) + 1
            BY <2>3, <3>2, <3>6, NextPlace
          <5>2. nextShadow' = 1
            BY <3>3, <3>6
          <5> QED BY <2>1, <5>1, <5>2
        <4>2. \A c \in 1..(N - 1) : counts[c] = q + 1
          BY <3>2, <3>6, CountsAre
        <4>3. \A c \in 1..(N - 1) : counts'[c] = IF c <= nextShadow' THEN (q + 1) + 1 ELSE q + 1
          BY <3>5, <4>1, <4>2, CountsAre
        <4> QED BY <2>1, <3>2, <3>4, <4>1, <4>3
      <3>7. CASE nextShadow # N - 1
        <4>1. sampled' = q * (N - 1) + nextShadow' /\ nextShadow' = nextShadow + 1
          BY <2>1, <2>3, <3>2, <3>3, <3>7, NextPlace
        <4>2. ASSUME NEW c \in 1..(N - 1)
              PROVE  counts'[c] = IF c <= nextShadow' THEN q + 1 ELSE q
          <5>1. counts[c] = IF c <= nextShadow THEN q + 1 ELSE q
            BY <3>2
          <5>2. counts'[c] = IF c = nextShadow + 1 THEN counts[c] + 1 ELSE counts[c]
            BY <3>5, <4>1
          <5> QED BY <2>3, <4>1, <5>1, <5>2, CountsAre
        <4> QED BY <2>1, <3>2, <3>4, <4>1, <4>2
      <3> QED BY <3>6, <3>7
    <2> QED BY <2>1, <2>4, <2>5 DEF RoundsKept
  <1> QED BY <1>1, <1>2 DEF Next, Unsampled

\* A candidate short of its samples means few sampled calls.
LEMMA FewSampled ==
    ASSUME NEW q \in Nat, NEW k \in Candidates, NEW c \in 1..(N - 1), NEW s,
           s = q * (N - 1) + k, (IF c <= k THEN q + 1 ELSE q) < Warmup
    PROVE  s + 1 <= Warmup * (N - 1)
  <1>1. N \in {2, 3, 4} /\ k \in 0..(N - 1) /\ Warmup \in Nat
    BY CountsAre, AdaptiveAssumption
  <1>2. CASE N = 2
    BY <1>1, <1>2
  <1>3. CASE N = 3
    BY <1>1, <1>3
  <1>4. CASE N = 4
    BY <1>1, <1>4
  <1> QED BY <1>1, <1>2, <1>3, <1>4

\* While a candidate lacks samples, fewer calls were sampled than all of them need.
LEMMA ColdMeansFew ==
    ASSUME AdaptiveTypes, RoundsKept, ~Warm(counts)
    PROVE  sampled + 1 <= Warmup * (N - 1)
  <1>1. PICK c \in Candidates : ~ (counts[c] >= Warmup)
    BY DEF Warm
  <1>2. Warmup \in Nat /\ sampled \in Nat /\ counts[c] \in Nat /\ nextShadow \in Candidates
    BY AdaptiveAssumption DEF AdaptiveTypes
  <1>3. counts[c] < Warmup
    BY <1>1, <1>2
  <1>4. CASE counts[c] = sampled
    <2>1. \A n \in {2, 3, 4} : sampled + 1 <= Warmup * (n - 1)
      BY <1>2, <1>3, <1>4
    <2> QED BY <2>1, CountsAre
  <1>5. CASE counts[c] # sampled
    <2>1. PICK q \in Nat : /\ sampled = q * (N - 1) + nextShadow /\ counts[0] = sampled
                           /\ \A d \in 1..(N - 1) : counts[d] = IF d <= nextShadow THEN q + 1 ELSE q
      BY <1>5 DEF RoundsKept
    <2>2. c \in 1..(N - 1)
      BY <1>5, <2>1, CountsAre
    <2>3. (IF c <= nextShadow THEN q + 1 ELSE q) < Warmup
      BY <1>3, <2>1, <2>2
    <2> QED BY <1>2, <2>1, <2>2, <2>3, FewSampled
  <1> QED BY <1>4, <1>5

\* Multiplication is monotone.
LEMMA Scaled ==
    ASSUME NEW a \in Nat, NEW b \in Nat, NEW h \in Nat, a <= b
    PROVE  h * a <= h * b /\ h * a \in Nat /\ h * b \in Nat
  <1>1. h * (b - a) >= 0 /\ h * (b - a) = h * b - h * a
    OBVIOUS
  <1>2. h * a \in Nat /\ h * b \in Nat
    OBVIOUS
  <1> QED BY <1>1, <1>2

\* Warming up costs at most Warmup rounds.
LEMMA WarmingCosts ==
    ASSUME NEW s \in Nat, NEW h \in Nat, NEW k \in Nat, NEW w \in Nat, NEW n \in Nat,
           s <= h * k, k <= w * n
    PROVE  100 * s <= 100 * w * n * h
  <1>1. h * k <= h * (w * n) /\ h * k \in Nat /\ h * (w * n) \in Nat
    BY Scaled
  <1>2. 100 * w * n * h = 100 * (h * (w * n))
    OBVIOUS
  <1>3. PICK x \in Nat : x = h * (w * n)
    BY <1>1
  <1>4. s <= x
    BY <1>1, <1>3
  <1> QED BY <1>2, <1>3, <1>4

\* The budget is counted at the mean of the selected candidate.
LEMMA BudgetAtHighest ==
    ASSUME NEW m \in Nat, NEW h \in Nat, NEW b \in Nat, NEW n \in Nat, m <= h
    PROVE  b * m * n <= b * h * n /\ b * m * n \in Nat /\ b * h * n \in Nat
  <1>1. (b * n) * m <= (b * n) * h /\ (b * n) * m \in Nat /\ (b * n) * h \in Nat
    BY Scaled
  <1>2. b * m * n = (b * n) * m /\ b * h * n = (b * n) * h
    OBVIOUS
  <1> QED BY <1>1, <1>2

\* Either warming up or the calls so far pay for all shadows but the last.
LEMMA OverheadStep ==
    ASSUME AdaptiveTypes, RoundsKept, OverheadKept, [Next]_vars
    PROVE  OverheadKept'
  <1> DEFINE H == Highest
  <1>1. /\ H \in Nat /\ OverheadBudget \in Nat /\ Warmup \in Nat /\ N - 1 \in Nat
        /\ Cooldown \in Nat
    BY HighestIs, AdaptiveAssumption
  <1>2. /\ calls \in Nat /\ sampled \in Nat /\ shadowTime \in Nat
    BY DEF AdaptiveTypes
  <1>3. H' = H
    BY DEF Highest
  <1> HIDE DEF H
  <1> SUFFICES ASSUME full' = full, ~full PROVE OverheadKept'
    <2>1. full' = full
      <3>1. \A p \in Callers : Sample(p) => full' = full
        BY DEF Sample
      <3>2. UNCHANGED vars \/ (\E p \in Callers : Unsampled(p)) => full' = full
        BY PolicyKept
      <3> QED BY <3>1, <3>2 DEF Next, Unsampled
    <2> QED BY <2>1 DEF OverheadKept
  <1>4. ASSUME UNCHANGED vars \/ \E p \in Callers : Unsampled(p) PROVE OverheadKept'
    <2>1. /\ UNCHANGED <<full, ctl, counts, rings, nextShadow, sampled, shadowTime, lastSwitch>>
          /\ calls' = calls \/ calls' = calls + 1
      BY <1>4, PolicyKept
    <2>2. OverheadBudget * H * calls <= OverheadBudget * H * calls'
      <3>1. calls' \in Nat /\ calls <= calls' /\ OverheadBudget * H \in Nat
        BY <1>1, <1>2, <2>1
      <3> QED BY <1>2, <3>1, Scaled
    <2>3. OverheadBudget * H * calls \in Nat /\ OverheadBudget * H * calls' \in Nat
      BY <1>1, <1>2, <2>1
    <2>4. 100 * shadowTime <= OverheadBudget * H * calls + 100 * H
          => 100 * shadowTime <= OverheadBudget * H * calls' + 100 * H
      <3>1. PICK x \in Nat, y \in Nat : x = OverheadBudget * H * calls /\ y = OverheadBudget * H * calls'
        BY <2>3
      <3>2. x <= y
        BY <2>2, <3>1
      <3> QED BY ONLY <1>1, <1>2, <3>1, <3>2
    <2> QED BY <1>3, <2>1, <2>4 DEF OverheadKept, Warm, H
  <1>5. ASSUME NEW p \in Callers, Sample(p) PROVE OverheadKept'
    <2>1. sampled' = sampled + 1 /\ calls' = calls
      BY <1>5 DEF Sample
    <2>2. /\ shadowTime' \in Nat
          /\ shadowTime' <= shadowTime + H
          /\ ~Shadowing => shadowTime' = shadowTime
      BY <1>5, SampleLeaves DEF H
    <2>3. CASE ~Warm(counts)
      <3>1. shadowTime <= H * sampled /\ sampled + 1 <= Warmup * (N - 1)
        BY <2>3, ColdMeansFew DEF OverheadKept, H
      <3>2. shadowTime + H <= H * (sampled + 1) /\ H * (sampled + 1) \in Nat
        BY <1>1, <1>2, <3>1, NextMultiple
      <3>3. shadowTime' <= H * (sampled + 1)
        <4>1. PICK x \in Nat : x = H * (sampled + 1)
          BY <3>2
        <4> QED BY <1>1, <1>2, <2>2, <3>2, <4>1
      <3>4. 100 * shadowTime' <= 100 * Warmup * (N - 1) * H
        BY <1>1, <1>2, <2>2, <3>1, <3>3, WarmingCosts
      <3>5. 100 * Warmup * (N - 1) * H \in Nat
        BY <1>1
      <3>6. 100 * shadowTime' <= 100 * Warmup * (N - 1) * H + 100 * H
        <4>1. PICK x \in Nat : x = 100 * Warmup * (N - 1) * H
          BY <3>5
        <4> QED BY <1>1, <2>2, <3>4, <4>1
      <3> QED BY <1>3, <2>1, <3>3, <3>6 DEF OverheadKept, H
    <2>4. CASE Warm(counts) /\ Shadowing
      <3>1. 100 * shadowTime <= OverheadBudget * MeanOf(rings[ctl.selected]) * calls
        BY <2>4 DEF Shadowing, WithinBudget
      <3>2. MeanOf(rings[ctl.selected]) \in Nat /\ MeanOf(rings[ctl.selected]) <= H
        BY RingMeans DEF AdaptiveTypes, H
      <3>3. /\ OverheadBudget * MeanOf(rings[ctl.selected]) * calls <= OverheadBudget * H * calls
            /\ OverheadBudget * MeanOf(rings[ctl.selected]) * calls \in Nat
            /\ OverheadBudget * H * calls \in Nat
        BY <1>1, <1>2, <3>2, BudgetAtHighest
      <3>4. 100 * shadowTime' <= OverheadBudget * H * calls + 100 * H
        <4>1. PICK x \in Nat, y \in Nat : /\ x = OverheadBudget * MeanOf(rings[ctl.selected]) * calls
                                          /\ y = OverheadBudget * H * calls
          BY <3>3
        <4>2. 100 * shadowTime <= x /\ x <= y
          BY <3>1, <3>3, <4>1
        <4>3. \A s, t, a, b, h \in Nat :
                 100 * s <= a /\ a <= b /\ t <= s + h => 100 * t <= b + 100 * h
          OBVIOUS
        <4>4. 100 * shadowTime' <= y + 100 * H
          <5>1. /\ shadowTime \in Nat /\ shadowTime' \in Nat /\ H \in Nat
                /\ shadowTime' <= shadowTime + H
            BY <1>1, <1>2, <2>2
          <5> QED BY ONLY <4>1, <4>2, <4>3, <5>1
        <4> QED BY <4>1, <4>4
      <3> QED BY <1>3, <1>5, <2>1, <2>4, <3>4, WarmStays DEF OverheadKept, H
    <2>5. CASE Warm(counts) /\ ~Shadowing
      <3>1. Warm(counts') /\ shadowTime' = shadowTime
        BY <1>5, <2>2, <2>5, WarmStays
      <3> QED BY <1>3, <2>1, <3>1 DEF OverheadKept, H
    <2> QED BY <2>3, <2>4, <2>5
  <1> QED BY <1>4, <1>5 DEF Next, Unsampled

\* A caller's buffer holds one answer when its Match returns, and none before.
LEMMA AnswersStep ==
    ASSUME AdaptiveTypes, AnswersKept, [Next]_vars
    PROVE  AnswersKept'
  <1> USE DEF AdaptiveTypes, AnswersKept
  <1>1. ASSUME NEW p \in Callers, Count(p) PROVE AnswersKept'
    BY <1>1 DEF Count
  <1>2. ASSUME NEW p \in Callers, CountNothing(p) PROVE AnswersKept'
    BY <1>2 DEF CountNothing
  <1>3. ASSUME NEW p \in Callers, MatchSelected(p) PROVE AnswersKept'
    <2>1. /\ place[p] = "read" /\ dst' = [dst EXCEPT ![p] = Append(@, selected)]
          /\ place' = [place EXCEPT ![p] = "return"]
      BY <1>3 DEF MatchSelected
    <2>2. Len(dst[p]) = 0 /\ dst[p] \in Seq(Candidates) /\ selected \in Candidates
      BY <2>1
    <2>3. dst'[p] = Append(dst[p], selected) /\ place'[p] = "return"
      BY <2>1
    <2>4. Len(dst'[p]) = 1
      BY <2>2, <2>3
    <2> QED BY <2>1, <2>3, <2>4
  <1>4. ASSUME NEW p \in Callers, Return(p) PROVE AnswersKept'
    BY <1>4 DEF Return
  <1>5. ASSUME NEW p \in Callers, Sample(p) PROVE AnswersKept'
    <2>1. /\ place[p] = "lock" /\ dst' = [dst EXCEPT ![p] = @ \o <<ctl.selected>>]
          /\ place' = [place EXCEPT ![p] = "return"]
      BY <1>5 DEF Sample, Answers
    <2>2. Len(dst[p]) = 0 /\ dst[p] \in Seq(Candidates)
      BY <2>1
    <2>3. dst'[p] = dst[p] \o <<ctl.selected>> /\ place'[p] = "return"
      BY <2>1
    <2>4. Len(dst'[p]) = 1
      BY <2>2, <2>3
    <2> QED BY <2>1, <2>3, <2>4
  <1>6. CASE UNCHANGED vars
    BY <1>6 DEF vars
  <1> QED BY <1>1, <1>2, <1>3, <1>4, <1>5, <1>6 DEF Next

-----------------------------------------------------------------------------

\* The invariants hold at first.
LEMMA AdaptiveStart == Init => AdaptiveInv
  <1> SUFFICES ASSUME Init PROVE AdaptiveInv
    OBVIOUS
  <1> USE CountsAre, AdaptiveAssumption DEF Init
  <1>1. AdaptiveTypes
    BY DEF AdaptiveTypes, Places
  <1>2. CooldownKept
    BY DEF CooldownKept
  <1>3. RoundsKept
    <2>1. \A c \in Candidates : counts[c] = 0
      OBVIOUS
    <2>2. sampled = 0 * (N - 1) + nextShadow
      OBVIOUS
    <2>3. \A c \in 1..(N - 1) : counts[c] = IF c <= nextShadow THEN 0 + 1 ELSE 0
      BY <2>1
    <2> QED BY <2>1, <2>2, <2>3 DEF RoundsKept
  <1>4. OverheadKept
    <2>1. Highest \in Nat
      BY HighestIs
    <2> QED BY <2>1 DEF OverheadKept
  <1>5. AnswersKept
    BY DEF AnswersKept
  <1> QED BY <1>1, <1>2, <1>3, <1>4, <1>5 DEF AdaptiveInv

\* And every step keeps them.
LEMMA AdaptiveStep == AdaptiveInv /\ [Next]_vars => AdaptiveInv'
  BY AdaptiveTypesStep, CooldownStep, RoundsStep, OverheadStep, AnswersStep DEF AdaptiveInv

\* However long a matcher adapts, each call is answered once, every candidate
\* has its Warmup samples in time, and the shadows cost no more than their budget.
THEOREM ShadowsHarmlessHolds == Spec => []ShadowsHarmless
  <1>1. ASSUME AdaptiveInv PROVE ShadowsHarmless
    <2> USE <1>1 DEF AdaptiveInv
    <2>1. OneAnswer
      BY DEF OneAnswer, AnswersKept
    <2>2. WarmInTime
      <3>1. \A m \in Nat, n \in Int : m + 1 <= n => ~ (m >= n)
        OBVIOUS
      <3>2. sampled \in Nat /\ Warmup * (N - 1) \in Int
        BY AdaptiveAssumption, CountsAre DEF AdaptiveTypes
      <3> QED BY <3>1, <3>2, ColdMeansFew DEF WarmInTime
    <2>3. OverheadBounded
      <3> SUFFICES ASSUME ~full
                   PROVE  100 * shadowTime <=
                            (IF OverheadBudget * Highest * calls < 100 * Warmup * (N - 1) * Highest
                             THEN 100 * Warmup * (N - 1) * Highest
                             ELSE OverheadBudget * Highest * calls) + 100 * Highest
        BY DEF OverheadBounded, Highest
      <3>1. /\ Highest \in Nat /\ OverheadBudget \in Nat /\ Warmup \in Nat /\ N - 1 \in Nat
            /\ calls \in Nat /\ shadowTime \in Nat
        BY HighestIs, AdaptiveAssumption, CountsAre DEF AdaptiveTypes
      <3>2. /\ OverheadBudget * Highest * calls \in Nat
            /\ 100 * Warmup * (N - 1) * Highest \in Nat
        BY <3>1
      <3>3. PICK x \in Nat, y \in Nat : /\ x = OverheadBudget * Highest * calls
                                        /\ y = 100 * Warmup * (N - 1) * Highest
        BY <3>2
      <3>4. 100 * shadowTime <= y + 100 * Highest \/ 100 * shadowTime <= x + 100 * Highest
        BY <3>3 DEF OverheadKept
      <3>5. 100 * shadowTime <= (IF x < y THEN y ELSE x) + 100 * Highest
        BY <3>1, <3>4
      <3> QED BY <3>3, <3>5
    <2> QED BY <2>1, <2>2, <2>3 DEF ShadowsHarmless
  <1> QED BY AdaptiveStart, AdaptiveStep, <1>1, PTL DEF Spec

\* The selection changes only after the cooldown, when every candidate was
\* tried, and only to one whose last runs took less.
THEOREM SwitchJustifiedHolds == Spec => SwitchJustified
  <1> DEFINE Justified == ctl'.selected # ctl.selected =>
                             /\ lastSwitch = 0 \/ sampled' - lastSwitch > Cooldown
                             /\ \A c \in Candidates : counts'[c] >= Warmup
                             /\ MeanOf(rings'[ctl'.selected]) < MeanOf(rings'[ctl.selected])
  <1>1. AdaptiveInv /\ [Next]_vars => [Justified]_vars
    <2> SUFFICES ASSUME AdaptiveInv, [Next]_vars, ctl'.selected # ctl.selected PROVE Justified
      OBVIOUS
    <2>1. PICK p \in Callers : Sample(p)
      BY PolicyKept DEF Next, Unsampled
    <2>2. Switches(ctl', counts', rings')
      BY <2>1, SampleDecides DEF AdaptiveInv, Stays
    <2>3. /\ Warm(counts')
          /\ ctl.switches = 0 \/ ctl.sinceSwitch + 1 > Cooldown
          /\ MeanOf(rings'[ctl'.selected]) < MeanOf(rings'[ctl.selected])
      BY <2>2 DEF Switches
    <2>4. lastSwitch = 0 \/ sampled' - lastSwitch > Cooldown
      <3>1. CASE ctl.switches = 0
        BY <3>1 DEF AdaptiveInv, CooldownKept
      <3>2. CASE ctl.switches # 0
        <4>1. ctl.sinceSwitch + 1 > Cooldown /\ sampled' = sampled + 1
          BY <2>1, <2>3, <3>2 DEF Sample
        <4>2. lastSwitch \in Nat /\ sampled \in Nat /\ lastSwitch # 0
          BY <3>2 DEF AdaptiveInv, AdaptiveTypes, CooldownKept
        <4>3. ctl.sinceSwitch = sampled - lastSwitch
          BY <4>2 DEF AdaptiveInv, CooldownKept
        <4> QED BY <4>1, <4>2, <4>3
      <3> QED BY <3>1, <3>2
    <2> QED BY <2>3, <2>4 DEF Warm
  <1> QED BY AdaptiveStart, AdaptiveStep, <1>1, PTL DEF Spec, SwitchJustified
=============================================================================
