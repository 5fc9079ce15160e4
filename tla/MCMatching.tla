----------------------------- MODULE MCMatching -----------------------------
(***************************************************************************)
(* Tags of twelve bits instead of 96, in base 3 instead of 10, so that     *)
(* every tag there is can be read; and the patterns that match them, with  *)
(* the index over bytes of two bits. The layouts keep what tells the four  *)
(* generated schemes apart: a partition that moves the field boundary,     *)
(* unfixed serials, a pure maximum above the tag's, a field of length      *)
(* zero, reserved bits at the end, partitions no layout has.               *)
(*                                                                         *)
(* And the matcher that adapts: two callers, three candidates, the highest *)
(* sampling rate allowed; a run takes little or much at any call.          *)
(***************************************************************************)
EXTENDS PatternIndex, Adaptive, Translation, TagTables

-----------------------------------------------------------------------------
(* Layouts *)

MCComponentOrder(keyType) ==
    IF keyType = "sgtin" THEN <<"gs1companyprefix", "itemref", "serial">>
    ELSE <<"gs1companyprefix", "assettype">>

Binary(name, at, len, max) == [name |-> name, at |-> at, len |-> len, max |-> max]

Padded(name, length, max) ==
    [name |-> name, length |-> length, fixed |-> TRUE, padRight |-> FALSE, numeric |-> TRUE, max |-> max]

Plain(name, max) == [Padded(name, 0, max) EXCEPT !.fixed = FALSE]

Literal(at, len, value) == [at |-> at, len |-> len, value |-> value]

Filter == Padded("filter", 1, 1)

Prefix(n) == Padded("gs1companyprefix", n, 3 ^ n - 1)

\* Header 2, filter 1, partition 1, prefix and item 6, serial 2.
SgtinOption(n, partition, prefixBits) ==
    [gcpLength |-> n, partition |-> partition,
     binary |-> <<Binary("filter", 2, 1, 1),
                  Binary("gs1companyprefix", 4, prefixBits, 3 ^ n - 1),
                  Binary("itemref", 4 + prefixBits, 6 - prefixBits, 3 ^ (3 - n) - 1),
                  Binary("serial", 10, 2, 3)>>,
     literals |-> {Literal(0, 2, 2), Literal(3, 1, partition)},
     tag |-> <<Filter, Prefix(n), Padded("itemref", 3 - n, 3 ^ (3 - n) - 1), Plain("serial", 3)>>,
     pure |-> <<Prefix(n), Padded("itemref", 3 - n, 3 ^ (3 - n) - 1), Plain("serial", 8)>>]

\* Header 2, filter 1, partition 2, prefix and asset 5, reserved 2.
AssetOption(n, partition, prefixBits, length) ==
    [gcpLength |-> n, partition |-> partition,
     binary |-> <<Binary("filter", 2, 1, 1),
                  Binary("gs1companyprefix", 5, prefixBits, 3 ^ n - 1),
                  Binary("assettype", 5 + prefixBits, 5 - prefixBits, 3 ^ length - 1)>>,
     literals |-> {Literal(0, 2, 3), Literal(3, 2, partition), Literal(10, 2, 0)},
     tag |-> <<Filter, Prefix(n), Padded("assettype", length, 3 ^ length - 1)>>,
     pure |-> <<Prefix(n), Padded("assettype", length, 3 ^ length - 1)>>]

MCDefinitions ==
    {[id |-> "sgtin-12", key |-> "sgtin", keyType |-> "sgtin", header |-> 2, headerBits |-> 2,
      tagLength |-> 12, options |-> <<SgtinOption(1, 1, 2), SgtinOption(2, 0, 4)>>],
     [id |-> "asset-12", key |-> "asset", keyType |-> "asset", header |-> 3, headerBits |-> 2,
      tagLength |-> 12, options |-> <<AssetOption(1, 1, 3, 1), AssetOption(2, 0, 4, 0)>>]}

-----------------------------------------------------------------------------
(* ISO: codes of three bits, so characters 4 to 11 *)

MCConstructs ==
    {[afi |-> 1, scheme |-> "unit", encoding |-> "6-bit", supported |-> TRUE, current |-> TRUE,
      dis |-> {<<8>>, <<8, 9>>, <<4, 8>>}],
     [afi |-> 2, scheme |-> "unit", encoding |-> "6-bit", supported |-> TRUE, current |-> FALSE,
      dis |-> {<<8>>, <<8, 9>>, <<4, 8>>}],
     [afi |-> 3, scheme |-> "iso17363", encoding |-> "none", supported |-> TRUE, current |-> TRUE, dis |-> {}],
     [afi |-> 4, scheme |-> "", encoding |-> "utf-8", supported |-> FALSE, current |-> TRUE, dis |-> {}]}

MCAuthorities == [d \in {<<8>>, <<8, 9>>, <<4, 8>>} |-> "iso15459"]

-----------------------------------------------------------------------------
(* What is read and asked for *)

Bits(n) == [1..n -> {0, 1}]

PC(words, toggle, afi) == [words |-> words, xi |-> FALSE, toggle |-> toggle, afi |-> afi]

Read(epc, pc) == [epc |-> epc, hasPC |-> TRUE, pc |-> pc]

Bare(epc) == [epc |-> epc, hasPC |-> FALSE, pc |-> PC(0, FALSE, 0)]

Long == {a \o b : a \in {<<0, 0, 0, 1, 0, 0>>, <<0, 0, 0, 0, 0, 1>>}, b \in Bits(6)}

MCObservations ==
    {Read(b, PC(3, t, 1)) : b \in Bits(12), t \in BOOLEAN} \cup
    {Read(b, PC(2, FALSE, 0)) : b \in Bits(8)} \cup
    {Read(<<1>> \o b \o <<0, 0, 0, 0, 1, 0, 0, 1>>, PC(4, FALSE, 0)) : b \in Bits(7)} \cup
    {Read(l \o l, PC(6, TRUE, 1)) : l \in Long} \cup
    {Read(l \o <<1, 0, 0, 1>>, PC(4, t, 1)) : l \in Long, t \in BOOLEAN} \cup
    {Read(l, PC(w, TRUE, afi)) : l \in Long, w \in 0..4, afi \in 0..4} \cup
    {Read(l, [PC(3, t, 1) EXCEPT !.xi = TRUE]) : l \in Long, t \in BOOLEAN} \cup
    {Bare(<<1>> \o b) : b \in Bits(5) \cup Bits(11)} \cup
    {Bare(<<>>), Bare(<<1>>), Read(<<>>, PC(3, FALSE, 0)), Read(<<1>>, PC(1, FALSE, 0))}

MCUnits == {TransportUnit("iso15459", di, body) :
               di \in {<<8>>, <<8, 9>>, <<4, 8>>, <<9>>},
               body \in {<<>>} \cup UNION {[1..n -> {4, 8, 9}] : n \in 2..3} \cup [1..6 -> {8, 10}]}

Text(w, v) == [w |-> w, v |-> v]

Texts == {Text(1, 0), Text(2, 0), Text(1, 1), Text(1, -1)}

Star == [kind |-> "any", text |-> Empty, lo |-> 0, hi |-> 0]
Is(t) == [kind |-> "exact", text |-> t, lo |-> 0, hi |-> 0]
Between(a, b) == [kind |-> "range", text |-> Empty, lo |-> a, hi |-> b]

Parts == {Star, Is(Empty), Between(0, 1), Between(1, 0), Between(0, 9)} \cup
         {Is(t) : t \in Texts \cup {Text(2, 4), Text(2, 8)}}

URI(family, name, parts) == [family |-> family, name |-> name, parts |-> parts]

MCPatternURIs ==
    {URI("pat", "sgtin-12", <<f, p, q, s>>) : f \in {Star, Is(Text(1, 1)), Between(0, 1)},
        p \in Parts, q \in Parts, s \in {Star, Is(Text(1, 2)), Is(Text(2, 3)), Between(1, 3)}} \cup
    {URI("pat", "asset-12", <<f, p, q>>) : f \in {Star, Is(Text(1, 0))}, p \in Parts, q \in Parts} \cup
    {URI("idpat", "sgtin", <<p, q, s>>) : p \in Parts, q \in Parts, s \in {Star, Is(Text(2, 8))}} \cup
    {URI("idpat", "asset", <<p, q>>) : p \in Parts, q \in Parts} \cup
    {URI("pat", "none", <<Star>>), URI("pat", "asset-12", <<Star, Star>>), URI("idpat", "asset", <<Star>>)}

-----------------------------------------------------------------------------
(* Subscription lists and their subjects: patterns written here, then those *)
(* compiled from URIs against tags as they translate                       *)

NoBits == [hasBits |-> FALSE, mask |-> <<>>, value |-> <<>>, bitLen |-> 0]

OfIdentity(f) == [level |-> "identity", domain |-> <<"gs1", "d">>, scheme |-> "", fields |-> f] @@ NoBits
OfEncoding(f) == [level |-> "encoding", domain |-> <<"gs1", "d">>, scheme |-> "s", fields |-> f] @@ NoBits
OfBits(m, v, n) == [level |-> "encoding", domain |-> <<"gs1", "d">>, scheme |-> "s", fields |-> <<Star>>,
                    hasBits |-> TRUE, mask |-> m, value |-> v, bitLen |-> n]

Fields == {<<a, b>> : a, b \in {Star, Between(0, 0), Between(0, 1)} \cup {Is(t) : t \in Texts}}

FieldPatterns == {OfIdentity(f) : f \in Fields} \cup {OfEncoding(f) : f \in Fields}

BitPatterns == {OfBits(m, v, n) : m \in Bits(4), v \in Bits(4), n \in {3, 4}}

Alone(patterns) == {<<[id |-> "A", patterns |-> <<p>>]>> : p \in patterns}

Zero == Text(1, 0)

Pool == {OfIdentity(<<Is(Zero), Star>>), OfEncoding(<<Is(Zero), Is(Text(1, 1))>>),
         OfEncoding(<<Star, Star>>), OfEncoding(<<Between(0, 0), Star>>),
         OfBits(<<1, 1, 0, 0>>, <<0, 1, 0, 0>>, 4), OfBits(<<1, 1, 1, 0>>, <<0, 1, 1, 0>>, 4)}

Unset == [OfIdentity(<<>>) EXCEPT !.level = "unset", !.domain = <<"", "">>]

Groups == {<<p>> : p \in Pool} \cup {<<p, q>> : p, q \in Pool}

MCLists ==
    {<<>>} \cup Alone({q \in FieldPatterns \cup BitPatterns : ValidPattern(q)}) \cup Alone(TagPatterns) \cup
    Alone({Unset}) \cup {<<[id |-> "A", patterns |-> <<p, Unset>>]>> : p \in Pool} \cup
    {<<[id |-> "A", patterns |-> p], [id |-> "B", patterns |-> q]>> : p, q \in Groups} \cup
    {<<[id |-> "A", patterns |-> p], [id |-> b, patterns |-> p]>> : p \in Groups, b \in {"A", ""}}

Subject(d, c, sc, f, b, n) ==
    [domain |-> <<"gs1", d>>, components |-> c, scheme |-> sc, fields |-> f, bits |-> b, bitLen |-> n]

Read12 == UNION {Decode(<<1>> \o a \o <<0, 1, 0, 0>>, 12) : a \in Bits(7)} \cup
          UNION {Decode(<<1>> \o a \o <<0, 1, 1, 1>>, 12) : a \in Bits(7)}

MCSubjects ==
    {Subject("d", c, sc, c, <<0, 1, 1, 0>>, 4) : c \in {<<a, b>> : a, b \in Texts}, sc \in {"s", "t"}} \cup
    {Subject("e", <<Zero, Zero>>, "s", <<Zero, Text(1, 1), Zero>>, b, Len(b) - short) :
        b \in Bits(2) \cup Bits(4) \cup Bits(6), short \in {0, 1}} \cup
    {Subject("d", <<Zero, Text(1, 1)>>, "s", <<Zero, Text(1, 1)>>, <<>>, 0)} \cup
    Read12

-----------------------------------------------------------------------------

\* One behaviour follows a tag, matches a subscription list, or adapts, never
\* two of them. In the third it is the adaptive matcher that was compiled.
Untranslated == first = {} /\ current = {} /\ outcome = "none"

Unmatched(m) == subscriptions = <<>> /\ matcher = m /\ subject = {} /\ answer = <<>>

MCInit ==
    \/ IndexInit /\ Untranslated /\ Init /\ ~full
    \/ TagInit /\ Unmatched("none") /\ Init /\ ~full
    \/ Init /\ Untranslated /\ Unmatched("adaptive")

MCNext ==
    \/ outcome = "none" /\ IndexNext /\ UNCHANGED <<tagVars, vars>>
    \/ outcome # "none" /\ TagNext /\ UNCHANGED <<indexVars, vars>>
    \/ matcher = "adaptive" /\ Next /\ UNCHANGED <<indexVars, tagVars>>

MCSpec == MCInit /\ [][MCNext]_<<indexVars, tagVars, vars>>

MCSymmetry == Permutations(Callers)
=============================================================================
