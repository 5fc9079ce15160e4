----------------------------- MODULE TagTables -----------------------------
(***************************************************************************)
(* The generated tables the translator runs on: the layouts of the four    *)
(* supported schemes (internal/tdt/tdtdef/schemes_gen.go) and the register *)
(* of application family identifiers (internal/tdt/iso/registry_gen.go),   *)
(* with the values the program has. Translation is checked on small        *)
(* layouts; the assumptions here say of the real ones what that relies on. *)
(*                                                                         *)
(* A maximum is written as the number of bits it needs: those of the       *)
(* layouts exceed what TLC counts to.                                      *)
(***************************************************************************)
EXTENDS Integers, FiniteSets, Sequences

-----------------------------------------------------------------------------
(* Layouts *)

\* The bits of 10^n - 1, for as many digits as a layout has.
DecimalBits(n) == IF n = 0 THEN 0 ELSE (n * 3322) \div 1000 + 1

Site(name, at, len, max) == [name |-> name, at |-> at, len |-> len, max |-> max]

Fixed(name, length) ==
    [name |-> name, length |-> length, fixed |-> TRUE, padRight |-> FALSE, numeric |-> TRUE,
     max |-> DecimalBits(length)]

Unfixed(name, max) ==
    [name |-> name, length |-> 0, fixed |-> FALSE, padRight |-> FALSE, numeric |-> TRUE, max |-> max]

FilterField == [Fixed("filter", 1) EXCEPT !.max = 3]

\* The option of company prefixes of n digits: header, filter, partition and
\* prefix are the same in the four schemes.
Option(n, header, sites, literals, tagFields, pureFields) ==
    [gcpLength |-> n, partition |-> 12 - n,
     binary |-> <<Site("filter", 8, 3, 3),
                  Site("gs1companyprefix", 14, DecimalBits(n), DecimalBits(n))>> \o sites,
     literals |-> {[at |-> 0, len |-> 8, value |-> header],
                   [at |-> 11, len |-> 3, value |-> 12 - n]} \cup literals,
     tag |-> <<FilterField, Fixed("gs1companyprefix", n)>> \o tagFields,
     pure |-> <<Fixed("gs1companyprefix", n)>> \o pureFields]

Scheme(id, key, header, options) ==
    [id |-> id, key |-> key, keyType |-> key, header |-> header, headerBits |-> 8,
     tagLength |-> 96, options |-> options]

Rest(n) == 14 + DecimalBits(n)    \* where the company prefix ends

SerialSite == Site("serial", 58, 38, 38)

SGTIN96 == Scheme("sgtin-96", "sgtin", 48, [i \in 1..7 |->
    LET n == i + 5 fields == <<Fixed("itemref", 13 - n), Unfixed("serial", 38)>>
    IN Option(n, 48, <<Site("itemref", Rest(n), 58 - Rest(n), DecimalBits(13 - n)), SerialSite>>,
              {}, fields, fields)])

SSCC96 == Scheme("sscc-96", "sscc", 49, [i \in 1..7 |->
    LET n == i + 5 fields == <<Fixed("serialref", 17 - n)>>
    IN Option(n, 49, <<Site("serialref", Rest(n), 72 - Rest(n), DecimalBits(17 - n))>>,
              {[at |-> 72, len |-> 24, value |-> 0]}, fields, fields)])

GIAI96 == Scheme("giai-96", "giai", 52, [i \in 1..7 |->
    LET n == i + 5 len == 96 - Rest(n)
    IN Option(n, 52, <<Site("indassetref", Rest(n), len, len)>>, {},
              <<Unfixed("indassetref", len)>>, <<Unfixed("indassetref", DecimalBits(25 - n))>>)])

GRAI96 == Scheme("grai-96", "grai", 51, [i \in 1..7 |->
    LET n == i + 5 fields == <<Fixed("assettype", 12 - n), Unfixed("serial", 38)>>
    IN Option(n, 51, <<Site("assettype", Rest(n), 58 - Rest(n), DecimalBits(12 - n)), SerialSite>>,
              {}, fields, fields)])

Generated == {SGTIN96, SSCC96, GIAI96, GRAI96}

BaselineOrder(keyType) ==
    CASE keyType = "sgtin" -> <<"gs1companyprefix", "itemref", "serial">>
      [] keyType = "sscc" -> <<"gs1companyprefix", "serialref">>
      [] keyType = "grai" -> <<"gs1companyprefix", "assettype", "serial">>
      [] keyType = "giai" -> <<"gs1companyprefix", "indassetref">>

Unparsed(text) == -1

Epc == INSTANCE GS1Tags WITH
    Base <- 10, HeaderBits <- 8, ComponentOrder <- BaselineOrder, Definitions <- Generated, Number <- Unparsed

\* newScheme accepts every layout, so the program starts.
ASSUME GeneratedAccepted == \A d \in Generated : Epc!SchemeAccepted(d)

AllOptions == UNION {{d.options[i] : i \in 1..7} : d \in Generated}

\* What the text of a field may say fits its bits, and a component can say more
\* only in the pure form of GIAI; a padded one can say any digits, and another one any digit.
ASSUME MaximaFit ==
    \A o \in AllOptions :
        /\ \A i \in DOMAIN o.binary :
              o.binary[i].max <= o.binary[i].len /\ o.tag[i].max = o.binary[i].max
        /\ \A i \in DOMAIN o.pure :
              IF o.pure[i].fixed
              THEN o.pure[i].max = DecimalBits(o.pure[i].length) /\ o.tag[i + 1].max = o.pure[i].max
              ELSE 4 <= o.tag[i + 1].max /\ o.tag[i + 1].max <= o.pure[i].max

\* And what else a proof about layouts assumes of them.
ASSUME GeneratedAssumption ==
    /\ \A d \in Generated : Epc!WellFormed(d) /\ Epc!SitesApart(d) /\ Epc!SitesCover(d) /\ Epc!Rendered(d)
    /\ Epc!SelectorsDistinct

-----------------------------------------------------------------------------
(* The register *)

\* Data identifiers, in ASCII.
DI == [J |-> <<74>>, I |-> <<73>>, B1 |-> <<49, 66>>, R5 |-> <<53, 82>>,
       S25 |-> <<50, 53, 83>>, T25 |-> <<50, 53, 84>>, B25 |-> <<50, 53, 66>>, B7 |-> <<55, 66>>]

LicencePlates == {DI.J} \cup {<<48 + n, 74>> : n \in 1..6}

ItemIdentifiers == {DI.S25, DI.T25, DI.I}

\* Construct.Scheme
SchemeOf(afi) ==
    IF afi \in {162, 167} THEN "iso17360" ELSE IF afi \in {169, 170} THEN "iso17363" ELSE ""

Rows(afis, encoding, dis) ==
    {[afi |-> a, scheme |-> SchemeOf(a), encoding |-> encoding, supported |-> SchemeOf(a) # "",
      current |-> a \in {162, 169}, dis |-> dis] : a \in afis}

\* A compaction the register does not give is "none".
ClosedSystemAFIs ==
    Rows({0, 4, 5, 6, 7, 145}, "none", {}) \cup Rows({1}, "binary", {}) \cup
    Rows({3}, "utf-8", {}) \cup Rows({2, 144}, "6-bit", {}) \cup
    Rows({146}, "application-defined 8-bit", {}) \cup Rows({160}, "URN Code 40", {})

SupplyChainAFIs ==
    Rows({161, 164, 165, 166}, "6-bit", ItemIdentifiers) \cup
    Rows({162, 167}, "6-bit", LicencePlates) \cup
    Rows({163, 168}, "6-bit", {DI.B1, DI.B25}) \cup
    Rows({169, 170, 171}, "none", {}) \cup
    Rows({172}, "utf-8", {}) \cup Rows({173}, "binary", {})

LaterAFIs ==
    Rows({174}, "binary", {}) \cup Rows({175, 187, 193, 207}, "none", {}) \cup
    Rows({176}, "application-defined 8-bit", {}) \cup Rows({188}, "utf-8", {}) \cup
    Rows({189, 194}, "URN Code 40", {}) \cup Rows({192}, "6-bit", {DI.R5})

Register == ClosedSystemAFIs \cup SupplyChainAFIs \cup LaterAFIs

RegisteredAuthorities ==
    [d \in LicencePlates \cup {DI.S25, DI.T25, DI.B25, DI.R5, DI.B7} |->
        IF d = DI.B7 THEN "iso6346" ELSE "iso15459"]

Iso == INSTANCE ISOTags WITH
    Base <- 10, HeaderBits <- 8, ComponentOrder <- BaselineOrder, Definitions <- Generated, Number <- Unparsed,
    CodeBits <- 6, WordBits <- 16, LayoutControls <- {30, 33}, OtherControls <- {31, 35, 36},
    IdentityCharacters <- 48..57 \cup 65..90, IdentityLimit <- 50,
    Constructs <- Register, Authorities <- RegisteredAuthorities

Supported == {c \in Register : c.supported /\ c.encoding = "6-bit"}

\* A body that fills whole words, with a digit that begins other identifiers.
Body(di, last) == [i \in 1..8 - Len(di) |-> IF i = 1 THEN 74 ELSE IF i = 2 THEN 49 ELSE last]

Reread(t) == Iso!DecodeISO(t.bits, t.bitLen, t.afi)

\* No ISO scheme has the name of a GS1 scheme.
ASSUME RegisterApart == Iso!RegisterCoherent /\ \A c \in Register, d \in Generated : c.scheme # d.id

\* Tags fill whole words of 16 bits, and the PC word counts to 31 of them.
ASSUME GeneratedWords == 6 * 50 < 16 * 32 /\ \A d \in Generated : d.tagLength = 6 * 16

\* What is read under any supported identifier, historical ones included, can be
\* written under the current one and reads back the same, in six-bit text.
ASSUME RegisterRoundTrips ==
    \A c \in Supported : \A di \in c.dis : \A last \in {48, 57, 65, 90} :
        LET v == Iso!TransportUnit(RegisteredAuthorities[di], di, Body(di, last))
            written == Iso!EncodeISO(v, c.scheme)
        IN /\ Cardinality(written) = 1
           /\ \A t \in written : {[domain |-> r.domain, components |-> r.components] : r \in Reread(t)} = {v}
=============================================================================
