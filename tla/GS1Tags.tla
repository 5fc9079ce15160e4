------------------------------ MODULE GS1Tags ------------------------------
(***************************************************************************)
(* GS1 EPC tag encodings: internal/tdt/gs1epc over the generated layouts   *)
(* of internal/tdt/tdtdef.                                                 *)
(*                                                                         *)
(* The text of a field is its width and the value of its digits, in Base;  *)
(* a text with other characters has the value -1. A URI is a record of its *)
(* family, its name and its parts. A function that may refuse returns the  *)
(* set of its results: empty when it refuses, else one.                    *)
(***************************************************************************)
EXTENDS Patterns, FiniteSetsExt

CONSTANTS Base,         \* 10
          HeaderBits,   \* 8
          ComponentOrder(_),  \* of identity: the component names of a key type
          Definitions   \* the generated layouts of the supported schemes

Min2(a, b) == IF a < b THEN a ELSE b

-----------------------------------------------------------------------------
(* Bits, most significant first *)

BitsAt(bits, at, n) ==
    LET v[i \in 0..n] == IF i = 0 THEN 0 ELSE 2 * v[i - 1] + bits[at + i] IN v[n]

\* setBits for a set of fields: it only ever sets, what was one stays one.
SetBits(bits, writes) ==
    [b \in DOMAIN bits |->
        IF \E x \in writes : /\ b \in x.at + 1..x.at + x.len
                            /\ (x.value \div 2 ^ (x.at + x.len - b)) % 2 = 1
        THEN 1 ELSE bits[b]]

Zeros(n) == [b \in 1..n |-> 0]

-----------------------------------------------------------------------------
(* The text of a field *)

Empty == [w |-> 0, v |-> 0]

Power(n) == LET p[i \in 0..n] == IF i = 0 THEN 1 ELSE Base * p[i - 1] IN p[n]

Digits(v) == CHOOSE n \in 1..v + 1 : v < Power(n) /\ (n = 1 \/ Power(n - 1) <= v)

\* ParseUint: an empty text is not a number.
TextNumber(t) == IF t.w = 0 THEN -1 ELSE t.v

ZeroLength(f) == f.fixed /\ f.length = 0

Render(f, v) ==
    LET d == Digits(v) IN
    IF ZeroLength(f) THEN Empty
    ELSE IF f.length = 0 \/ d >= f.length THEN [w |-> d, v |-> v]
    ELSE [w |-> f.length, v |-> IF f.padRight THEN v * Power(f.length - d) ELSE v]

\* parseField: a padded field has its length, an unpadded one no leading zero.
Parses(f, t) ==
    IF ZeroLength(f) THEN t = Empty
    ELSE /\ t.w > 0 /\ t.v >= 0
         /\ f.fixed => t.w = f.length
         /\ ~f.fixed => t.w = 1 \/ t.v >= Power(t.w - 1)
         /\ t.v <= f.max

-----------------------------------------------------------------------------
(* Schemes *)

GcpIndex(o) == Max({0} \cup {i \in DOMAIN o.binary : o.binary[i].name = "gs1companyprefix"})

\* partitionSite: the literals that end where the company prefix begins.
PartitionSites(o) ==
    IF GcpIndex(o) = 0 THEN {}
    ELSE {<<l.at, l.len>> : l \in {k \in o.literals : k.at + k.len = o.binary[GcpIndex(o)].at}}

SameRendering(f, g) ==
    f.name = g.name /\ f.length = g.length /\ f.fixed = g.fixed /\ f.padRight = g.padRight

\* componentOrderOf
Ordered(o, keyType) ==
    /\ Len(o.pure) = Len(ComponentOrder(keyType))
    /\ \A i \in DOMAIN o.pure : o.pure[i].name = ComponentOrder(keyType)[i]

Options(d) == {d.options[i] : i \in DOMAIN d.options}

\* newScheme: what a generated layout must satisfy, or the program does not start.
SchemeAccepted(d) ==
    /\ d.headerBits = HeaderBits
    /\ \A o, q \in Options(d) : PartitionSites(o) # {} /\ PartitionSites(o) = PartitionSites(q)
    /\ Ordered(d.options[1], d.keyType)
    /\ \A o \in Options(d) :
          /\ \A i \in DOMAIN o.tag : o.tag[i].numeric
          /\ \A i \in DOMAIN o.pure : o.pure[i].numeric /\ SameRendering(o.tag[i + 1], o.pure[i])
          /\ Len(o.tag) = Len(o.pure) + 1 /\ o.tag[1].name = "filter"

\* The program does not start on a layout it cannot use.
ASSUME LayoutsAccepted == \A d \in Definitions : SchemeAccepted(d)

\* Every option of every scheme, with the scheme it belongs to. Lookup, LookupKey,
\* schemeForKeyType, Option and OptionByPartition select among them.
LayoutOf(d, o) ==
    [s |-> d, gcpLength |-> o.gcpLength, partition |-> o.partition, literals |-> o.literals,
     binary |-> o.binary, tag |-> o.tag, pure |-> o.pure]

Layouts == UNION {{LayoutOf(d, o) : o \in Options(d)} : d \in Definitions}

\* What the program relies on in a layout and does not check. No option renders
\* a field with its padding on the right, or Render would lose digits.
FieldSites == [name : STRING, at : Nat, len : Nat \ {0}, max : Nat]
FieldTexts == [name : STRING, length : Nat, fixed : BOOLEAN, padRight : {FALSE}, numeric : BOOLEAN, max : Nat]
WellFormed(d) ==
    /\ d.header \in Nat /\ d.tagLength \in Nat /\ d.options \in Seq(Options(d))
    /\ Options(d) \subseteq
          [gcpLength : Nat, partition : Nat, binary : Seq(FieldSites), tag : Seq(FieldTexts), pure : Seq(FieldTexts),
           literals : SUBSET [at : Nat, len : Nat, value : Nat]]

Apart(a, b) == a.at + a.len <= b.at \/ b.at + b.len <= a.at

\* Fields, in their order, and literals lie within the tag and share no bit; one
\* literal is the header, and the literal at the partition's site the partition.
SitesApart(d) ==
    \A o \in Options(d) :
        /\ Len(o.binary) = Len(o.tag) /\ Len(o.tag) = Len(d.options[1].tag)
        /\ \A i, j \in DOMAIN o.binary : i < j => o.binary[i].at + o.binary[i].len <= o.binary[j].at
        /\ \A i \in DOMAIN o.binary : o.binary[i].at + o.binary[i].len <= d.tagLength
        /\ \A l \in o.literals :
              /\ l.at + l.len <= d.tagLength /\ l.value < 2 ^ l.len
              /\ \A m \in o.literals : l = m \/ Apart(l, m)
              /\ \A i \in DOMAIN o.binary : Apart(l, o.binary[i])
              /\ <<l.at, l.len>> \in PartitionSites(o) => l.value = o.partition
        /\ [at |-> 0, len |-> HeaderBits, value |-> d.header] \in o.literals

\* Every bit is a field's or a literal's, so what is written again is all there was.
SitesCover(d) ==
    \A o \in Options(d), b \in 1..d.tagLength :
        \E l \in o.literals \cup Range(o.binary) : b \in l.at + 1..l.at + l.len

\* The company prefix is a field of its own length, and only a field of a fixed
\* length is padded.
Rendered(d) ==
    \A o \in Options(d) :
        /\ Len(o.tag) > 1 /\ o.tag[2].fixed /\ o.tag[2].length = o.gcpLength /\ o.gcpLength > 0
        /\ \A i \in DOMAIN o.tag : ~o.tag[i].fixed => o.tag[i].length = 0

\* The maximum of a field is that of its text, and each has room for it.
MaximaHold(d) ==
    \A o \in Options(d) : \A i \in DOMAIN o.tag :
        /\ o.binary[i].max = o.tag[i].max /\ o.binary[i].max < 2 ^ o.binary[i].len
        /\ o.tag[i].fixed => o.tag[i].max < Power(o.tag[i].length)

\* An identity can say what a tag can, and a padded component any digits.
TextsHold(d) ==
    \A o \in Options(d) : \A i \in DOMAIN o.pure :
        /\ o.tag[i + 1].max <= o.pure[i].max
        /\ IF o.pure[i].fixed THEN o.pure[i].max = Power(o.pure[i].length) - 1 ELSE Base - 1 <= o.tag[i + 1].max
        /\ o.pure[i].fixed => o.tag[i + 1].max = o.pure[i].max

\* Header, scheme, key, company prefix and partition each select one thing, and
\* all filters are alike.
SelectorsDistinct ==
    /\ \A d, e \in Definitions :
          /\ d.header = e.header \/ d.id = e.id \/ d.key = e.key \/ d.keyType = e.keyType => d = e
          /\ \A o \in Options(d), q \in Options(e) : o.tag[1].max = q.tag[1].max
    /\ \A d \in Definitions : \A o, q \in Options(d) :
          o.partition = q.partition \/ o.gcpLength = q.gcpLength => o = q

ASSUME LayoutAssumption ==
    /\ HeaderBits \in Nat /\ Base \in Nat \ {0, 1}
    /\ \A d \in Definitions : WellFormed(d) /\ SitesApart(d) /\ SitesCover(d)
    /\ \A d \in Definitions : Rendered(d) /\ MaximaHold(d) /\ TextsHold(d)
    /\ SelectorsDistinct

ByHeader(bits) == {d \in Definitions : d.header = BitsAt(bits, 0, HeaderBits)}

PartitionAt(d, bits) ==
    LET site == CHOOSE x \in UNION {PartitionSites(o) : o \in Options(d)} : TRUE
    IN BitsAt(bits, site[1], site[2])

ByPartition(d, bits) == {x \in Layouts : x.s = d /\ x.partition = PartitionAt(d, bits)}

\* FieldSpecs: what an encoding can carry, for a caller that makes identities.
FieldSpecs(x) ==
    [i \in DOMAIN x.pure |->
        [fixed |-> x.pure[i].fixed, length |-> x.pure[i].length,
         max |-> Min2(x.pure[i].max, x.binary[i + 1].max)]]

-----------------------------------------------------------------------------
(* Decode and Encode *)

Identity(authority, keyType, components) ==
    [domain |-> <<authority, keyType>>, components |-> components]

\* A translation at layout x: identity and encoding, never merged.
Translated(x, values, bits) ==
    LET fields == [i \in DOMAIN values |-> Render(x.tag[i], values[i])]
    IN [domain |-> <<"gs1", x.s.keyType>>, components |-> Tail(fields),
        scheme |-> x.s.id, bitLen |-> x.s.tagLength, bits |-> bits, fields |-> fields,
        filter |-> values[1], toggle |-> FALSE, afi |-> 0]

LiteralsHold(x, bits) == \A l \in x.literals : BitsAt(bits, l.at, l.len) = l.value

Values(x, bits) == [i \in DOMAIN x.binary |-> BitsAt(bits, x.binary[i].at, x.binary[i].len)]

WithinMaxima(x, values) == \A i \in DOMAIN values : values[i] <= x.binary[i].max

\* Why bits of length n do not decode, "" when they do.
DecodeRefusal(bits, n) ==
    LET d == CHOOSE y \in ByHeader(bits) : TRUE
        x == CHOOSE y \in ByPartition(d, bits) : TRUE
    IN IF n < HeaderBits \/ Len(bits) < n THEN "truncated"
       ELSE IF ByHeader(bits) = {} THEN "unknown header"
       ELSE IF n < d.tagLength THEN "truncated"
       ELSE IF ByPartition(d, bits) = {} THEN "unknown partition"
       ELSE IF ~LiteralsHold(x, bits) THEN "reserved bits"
       ELSE IF ~WithinMaxima(x, Values(x, bits)) THEN "field value"
       ELSE ""

\* Mutant: bits after the layout's are kept.
DecodeWhole(bits, n) ==
    IF DecodeRefusal(bits, n) # "" THEN {}
    ELSE {Translated(x, Values(x, bits), SubSeq(bits, 1, n)) :
             x \in UNION {ByPartition(d, bits) : d \in ByHeader(bits)}}

\* Decode: the layout's bits and no more are the encoding.
Decode(bits, n) ==
    IF DecodeRefusal(bits, n) # "" THEN {}
    ELSE {Translated(x, Values(x, bits), SubSeq(bits, 1, x.s.tagLength)) :
             x \in UNION {ByPartition(d, bits) : d \in ByHeader(bits)}}

\* The company prefix selects the layout, and each component is what it renders.
Canonical(x, components) ==
    /\ components[1].w = x.gcpLength
    /\ Len(components) = Len(x.pure)
    /\ \A i \in DOMAIN components :
          /\ Parses(x.pure[i], components[i])
          /\ Render(x.pure[i], components[i].v) = components[i]

\* Encode: values go to their sites, the literals to theirs.
Encode(v, id, filter) ==
    LET values == <<filter>> \o [i \in DOMAIN v.components |-> v.components[i].v]
        Fits(x) == /\ x.s.id = id
                   /\ v.domain = <<"gs1", x.s.keyType>>
                   /\ Canonical(x, v.components)
                   /\ filter <= x.tag[1].max
                   /\ WithinMaxima(x, values)
        Fields(x) == {[at |-> x.binary[i].at, len |-> x.binary[i].len, value |-> values[i]] :
                         i \in DOMAIN values}
    IN {Translated(x, values, SetBits(Zeros(x.s.tagLength), x.literals \cup Fields(x))) :
           x \in {y \in Layouts : Fits(y)}}

-----------------------------------------------------------------------------
(* URIs *)

PureURI(v) ==
    {[family |-> "id", name |-> x.s.key, parts |-> v.components] :
        x \in {y \in Layouts : y.s.keyType = v.domain[2] /\ Canonical(y, v.components)}}

TagURI(t) == {[family |-> "tag", name |-> d.id, parts |-> t.fields] : d \in {y \in Definitions : y.id = t.scheme}}

\* The parts of a URI are as many as the fields of the layout and parse.
PartsParse(uriFields, parts) ==
    Len(parts) = Len(uriFields) /\ \A i \in DOMAIN parts : Parses(uriFields[i], parts[i])

ParsePureURI(u) ==
    {Identity("gs1", x.s.keyType, u.parts) :
        x \in {y \in Layouts : /\ u.family = "id" /\ u.name = y.s.key
                               /\ u.parts[1].w = y.gcpLength
                               /\ PartsParse(y.pure, u.parts)}}

\* ParseTagURI: re-encodes the identity that follows the filter.
ParseTagURI(u) ==
    UNION {Encode(Identity("gs1", x.s.keyType, Tail(u.parts)), x.s.id, u.parts[1].v) :
              x \in {y \in Layouts : /\ u.family = "tag" /\ u.name = y.s.id
                                     /\ Len(u.parts) > 1 /\ u.parts[2].w = y.gcpLength
                                     /\ PartsParse(<<y.tag[1]>> \o y.pure, u.parts)}}

-----------------------------------------------------------------------------
(* Pattern URIs: a part is "any", "exact" with a text, or "range" with bounds; *)
(* bounds that do not parse are -1.                                            *)

\* optionForPattern: the layout an exact company prefix implies.
Implied(d, parts, i) ==
    {x \in Layouts : x.s = d /\ i <= Len(parts) /\ parts[i].kind = "exact" /\ parts[i].text.w = x.gcpLength}

AllAnyFrom(parts, i) == \A j \in i..Len(parts) : parts[j].kind = "any"

\* patternFields, for the fields of the level.
FieldsAccepted(uriFields, parts) ==
    /\ Len(parts) = Len(uriFields)
    /\ \A i \in DOMAIN parts :
          /\ parts[i].kind = "range" =>
                0 <= parts[i].lo /\ parts[i].lo <= parts[i].hi /\ parts[i].hi <= uriFields[i].max
          /\ parts[i].kind = "exact" => Parses(uriFields[i], parts[i].text)

NoBitTest == [hasBits |-> FALSE, mask |-> <<>>, value |-> <<>>, bitLen |-> 0]

BitTest(value, mask, n) == [hasBits |-> TRUE, mask |-> mask, value |-> value, bitLen |-> n]

Exact(parts) == {i \in DOMAIN parts : parts[i].kind = "exact"}

\* Mutant: the literals are not pinned.
PinsFieldsOnly(x, parts) ==
    LET clear == Min({x.s.tagLength} \cup {x.binary[i].at : i \in DOMAIN parts \ Exact(parts)})
    IN {l \in {[at |-> 0, len |-> HeaderBits, value |-> x.s.header]} \cup
              {[at |-> x.binary[i].at, len |-> x.binary[i].len, value |-> parts[i].text.v] : i \in Exact(parts)} :
           l.at < clear}

\* What patternBits pins at layout x: header and exact fields up to the first
\* star, and then the literals again, wherever they are.
Pins(x, parts) ==
    LET clear == Min({x.s.tagLength} \cup {x.binary[i].at : i \in DOMAIN parts \ Exact(parts)})
    IN {l \in {[at |-> 0, len |-> HeaderBits, value |-> x.s.header]} \cup
              {[at |-> x.binary[i].at, len |-> x.binary[i].len, value |-> parts[i].text.v] : i \in Exact(parts)} :
           l.at < clear} \cup x.literals

Mask(pins) == {[at |-> l.at, len |-> l.len, value |-> 2 ^ l.len - 1] : l \in pins}

\* patternBits: a bit test only where it says exactly what the fields say.
PatternBits(d, implied, parts) ==
    LET header == {[at |-> 0, len |-> HeaderBits, value |-> d.header]}
        Test(pins, n) == BitTest(SetBits(Zeros(n), pins), SetBits(Zeros(n), Mask(pins)), n)
    IN IF \E i \in DOMAIN parts : parts[i].kind = "range" THEN NoBitTest
       ELSE IF implied # {} THEN Test(Pins(CHOOSE x \in implied : TRUE, parts), d.tagLength)
       ELSE IF Exact(parts) # {} THEN NoBitTest
       ELSE Test(header, HeaderBits)

Compiled(level, d, scheme, fields, test) ==
    [level |-> level, domain |-> <<"gs1", d.keyType>>, scheme |-> scheme, fields |-> fields,
     hasBits |-> test.hasBits, mask |-> test.mask, value |-> test.value, bitLen |-> test.bitLen]

\* compileIDPattern: exact fields and stars, and nothing of an encoding.
CompileIDPattern(u) ==
    LET Accepts(d) == \E x \in Layouts :
            /\ x.s = d /\ FieldsAccepted(x.pure, u.parts)
            /\ x \in Implied(d, u.parts, 1) \/ AllAnyFrom(u.parts, 1)
            /\ \A i \in DOMAIN u.parts : u.parts[i].kind # "range"
    IN {p \in {Compiled("identity", d, "", u.parts, NoBitTest) :
                  d \in {y \in Definitions : u.family = "idpat" /\ u.name = y.key /\ Accepts(y)}} :
           ValidPattern(p)}

\* compileTagPattern: the encoding's fields, the filter first.
CompileTagPattern(u) ==
    LET Accepts(d) == \E x \in Layouts :
            /\ x.s = d /\ FieldsAccepted(x.tag, u.parts)
            /\ x \in Implied(d, u.parts, 2) \/ AllAnyFrom(u.parts, 2)
    IN {p \in {Compiled("encoding", d, d.id, u.parts, PatternBits(d, Implied(d, u.parts, 2), u.parts)) :
                  d \in {y \in Definitions : u.family = "pat" /\ u.name = y.id /\ Accepts(y)}} :
           ValidPattern(p)}

CompilePattern(u) == CompileIDPattern(u) \cup CompileTagPattern(u)
=============================================================================
