------------------------------ MODULE ISOTags ------------------------------
(***************************************************************************)
(* ISO tag data: internal/tdt/iso over its register of application family  *)
(* identifiers. Three stages, each of which may refuse: recognise the AFI, *)
(* decode the characters, interpret them as an identity.                   *)
(*                                                                         *)
(* A character is its ASCII value at CodeBits = 6, a text a sequence of    *)
(* them. A function that may refuse returns the set of its results.        *)
(***************************************************************************)
EXTENDS GS1Tags, SequencesExt

CONSTANTS CodeBits,             \* 6
          WordBits,             \* 16
          LayoutControls,       \* the codes of GS and EOT
          OtherControls,        \* the codes of RS, FS and US
          IdentityCharacters,   \* digits and capitals
          IdentityLimit,        \* 50
          Constructs,           \* the register: afi, scheme, encoding, supported, dis
          Authorities           \* data identifier to numbering authority

\* A GS1 and an ISO scheme never have one name.
ASSUME SchemesApart == \A c \in Constructs, d \in Definitions : c.scheme # d.id

\* The constructs that are decoded.
Readable == {c \in Constructs : c.supported /\ c.scheme # "" /\ c.encoding = "6-bit"}

\* What is read under a historical identifier is written under a current one with
\* the same data identifiers. Freight containers have no six-bit text.
RegisterCoherent ==
    /\ \A c, e \in Constructs : c.afi = e.afi => c = e
    /\ \A c \in Readable :
          /\ c.scheme # "iso17363" /\ c.dis \subseteq Seq(Nat) \ {<<>>}
          /\ \E e \in Readable : e.scheme = c.scheme /\ e.current /\ e.dis = c.dis

ASSUME RegisterAssumption ==
    RegisterCoherent /\ CodeBits \in Nat \ {0} /\ WordBits \in Nat \ {0} /\ IdentityLimit \in Nat

CurrentAFI(scheme) ==    \* AFIForScheme
    {c.afi : c \in {x \in Constructs : x.scheme = scheme /\ x.scheme # "" /\ x.current}}

Half == 2 ^ (CodeBits - 1)

Controls == LayoutControls \cup OtherControls

ToCode(c) == c % (2 * Half)

FromCode(v) == IF v < Half THEN v + 2 * Half ELSE v

AcceptedCharacter(c) == c \in Half..3 * Half - 1 /\ ToCode(c) \notin Controls

\* The codes that are in S, in their order.
Selected(codes, S) ==
    LET s[i \in 0..Len(codes)] ==
            IF i = 0 THEN <<>> ELSE IF codes[i] \in S THEN Append(s[i - 1], codes[i]) ELSE s[i - 1]
    IN s[Len(codes)]

\* DecodeText: characters and controls apart, nothing trimmed.
DecodeText(bits, n) ==
    LET codes == [i \in 1..n \div CodeBits |-> BitsAt(bits, (i - 1) * CodeBits, CodeBits)]
        data == Selected(codes, (0..2 * Half - 1) \ Controls)
    IN [characters |-> [i \in DOMAIN data |-> FromCode(data[i])],
        controls |-> Selected(codes, Controls),
        residue |-> n % CodeBits]

\* EncodeText refuses what does not fill whole words.
TextEncodes(text) ==
    /\ text # <<>>
    /\ \A i \in DOMAIN text : AcceptedCharacter(text[i])
    /\ (Len(text) * CodeBits) % WordBits = 0

EncodeText(text) ==
    SetBits(Zeros(Len(text) * CodeBits),
        {[at |-> (i - 1) * CodeBits, len |-> CodeBits, value |-> ToCode(text[i])] : i \in DOMAIN text})

\* splitRegisteredDI: the longest data identifier that begins the text.
Beginnings(c, text) == {d \in c.dis : d # <<>> /\ IsPrefix(d, text)}

RegisteredDI(c, text) ==
    CHOOSE d \in Beginnings(c, text) : \A e \in Beginnings(c, text) : Len(e) <= Len(d)

\* checkISO15459Identity.
IdentityRefusal(di, body) ==
    IF body = <<>> THEN "field value"
    ELSE IF Len(di) + Len(body) > IdentityLimit THEN "length mismatch"
    ELSE IF ~(Range(body) \subseteq IdentityCharacters) THEN "field value"
    ELSE ""

\* Interpret: why the text is no identity, "" when it is one.
InterpretRefusal(c, t) ==
    LET di == RegisteredDI(c, t.characters)
        body == SubSeq(t.characters, Len(di) + 1, Len(t.characters))
    IN IF t.controls # <<>>
       THEN IF t.controls[1] \in LayoutControls THEN "unresolved" ELSE "field value"
       ELSE IF t.residue # 0 \/ c.scheme = "iso17363" THEN "unresolved"
       ELSE IF Beginnings(c, t.characters) = {} \/ di \notin DOMAIN Authorities THEN "unsupported"
       ELSE IdentityRefusal(di, body)

\* Decode's recognition and the character decoder of the construct.
ISORefusal(bits, n, afi) ==
    LET found == {x \in Constructs : x.afi = afi}
        c == CHOOSE x \in found : TRUE
    IN IF found = {} THEN "unrecognised"
       ELSE IF ~c.supported \/ c.scheme = "" THEN "unsupported"
       ELSE IF c.encoding = "none" THEN "unresolved"
       ELSE IF c.encoding # "6-bit" THEN "unsupported"
       ELSE IF n < CodeBits \/ Len(bits) < n THEN "truncated"
       ELSE InterpretRefusal(c, DecodeText(bits, n))

ISOTranslated(v, scheme, bits, n, afi) ==
    [domain |-> v.domain, components |-> v.components,
     scheme |-> scheme, bitLen |-> n, bits |-> bits, fields |-> v.components,
     filter |-> 0, toggle |-> TRUE, afi |-> afi]

TransportUnit(authority, di, body) == Identity(authority, "transport-unit", <<di, body>>)

DecodeISO(bits, n, afi) ==
    LET text == DecodeText(bits, n).characters
        Unit(c) == LET di == RegisteredDI(c, text)
                   IN TransportUnit(Authorities[di], di, SubSeq(text, Len(di) + 1, Len(text)))
    IN IF ISORefusal(bits, n, afi) # "" THEN {}
       ELSE {ISOTranslated(Unit(c), c.scheme, SubSeq(bits, 1, n), n, afi) :
                c \in {x \in Constructs : x.afi = afi}}

\* Mutant: the text is not read back, so a data identifier that another one
\* extends is written.
WritesUnread(c, v) ==
    LET di == v.components[1] body == v.components[2] IN
    /\ di \in c.dis /\ di \in DOMAIN Authorities
    /\ v.domain = <<Authorities[di], "transport-unit">>
    /\ IdentityRefusal(di, body) = ""
    /\ TextEncodes(di \o body)

\* What Encode checks: it writes only what its own decoder reads back.
Writes(c, v) ==
    LET di == v.components[1] body == v.components[2] IN
    /\ di \in c.dis /\ di \in DOMAIN Authorities
    /\ v.domain = <<Authorities[di], "transport-unit">>
    /\ IdentityRefusal(di, body) = ""
    /\ RegisteredDI(c, di \o body) = di
    /\ TextEncodes(di \o body)

EncodeISO(v, scheme) ==
    {ISOTranslated(v, scheme, EncodeText(v.components[1] \o v.components[2]),
                   CodeBits * Len(v.components[1] \o v.components[2]), c.afi) :
        c \in {x \in Constructs : /\ x.afi \in CurrentAFI(scheme)
                                  /\ x.supported /\ x.encoding = "6-bit"
                                  /\ Writes(x, v)}}
=============================================================================
