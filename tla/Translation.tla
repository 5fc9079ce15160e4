---------------------------- MODULE Translation ----------------------------
(***************************************************************************)
(* The tag data boundary (internal/tdt/tdt.go) and its two users: the      *)
(* consumer that translates what a reader observed                         *)
(* (internal/app/tagstrak/translate.go) and the tag generator of           *)
(* cmd/tagstrak-rig/uii.go.                                                *)
(*                                                                         *)
(* The translator keeps no state. The specification follows one tag: it is *)
(* read or made, and its translation is then written, printed, parsed and  *)
(* read again, any number of times. A PC word is a record of its fields.   *)
(***************************************************************************)
EXTENDS ISOTags

CONSTANTS MaxWords,         \* 32, what the PC's length field can count
          DefaultFormat,    \* "gs1", "iso" or "unknown": without a PC word
          Observations,     \* what readers report: epc, hasPC, pc
          MadeUnits,        \* ISO identities the generator is asked for
          PatternURIs

\* A tag is bits, a PC word counts words, and the digits of a text make its value.
ASSUME TagInputAssumption ==
    /\ \A o \in Observations : o.epc \in Seq({0, 1}) /\ o.hasPC \in BOOLEAN /\ o.pc.words \in Nat
    /\ \A u \in PatternURIs :
          /\ u.parts \in Seq([kind : {"any", "exact", "range"}, text : [w : Nat, v : Int], lo : Int, hi : Int])
          /\ \A i \in DOMAIN u.parts : u.parts[i].text.v < Power(u.parts[i].text.w)
    /\ \A v \in MadeUnits : v.components \in Seq(Seq(Nat)) /\ Len(v.components) = 2

\* A layout fills whole words, and a PC word can count what is written.
WordsCount(d) == \E k \in 1..MaxWords - 1 : d.tagLength = k * WordBits

ASSUME WordAssumption ==
    /\ MaxWords \in Nat \ {0} /\ CodeBits * IdentityLimit < WordBits * MaxWords
    /\ \A d \in Definitions : WordsCount(d)

VARIABLES first,    \* {} or the translation the tag began with
          current,  \* {} or the translation it has now
          outcome   \* of the last step

tagVars == <<first, current, outcome>>

-----------------------------------------------------------------------------
(* Translate *)

Declared(in) == in.pc.words * WordBits

Extent(in) == IF in.bitLen # 0 THEN in.bitLen
              ELSE IF in.hasPC THEN Declared(in) ELSE Len(in.bits)

FormatOf(in) == IF ~in.hasPC THEN DefaultFormat ELSE IF in.pc.toggle THEN "iso" ELSE "gs1"

\* Why an input does not translate, "" when it does.
TranslateRefusal(in) ==
    IF in.hasPC /\ in.pc.xi THEN "xpc"
    ELSE IF in.hasPC /\ Declared(in) = 0 THEN "truncated"
    ELSE IF in.hasPC /\ in.bitLen \notin {0, Declared(in)} THEN "length mismatch"
    ELSE IF Extent(in) = 0 \/ Len(in.bits) < Extent(in) THEN "truncated"
    ELSE IF FormatOf(in) = "gs1" THEN DecodeRefusal(in.bits, Extent(in))
    ELSE IF FormatOf(in) = "unknown" THEN "ambiguous"
    ELSE IF ~in.hasPC THEN "unrecognised"
    ELSE ISORefusal(in.bits, Extent(in), in.pc.afi)

Translate(in) ==
    IF TranslateRefusal(in) # "" THEN {}
    ELSE IF FormatOf(in) = "gs1" THEN Decode(in.bits, Extent(in))
    ELSE DecodeISO(in.bits, Extent(in), in.pc.afi)

\* Mutant: the words are rounded down.
ProtocolControlFloor(t) ==
    [words |-> t.bitLen \div WordBits - 1, xi |-> FALSE, toggle |-> t.toggle, afi |-> t.afi]

\* ProtocolControl: the stored PC word of an encoding.
ProtocolControl(t) ==
    [words |-> ((t.bitLen + WordBits - 1) \div WordBits) % MaxWords,
     xi |-> FALSE, toggle |-> t.toggle, afi |-> t.afi]

-----------------------------------------------------------------------------
(* The consumer *)

TranslationInput(o) == [bits |-> o.epc, bitLen |-> Len(o.epc), hasPC |-> o.hasPC, pc |-> o.pc]

\* Mutant: a length that the PC word contradicts fails the application.
UntranslatableShort ==
    {"unknown header", "unsupported", "unrecognised", "ambiguous", "unresolved", "xpc",
     "unknown partition", "reserved bits", "field value", "truncated"}

\* untranslatable: refusals that say something of the tag, not of the program.
Untranslatable ==
    {"unknown header", "unsupported", "unrecognised", "ambiguous", "unresolved", "xpc",
     "length mismatch", "unknown partition", "reserved bits", "field value", "truncated"}

Consume ==
    /\ first = {} /\ outcome = "idle"
    /\ \E o \in Observations :
          LET why == TranslateRefusal(TranslationInput(o)) IN
          /\ first' = Translate(TranslationInput(o))
          /\ outcome' = IF why = "" THEN "translated"
                        ELSE IF why \in Untranslatable THEN "untranslated" ELSE "failed"
    /\ current' = first'

-----------------------------------------------------------------------------
(* The generator *)

Filters == UNION {0..x.tag[1].max : x \in Layouts}

\* randomField: the digits of a fixed field, or one digit fewer than the
\* maximum with a nonzero lead.
RandomTexts(spec) ==
    LET n == IF spec.fixed THEN spec.length ELSE Max({1, Digits(spec.max) - 1})
    IN {[w |-> n, v |-> v] : v \in (IF spec.fixed THEN 0 ELSE Power(n - 1))..Power(n) - 1}

\* makeEPC with every field but the filter left out.
Generate ==
    /\ first = {} /\ outcome = "idle"
    /\ \E x \in Layouts, filter \in Filters :
          \E texts \in [DOMAIN x.pure -> UNION {RandomTexts(FieldSpecs(x)[i]) : i \in DOMAIN x.pure}] :
             /\ \A i \in DOMAIN x.pure : texts[i] \in RandomTexts(FieldSpecs(x)[i])
             /\ first' = Encode(Identity("gs1", x.s.keyType, texts), x.s.id, filter)
    /\ current' = first'
    /\ outcome' = IF first' = {} THEN "refused" ELSE "made"

\* makeISO: refused unless it can be written.
MakeUnit ==
    /\ first = {} /\ outcome = "idle"
    /\ \E v \in MadeUnits, c \in Constructs :
          EncodeISO(v, c.scheme) # {} /\ first' = EncodeISO(v, c.scheme)
    /\ current' = first' /\ outcome' = "made"

-----------------------------------------------------------------------------
(* What is done with a translation *)

IdentityOf(t) == [domain |-> t.domain, components |-> t.components]

\* Writes or reads the current tag again: results is what the code returns.
Becomes(results) ==
    /\ current' = IF results = {} THEN current ELSE results
    /\ outcome' = IF results = {} THEN "refused" ELSE "again"
    /\ UNCHANGED first

\* EncodeGS1 and EncodeISO: another tag for the same identity.
Rewrite(t, filter) ==
    Becomes(IF t.toggle THEN EncodeISO(IdentityOf(t), t.scheme)
            ELSE Encode(IdentityOf(t), t.scheme, filter))

ByPureURI(t, filter) ==
    ~t.toggle /\ Becomes(UNION {Encode(v, t.scheme, filter) :
                                   v \in UNION {ParsePureURI(u) : u \in PureURI(IdentityOf(t))}})

ByTagURI(t) == ~t.toggle /\ Becomes(UNION {ParseTagURI(u) : u \in TagURI(t)})

\* The tag is written with its stored PC word and a reader reports both.
OverTheAir(t) ==
    Becomes(Translate(TranslationInput([epc |-> t.bits, hasPC |-> TRUE, pc |-> ProtocolControl(t)])))

TagInit == first = {} /\ current = {} /\ outcome = "idle"

TagNext ==
    \/ Consume \/ Generate \/ MakeUnit
    \/ \E t \in current :
          \/ \E f \in Filters : Rewrite(t, f) \/ ByPureURI(t, f)
          \/ ByTagURI(t)
          \/ OverTheAir(t)

TagSpec == TagInit /\ [][TagNext]_tagVars

-----------------------------------------------------------------------------
(* Properties *)

\* Whatever a reader reports, the consumer goes on: a tag that does not
\* translate is counted, and never fails the application.
NoTagFailsTheConsumer == outcome # "failed"

\* However a tag is rewritten, printed, parsed and read, it names the same
\* thing, and the code never refuses what it wrote itself. Identity and filter
\* determine the tag: the same filter gives the same bits.
IdentityKept ==
    /\ outcome # "refused"
    /\ \A t \in current, o \in first :
          /\ IdentityOf(t) = IdentityOf(o)
          /\ t.filter = o.filter => t.bits = o.bits /\ t.fields = o.fields /\ t.scheme = o.scheme

TagPatterns == UNION {CompilePattern(u) : u \in PatternURIs}

\* Translation.Match, the reference: fields alone, and never bits.
ReferenceMatch(t, p) ==
    IF p.level = "identity" THEN p.domain = t.domain /\ MatchesComponents(p, t.components)
    ELSE p.scheme = t.scheme /\ MatchesComponents(p, t.fields)

\* "semantically equivalent to matching the pattern's fields": over tags that
\* translate, the bit test a pattern compiles to accepts what its fields accept.
BitTestIsExact ==
    \A t \in current, p \in TagPatterns : Matches(p, t) <=> ReferenceMatch(t, p)
=============================================================================
