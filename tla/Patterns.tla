------------------------------ MODULE Patterns ------------------------------
(***************************************************************************)
(* Compiled identity patterns (internal/identity/pattern.go) and the rule  *)
(* by which a translated tag satisfies one (internal/filter/filter.go).    *)
(*                                                                         *)
(* Masks, values and tags are sequences of bits, so a bit has one position *)
(* in all three. A domain is an authority and a key type; it, or the       *)
(* scheme, fixes the names of the fields, which are left out.              *)
(***************************************************************************)
EXTENDS Integers, Sequences

CONSTANT Number(_)      \* what ParseUint makes of a component, -1 an error

\* The checks of NewPattern; the layer that compiles text makes no other.
ValidPattern(p) ==
    /\ p.level = "identity" => p.scheme = "" /\ ~p.hasBits
    /\ p.level = "encoding" => p.scheme # ""
    /\ p.fields # <<>>
    /\ \A i, j \in DOMAIN p.fields :
          i < j /\ p.fields[i].kind = "any" => p.fields[j].kind = "any"
    /\ \A i \in DOMAIN p.fields :
          p.fields[i].kind = "range" => p.fields[i].lo <= p.fields[i].hi

MatchesField(f, component) ==
    \/ f.kind = "any"
    \/ f.kind = "exact" /\ component = f.text
    \/ f.kind = "range" /\ Number(component) \in f.lo..f.hi

MatchesComponents(p, components) ==
    /\ Len(components) = Len(p.fields)
    /\ \A i \in 1..Len(p.fields) : MatchesField(p.fields[i], components[i])

MatchesBits(p, s) ==
    /\ s.bitLen >= p.bitLen /\ Len(s.bits) >= Len(p.mask)
    /\ \A i \in 1..Len(p.mask) : p.mask[i] = 1 => s.bits[i] = p.value[i]

\* filter.matches, the rule every matcher implements.
Matches(p, s) ==
    \/ /\ p.level = "identity" /\ p.domain = s.domain
       /\ MatchesComponents(p, s.components)
    \/ /\ p.level = "encoding" /\ p.scheme = s.scheme
       /\ IF p.hasBits THEN MatchesBits(p, s) ELSE MatchesComponents(p, s.fields)
=============================================================================
