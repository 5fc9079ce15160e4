---------------------------- MODULE PatternIndex ----------------------------
(***************************************************************************)
(* Subscription matching: internal/filter's Compile with the prefix index  *)
(* (index.go) and the rule it must agree with (filter.go, linear.go), over *)
(* the patterns of internal/identity/pattern.go.                           *)
(*                                                                         *)
(* Bytes are sequences of ByteBits bits each, so a bit has one position in *)
(* mask, value and tag. A trie node is reached exactly when the subject    *)
(* continues the path to it: Reached says so for each entry, without the   *)
(* nodes. A domain is an authority and a key type; it, or the scheme, fixes *)
(* the names of the fields, which are left out.                            *)
(***************************************************************************)
EXTENDS Patterns, SequencesExt

CONSTANTS ByteBits,     \* 8
          MaxSubscriptions, MaxPatternsPerSubscription,
          Lists,        \* subscription lists given to Compile
          Subjects      \* translated tags

ASSUME ByteAssumption == ByteBits \in Nat \ {0}

\* What NewPattern and NewBitPattern ensure, as far as the index needs it, and
\* what a pattern is that they did not make.
CompiledPattern(p) ==
    /\ p.level \in {"unset", "identity", "encoding"} /\ p.hasBits \in BOOLEAN
    /\ Len(p.fields) \in Nat /\ Len(p.mask) \in Nat

CompiledList(subs) ==
    /\ subs \in Seq(ToSet(subs))
    /\ \A i \in DOMAIN subs :
          /\ subs[i].patterns \in Seq(ToSet(subs[i].patterns))
          /\ \A j \in DOMAIN subs[i].patterns : CompiledPattern(subs[i].patterns[j])

\* The bits of a tag fill bytes.
TranslatedTag(s) == Len(s.bits) \in Nat /\ Len(s.bits) % ByteBits = 0

ASSUME InputAssumption ==
    /\ \A subs \in Lists : CompiledList(subs)
    /\ \A s \in Subjects : TranslatedTag(s)

VARIABLES subscriptions, matcher,
          subject,  \* {} or the one Match was asked about
          answer

indexVars == <<subscriptions, matcher, subject, answer>>

-----------------------------------------------------------------------------
(* The index *)

InBitTrie(p) == p.level = "encoding" /\ p.hasBits

\* The positions of the mask's leading run of ones.
Leading(p) == {i \in 1..Len(p.mask) : \A j \in 1..i : p.mask[j] = 1}

LastOfByte(i) == ((i - 1) \div ByteBits + 1) * ByteBits

\* Mutant: a byte the run only enters counts as part of the path.
PathTooLong(p) == {i \in 1..Len(p.mask) : \E j \in Leading(p) : LastOfByte(i) = LastOfByte(j)}

\* The whole bytes of the run lead to the entry's node; the rest of it is the
\* entry's test of the next byte.
Path(p) == {i \in Leading(p) : LastOfByte(i) \in Leading(p)}

Remainder(p) == Leading(p) \ Path(p)

\* The entries walkBits confirms: their path is walked to its end, and a next
\* byte is there when they have a test for it.
ReachedBits(p, s) ==
    /\ \A i \in Path(p) : i <= Len(s.bits) /\ s.bits[i] = p.value[i]
    /\ \A i \in Remainder(p) : LastOfByte(i) <= Len(s.bits) /\ s.bits[i] = p.value[i]

\* Patterns of exact fields and then stars.
InFieldTrie(p) ==
    /\ ~InBitTrie(p)
    /\ \A i \in 1..Len(p.fields) : p.fields[i].kind # "range"

\* The entries walkFields confirms: each exact field is a step down.
ReachedFields(p, components) ==
    \A i \in 1..Len(p.fields) :
        p.fields[i].kind # "any" => i <= Len(components) /\ components[i] = p.fields[i].text

\* What Match confirms with the rule: of the tries, what the subject leads to,
\* and every residual pattern.
Reached(p, s) ==
    \/ InBitTrie(p) /\ p.scheme = s.scheme /\ ReachedBits(p, s)
    \/ /\ InFieldTrie(p) /\ p.level = "encoding" /\ p.scheme = s.scheme
       /\ ReachedFields(p, s.fields)
    \/ /\ InFieldTrie(p) /\ p.level = "identity" /\ p.domain = s.domain
       /\ ReachedFields(p, s.components)
    \/ ~InBitTrie(p) /\ ~InFieldTrie(p)

-----------------------------------------------------------------------------
(* Compile and Match *)

ValidSubscriptions(subs) ==
    /\ Len(subs) <= MaxSubscriptions
    /\ \A i \in DOMAIN subs :
          /\ subs[i].id # ""
          /\ \A j \in DOMAIN subs : subs[i].id = subs[j].id => i = j
          /\ Len(subs[i].patterns) \in 1..MaxPatternsPerSubscription
          /\ \A j \in DOMAIN subs[i].patterns : subs[i].patterns[j].level # "unset"

\* What a loop over labels appends when it takes those at the positions K. It
\* is what SelectSeq computes, in a form that can be proved about.
Scan(labels, K) ==
    LET upTo[n \in 0..Len(labels)] ==
          IF n = 0 THEN <<>>
          ELSE IF n \in K THEN Append(upTo[n - 1], labels[n]) ELSE upTo[n - 1]
    IN  upTo[Len(labels)]

Ids(subs) == [i \in 1..Len(subs) |-> subs[i].id]

Hits(subs, s) ==
    {i \in DOMAIN subs : \E j \in DOMAIN subs[i].patterns : Matches(subs[i].patterns[j], s)}

\* Each subscription that matches, in order, once.
LinearMatch(subs, s) == Scan(Ids(subs), Hits(subs, s))

\* The entries as <<rank, pattern>>, in an order the tries may change.
Entries(subs) ==
    UNION {{<<rank, i>> : i \in DOMAIN subs[rank].patterns} : rank \in DOMAIN subs}

Found(subs, s) ==
    {e \in Entries(subs) : LET p == subs[e[1]].patterns[e[2]] IN Reached(p, s) /\ Matches(p, s)}

\* Ranks up to limit in order, without duplicates.
Order(found, limit) ==
    IF Len(found) < 2 THEN found ELSE Scan([i \in 1..limit |-> i], ToSet(found))

IndexMatch(subs, s) ==
    LET found == SetToSeq(Found(subs, s))
        ranks == Order([i \in 1..Len(found) |-> found[i][1]], Len(subs))
    IN [i \in 1..Len(ranks) |-> subs[ranks[i]].id]

IndexInit == /\ subscriptions \in Lists
             /\ matcher = "none" /\ subject = {} /\ answer = <<>>

Compile == /\ matcher = "none"
           /\ matcher' = IF ValidSubscriptions(subscriptions) THEN "index" ELSE "rejected"
           /\ UNCHANGED <<subscriptions, subject, answer>>

\* A matcher keeps no state: one question shows as much as many.
Match == /\ matcher = "index" /\ subject = {}
         /\ \E s \in Subjects :
               /\ subject' = {s}
               /\ answer' = IndexMatch(subscriptions, s)
         /\ UNCHANGED <<subscriptions, matcher>>

IndexNext == Compile \/ Match

IndexSpec == IndexInit /\ [][IndexNext]_indexVars

-----------------------------------------------------------------------------

\* "the index must agree with linear on every subscription set": the same
\* subscriptions, in their order, each once, whatever the tries prune.
IndexAgrees == \A s \in subject : answer = LinearMatch(subscriptions, s)
=============================================================================
