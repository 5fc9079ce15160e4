------------------------------ MODULE MCLink ------------------------------
(***************************************************************************)
(* One slot, and a scenario of one frame that repeats. Either one          *)
(* connection with two reports and two keepalives, or a second one after   *)
(* the first is lost, which the emulator may still be serving.             *)
(***************************************************************************)
EXTENDS Link

CONSTANTS c1, c2, c3

MCOpenings == {{c1}, {c2, c3}}

MCFrames == [c \in Conns |-> IF c = c1 THEN 2 ELSE 1]

MCKeepalives == [c \in Conns |-> IF c = c1 THEN 2 ELSE 0]

\* The two connections of the second opening differ in nothing else.
MCSymmetry == Permutations({c2, c3})

MCScenarios == {[frames |-> <<1>>, repeat |-> TRUE]}
=============================================================================
