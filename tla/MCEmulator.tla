----------------------------- MODULE MCEmulator -----------------------------
(***************************************************************************)
(* One replacement between a scenario of two cycles that repeats and one   *)
(* of a cycle in two frames; under it either a connection with two         *)
(* keepalives and any messages, or two connections for one slot or two.    *)
(***************************************************************************)
EXTENDS Emulator

CONSTANTS c1, c2, c3

MCFrames == [c \in Conns |-> IF c = c1 THEN 3 ELSE 2]

MCKeepalives == [c \in Conns |-> IF c = c1 THEN 2 ELSE 0]

MCOpenings == {{c1}, {c2, c3}}

MCScenarios == {[frames |-> <<1, 1>>, repeat |-> TRUE], [frames |-> <<2>>, repeat |-> FALSE]}
=============================================================================
