-------------------------- MODULE MCReaderSession --------------------------
(***************************************************************************)
(* ReaderSession for TLC, with what the README says of overflows.          *)
(***************************************************************************)
EXTENDS ReaderSession

\* tagstrak_queue_overflows_total, "any overflow fails the run": Run
\* returns the overflow.
OverflowFailsTheRun == pc = "done" /\ status.overflows > 0 => result = "backpressure"
=============================================================================
