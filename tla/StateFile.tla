----------------------------- MODULE StateFile -----------------------------
(***************************************************************************)
(* internal/config/state.go: WriteState replaces the subscription state    *)
(* file by writing and syncing a temporary file, renaming it over the old  *)
(* one and syncing the directory; any step but the last may fail.          *)
(*                                                                         *)
(* A file is a saved state, with whether its bytes are on the disk.        *)
(* "state" is what a process reads under the path, "disk" what is left of  *)
(* it after a power failure: the file the directory on the disk names, and *)
(* a torn one when its bytes had not got there. Under a missing path there *)
(* is the empty state at revision 0, as LoadState has it.                  *)
(***************************************************************************)
EXTENDS Naturals

CONSTANTS Empty  \* the empty list of subscriptions

VARIABLES step,   \* what WriteState does next; "done" or "failed" at its end
          temp,   \* the temporary file
          state, disk

fileVars == <<step, temp, state, disk>>

File(revision, spec, synced) == [revision |-> revision, spec |-> spec, synced |-> synced]
Torn == [revision |-> 0, spec |-> "torn", synced |-> TRUE]

Init == /\ step = "idle"
        /\ state = File(0, Empty, TRUE)
        /\ temp = state /\ disk = state

Begin(revision, spec) == /\ step = "idle"
                         /\ step' = "write"
                         /\ temp' = File(revision, spec, FALSE)
                         /\ UNCHANGED <<state, disk>>

\* CreateTemp, Chmod and Write.
Write == /\ step = "write" /\ step' = "sync"
         /\ UNCHANGED <<temp, state, disk>>

Sync == /\ step = "sync" /\ step' = "rename"
        /\ temp' = [temp EXCEPT !.synced = TRUE]
        /\ UNCHANGED <<state, disk>>

Rename == /\ step = "rename" /\ step' = "directory"
          /\ state' = temp
          /\ UNCHANGED <<temp, disk>>

\* What the disk has when its directory names the file under the path.
Reach == disk' = IF state.synced THEN state ELSE Torn

\* Mutant: the directory is left to the operating system.
SyncDirectoryNever == /\ step = "directory" /\ step' = "done"
                      /\ UNCHANGED <<temp, state, disk>>

SyncDirectory == /\ step = "directory" /\ step' = "done"
                 /\ Reach
                 /\ UNCHANGED <<temp, state>>

\* Best effort: nobody is told.
SyncDirectoryFails == /\ step = "directory" /\ step' = "done"
                      /\ UNCHANGED <<temp, state, disk>>

\* CreateTemp, Chmod, Write, Sync, Close or Rename returns an error.
Fail == /\ step \in {"write", "sync", "rename"} /\ step' = "failed"
        /\ UNCHANGED <<temp, state, disk>>

WriteState == Write \/ Sync \/ Rename \/ SyncDirectory \/ Fail

\* WriteState's caller takes its answer.
Return(result) == /\ step = result /\ step' = "idle"
                  /\ UNCHANGED <<temp, state, disk>>

\* The operating system writes the directory on its own.
Flush == Reach /\ UNCHANGED <<step, temp, state>>

\* The process dies, or the machine does.
Crash == step' = "idle" /\ UNCHANGED <<temp, state, disk>>
PowerFails == step' = "idle" /\ state' = disk /\ UNCHANGED <<temp, disk>>
=============================================================================
