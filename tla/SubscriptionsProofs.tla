------------------------- MODULE SubscriptionsProofs -------------------------
(***************************************************************************)
(* Proofs about Subscriptions, for every set of clients and of lists,      *)
(* every number of changes and every number of crashes.                    *)
(***************************************************************************)
EXTENDS Subscriptions, TLAPS, FiniteSetTheorems

\* A file that is not torn, with its bytes on the disk.
Files == [revision : Nat, spec : Specs, synced : {TRUE}]

Requests == [pc : {"idle", "replace", "commit", "answer"}, before : Nat, expected : Nat,
             body : Bodies, after : Nat]

SubTypes ==
    /\ source \in {"api", "file"} /\ up \in BOOLEAN /\ unsure \in BOOLEAN
    /\ current \in [revision : Nat, spec : Specs]
    /\ lock \in Clients \cup {"free"}
    /\ step \in {"idle", "write", "sync", "rename", "directory", "done", "failed"}
    /\ temp \in [revision : Nat, spec : Specs, synced : BOOLEAN]
    /\ state \in Files /\ disk \in Files
    /\ put \in [Clients -> Requests]
    /\ config \in Specs \cup {"invalid"} /\ hangup \in BOOLEAN
    /\ reload \in [pc : {"idle", "read", "replace"}, spec : Specs]
    /\ changes \in 0..MaxChanges
    /\ shown \in [Revisions -> SUBSET Specs]

\* The lock is held from the beginning of a write to the publication, by the
\* client whose request is being committed and whose precondition still holds.
LockInv ==
    /\ step = "idle" <=> lock = "free"
    /\ lock # "free" => up /\ source = "api"
    /\ \A c \in Clients : put[c].pc = "commit" <=> lock = c
    /\ \A c \in Clients : put[c].pc \in {"commit", "answer"} => put[c].body \in Specs
    /\ \A c \in Clients : put[c].pc = "commit" => Matches(c)
    /\ ~up \/ source = "file" => \A c \in Clients : put[c].pc = "idle"
    /\ ~up \/ source = "api" => reload.pc = "idle" /\ ~hangup

\* What is being written is the next snapshot, and what was written is there.
FileInv ==
    /\ step \in {"write", "sync", "rename", "directory", "done"} =>
          temp.revision = current.revision + 1 /\ temp.spec = put[lock].body
    /\ step \in {"rename", "directory", "done"} => temp.synced
    /\ step \in {"directory", "done"} => state = temp
    /\ up /\ source = "api" /\ step \notin {"directory", "done"} =>
          state.revision = current.revision /\ state.spec = current.spec

LEMMA Start == Init => SubTypes /\ LockInv /\ FileInv
  <1> SUFFICES ASSUME Init PROVE SubTypes /\ LockInv /\ FileInv
    OBVIOUS
  <1> USE SubscriptionsAssumption DEF Init
  <1>1. current \in [revision : Nat, spec : Specs]
    BY DEF Snapshot
  <1>2. state \in Files /\ disk \in Files /\ temp \in Files
    BY DEF StateFile!Init, StateFile!File, Files
  <1>3. put \in [Clients -> Requests]
    BY DEF Requests, NoPut, Bodies, Unconditional
  <1>4. reload \in [pc : {"idle", "read", "replace"}, spec : Specs]
    BY DEF NoReload
  <1>5. shown \in [Revisions -> SUBSET Specs]
    OBVIOUS
  <1>6. config \in Specs
    OBVIOUS
  <1>7. /\ step = "idle"
        /\ source = "api" => state.revision = current.revision /\ state.spec = current.spec
    BY DEF StateFile!Init, StateFile!File, Snapshot
  <1>8. temp \in [revision : Nat, spec : Specs, synced : BOOLEAN]
    BY DEF StateFile!Init, StateFile!File
  <1>10. SubTypes
    <2>1. up \in BOOLEAN /\ unsure \in BOOLEAN /\ hangup \in BOOLEAN
      OBVIOUS
    <2>2. source \in {"api", "file"} /\ lock \in Clients \cup {"free"} /\ changes \in 0..MaxChanges
      OBVIOUS
    <2> QED BY <1>1, <1>2, <1>3, <1>4, <1>5, <1>6, <1>7, <1>8, <2>1, <2>2 DEF SubTypes
  <1>9. LockInv /\ FileInv
    BY <1>7 DEF LockInv, FileInv, NoPut, NoReload
  <1> QED BY <1>9, <1>10

LEMMA AnswerIsRequest ==
    ASSUME NEW p \in Requests, NEW n \in Nat
    PROVE  [p EXCEPT !.pc = "answer", !.after = n] \in Requests
  BY DEF Requests

LEMMA TypesStep == SubTypes /\ LockInv /\ FileInv /\ [Next]_vars => SubTypes'
  <1> SUFFICES ASSUME SubTypes, LockInv, FileInv, [Next]_vars PROVE SubTypes'
    OBVIOUS
  <1> USE SubscriptionsAssumption DEF SubTypes, Requests, LockInv,
             tableVars, fileVars, reloadVars, outerVars
  <1>1. CASE Get
    <2>1. /\ shown' = [shown EXCEPT ![current.revision] = @ \cup {current.spec}]
          /\ current.spec \in Specs
      BY <1>1 DEF Get, Told
    <2>2. shown' \in [Revisions -> SUBSET Specs]
      BY <2>1
    <2>3. UNCHANGED <<tableVars, fileVars, reloadVars, outerVars, put>>
      BY <1>1 DEF Get
    <2> QED BY <2>2, <2>3
  <1>2. ASSUME NEW c \in Clients, Put(c) PROVE SubTypes'
    BY <1>2 DEF Put, NoPut, Bodies, Unconditional, Revisions, Matches
  <1>3. ASSUME NEW c \in Clients, PutRefused(c) PROVE SubTypes'
    BY <1>3 DEF PutRefused, NoPut, Bodies, Unconditional, Matches
  <1>4. ASSUME NEW c \in Clients, PutCommits(c) PROVE SubTypes'
    BY <1>4 DEF PutCommits, StateFile!Begin, StateFile!File, Matches
  <1>5. ASSUME NEW c \in Clients, PutNotSaved(c) PROVE SubTypes'
    BY <1>5 DEF PutNotSaved, StateFile!Return, NoPut, Bodies, Unconditional, Matches
  <1>6. ASSUME NEW c \in Clients, PutPublishes(c) PROVE SubTypes'
    <2>1. /\ current' = [revision |-> current.revision + 1, spec |-> put[c].body]
          /\ put[c].body \in Specs
      BY <1>6 DEF PutPublishes, Snapshot
    <2>2. current' \in [revision : Nat, spec : Specs]
      BY <2>1
    <2>3. put' \in [Clients -> Requests]
      <3> DEFINE p == [put[c] EXCEPT !.pc = "answer", !.after = current.revision + 1]
      <3>1. put[c] \in Requests /\ current.revision + 1 \in Nat
        OBVIOUS
      <3>2. p \in Requests
        BY <3>1, AnswerIsRequest
      <3>3. put' = [put EXCEPT ![c] = p]
        BY <1>6 DEF PutPublishes
      <3> HIDE DEF p
      <3> QED BY <3>2, <3>3
    <2> QED BY <1>6, <2>2, <2>3 DEF PutPublishes, StateFile!Return
  <1>7. ASSUME NEW c \in Clients, PutAnswered(c) PROVE SubTypes'
    <2>1. put[c].body \in Specs
      BY <1>7 DEF PutAnswered
    <2>2. shown' \in [Revisions -> SUBSET Specs]
      BY <1>7, <2>1 DEF PutAnswered, Told, Snapshot
    <2>3. put' \in [Clients -> Requests]
      BY <1>7 DEF PutAnswered, NoPut, Bodies, Unconditional
    <2> QED BY <1>7, <2>2, <2>3 DEF PutAnswered
  <1>8. CASE (StateFile!Write \/ StateFile!Sync \/ StateFile!Fail) /\ Save
    BY <1>8 DEF StateFile!Write, Save, StateFile!Sync, StateFile!Fail
  <1>9. CASE StateFile!Rename /\ Save
    <2>1. temp = [revision |-> temp.revision, spec |-> temp.spec, synced |-> temp.synced]
      OBVIOUS
    <2>2. temp.synced = TRUE
      BY <1>9 DEF StateFile!Rename, FileInv
    <2>3. temp \in Files
      BY <2>1, <2>2 DEF Files
    <2> QED BY <1>9, <2>3 DEF StateFile!Rename, Save
  <1>10. CASE StateFile!SyncDirectory /\ Save
    BY <1>10 DEF StateFile!SyncDirectory, Save, StateFile!Reach, Files
  <1>11. CASE StateFile!SyncDirectoryFails /\ unsure' = TRUE /\ Save
    BY <1>11 DEF StateFile!SyncDirectoryFails, Save
  <1>12. CASE Edit
    BY <1>12 DEF Edit
  <1>13. CASE Hangup
    BY <1>13 DEF Hangup
  <1>14. CASE ReloadBegins
    BY <1>14 DEF ReloadBegins
  <1>15. CASE ReloadReads
    BY <1>15 DEF ReloadReads, NoReload
  <1>16. CASE ReloadReplaces
    BY <1>16 DEF ReloadReplaces, NoReload, Snapshot, Matches
  <1>17. CASE Flush
    BY <1>17 DEF Flush, StateFile!Flush, StateFile!Reach, Files
  <1>18. CASE Down
    <2>1. put' \in [Clients -> Requests]
      BY <1>18 DEF Down, NoPut, Bodies, Unconditional
    <2>2. current' \in [revision : Nat, spec : Specs] /\ lock' = "free"
      BY <1>18 DEF Down, Snapshot
    <2>3. reload' \in [pc : {"idle", "read", "replace"}, spec : Specs] /\ hangup' \in BOOLEAN
      BY <1>18 DEF Down, NoReload
    <2>4. step' = "idle" /\ temp' = temp /\ disk' = disk /\ state' \in Files
      BY <1>18 DEF Down, StateFile!Crash, StateFile!PowerFails
    <2> QED BY <1>18, <2>1, <2>2, <2>3, <2>4 DEF Down
  <1>19. CASE Restart
    <2>1. state \in [revision : Nat, spec : Specs, synced : {TRUE}]
      BY DEF Files
    <2>2. current' \in [revision : Nat, spec : Specs]
      BY <1>19, <2>1 DEF Restart, Snapshot
    <2>3. unsure' \in BOOLEAN
      BY <1>19 DEF Restart
    <2> QED BY <1>19, <2>2, <2>3 DEF Restart
  <1>20. CASE UNCHANGED vars
    BY <1>20 DEF vars
  <1> QED BY <1>1, <1>2, <1>3, <1>4, <1>5, <1>6, <1>7, <1>8, <1>9, <1>10, <1>11, <1>12, <1>13,
        <1>14, <1>15, <1>16, <1>17, <1>18, <1>19, <1>20
     DEF Next, Api, Save, StateFile!WriteState, Reload

LEMMA LockStep == SubTypes /\ LockInv /\ [Next]_vars => LockInv'
  <1> SUFFICES ASSUME SubTypes, LockInv, [Next]_vars PROVE LockInv'
    OBVIOUS
  <1> USE SubscriptionsAssumption DEF SubTypes, Requests, LockInv,
             tableVars, fileVars, reloadVars, outerVars
  <1>1. CASE Get
    BY <1>1 DEF Get, Told, Snapshot, Matches
  <1>2. ASSUME NEW c \in Clients, Put(c) PROVE LockInv'
    BY <1>2 DEF Put, NoPut, Bodies, Unconditional, Revisions, Matches
  <1>3. ASSUME NEW c \in Clients, PutRefused(c) PROVE LockInv'
    BY <1>3 DEF PutRefused, NoPut, Bodies, Unconditional, Matches
  <1>4. ASSUME NEW c \in Clients, PutCommits(c) PROVE LockInv'
    BY <1>4 DEF PutCommits, StateFile!Begin, StateFile!File, Matches
  <1>5. ASSUME NEW c \in Clients, PutNotSaved(c) PROVE LockInv'
    BY <1>5 DEF PutNotSaved, StateFile!Return, NoPut, Bodies, Unconditional, Matches
  <1>6. ASSUME NEW c \in Clients, PutPublishes(c) PROVE LockInv'
    BY <1>6 DEF PutPublishes, StateFile!Return, Snapshot, Matches
  <1>7. ASSUME NEW c \in Clients, PutAnswered(c) PROVE LockInv'
    BY <1>7 DEF PutAnswered, Told, Snapshot, NoPut, Bodies, Unconditional, Matches
  <1>8. CASE (StateFile!Write \/ StateFile!Sync \/ StateFile!Fail) /\ Save
    BY <1>8 DEF StateFile!Write, Save, Matches, StateFile!Sync, StateFile!Fail
  <1>9. CASE StateFile!Rename /\ Save
    BY <1>9 DEF StateFile!Rename, Save, Files, Matches
  <1>10. CASE StateFile!SyncDirectory /\ Save
    BY <1>10 DEF StateFile!SyncDirectory, Save, StateFile!Reach, Files, Matches
  <1>11. CASE StateFile!SyncDirectoryFails /\ unsure' = TRUE /\ Save
    BY <1>11 DEF StateFile!SyncDirectoryFails, Save, Matches
  <1>12. CASE Edit \/ Hangup \/ Reload
    BY <1>12 DEF Edit, Matches, Hangup, ReloadBegins, ReloadReads, NoReload, ReloadReplaces,
        Snapshot, Reload
  <1>13. CASE Flush
    BY <1>13 DEF Flush, StateFile!Flush, StateFile!Reach, Files, Matches
  <1>14. CASE Down
    BY <1>14 DEF Down, StateFile!Crash, StateFile!PowerFails, Snapshot, NoPut, NoReload,
        Bodies, Unconditional, Matches
  <1>15. CASE Restart
    BY <1>15 DEF Restart, Snapshot, Matches
  <1>16. CASE UNCHANGED vars
    BY <1>16 DEF vars, Matches
  <1> QED BY <1>1, <1>2, <1>3, <1>4, <1>5, <1>6, <1>7, <1>8, <1>9, <1>10, <1>11, <1>12, <1>13,
        <1>14, <1>15, <1>16
     DEF Next, Api, Save, StateFile!WriteState, Reload

LEMMA FileStep == SubTypes /\ LockInv /\ FileInv /\ [Next]_vars => FileInv'
  <1> SUFFICES ASSUME SubTypes, LockInv, FileInv, [Next]_vars PROVE FileInv'
    OBVIOUS
  <1> USE SubscriptionsAssumption DEF SubTypes, Requests, LockInv, FileInv,
             tableVars, fileVars, reloadVars, outerVars
  <1>1. CASE Get
    BY <1>1 DEF Get, Told, Snapshot, Files
  <1>2. ASSUME NEW c \in Clients, Put(c) PROVE FileInv'
    BY <1>2 DEF Put, NoPut, Bodies, Unconditional, Revisions, Matches, Files
  <1>3. ASSUME NEW c \in Clients, PutRefused(c) PROVE FileInv'
    BY <1>3 DEF PutRefused, NoPut, Bodies, Unconditional, Matches, Files
  <1>4. ASSUME NEW c \in Clients, PutCommits(c) PROVE FileInv'
    BY <1>4 DEF PutCommits, StateFile!Begin, StateFile!File, Matches, Files
  <1>5. ASSUME NEW c \in Clients, PutNotSaved(c) PROVE FileInv'
    BY <1>5 DEF PutNotSaved, StateFile!Return, NoPut, Bodies, Unconditional, Matches, Files
  <1>6. ASSUME NEW c \in Clients, PutPublishes(c) PROVE FileInv'
    BY <1>6 DEF PutPublishes, StateFile!Return, Snapshot, Matches, Files
  <1>7. ASSUME NEW c \in Clients, PutAnswered(c) PROVE FileInv'
    BY <1>7 DEF PutAnswered, Told, Snapshot, NoPut, Bodies, Unconditional, Matches, Files
  <1>8. CASE (StateFile!Write \/ StateFile!Sync \/ StateFile!Fail) /\ Save
    BY <1>8 DEF StateFile!Write, Save, Files, StateFile!Sync, StateFile!Fail
  <1>9. CASE StateFile!Rename /\ Save
    BY <1>9 DEF StateFile!Rename, Save, Files
  <1>10. CASE StateFile!SyncDirectory /\ Save
    BY <1>10 DEF StateFile!SyncDirectory, Save, StateFile!Reach, Files
  <1>11. CASE StateFile!SyncDirectoryFails /\ unsure' = TRUE /\ Save
    BY <1>11 DEF StateFile!SyncDirectoryFails, Save, Files
  <1>12. CASE Edit \/ Hangup \/ Reload
    BY <1>12 DEF Edit, Files, Hangup, ReloadBegins, ReloadReads, NoReload, ReloadReplaces,
        Snapshot, Matches, Reload
  <1>13. CASE Flush
    BY <1>13 DEF Flush, StateFile!Flush, StateFile!Reach, Files
  <1>14. CASE Down
    BY <1>14 DEF Down, StateFile!Crash, StateFile!PowerFails, Snapshot, NoPut, NoReload,
        Bodies, Unconditional, Matches, Files
  <1>15. CASE Restart
    BY <1>15 DEF Restart, Snapshot, Matches, Files
  <1>16. CASE UNCHANGED vars
    BY <1>16 DEF vars, Files
  <1> QED BY <1>1, <1>2, <1>3, <1>4, <1>5, <1>6, <1>7, <1>8, <1>9, <1>10, <1>11, <1>12, <1>13,
        <1>14, <1>15, <1>16
     DEF Next, Api, Save, StateFile!WriteState, Reload

-----------------------------------------------------------------------------
(* What clients know                                                       *)

\* The disk has what the path names, but while the directory of a renamed file
\* is not synced, when it may have the snapshot that is still published.
DiskInv ==
    up /\ Durable =>
        \/ disk = state
        \/ step = "directory" /\ disk.revision = current.revision /\ disk.spec = current.spec

\* Some client was told, or is about to be told, that revision r is the list s.
Known(r, s) ==
    \/ r \in Revisions /\ s \in shown[r]
    \/ \E c \in Clients : put[c].pc = "answer" /\ put[c].after = r /\ put[c].body = s

\* Whatever is known is not ahead of the disk, nor of the file, nor of what is
\* published, and agrees with each of them that is at the same revision: so a
\* restart publishes nothing that contradicts it, whichever file it finds.
KnownInv ==
    Durable =>
        \A r \in Nat, s \in Specs : Known(r, s) =>
            /\ r <= disk.revision /\ (r = disk.revision => s = disk.spec)
            /\ r <= state.revision /\ (r = state.revision => s = state.spec)
            /\ up => r <= current.revision /\ (r = current.revision => s = current.spec)
            /\ \A t \in Specs : Known(r, t) => s = t

\* A revision a client sends was shown before its request arrived, and what the
\* audit read then is no later than what is published.
SeenInv ==
    \A c \in Clients :
        /\ put[c].pc \in {"replace", "commit"} =>
              /\ put[c].before <= current.revision
              /\ put[c].expected # Unconditional /\ Durable =>
                    /\ put[c].expected \in Revisions /\ shown[put[c].expected] # {}
                    /\ put[c].expected <= put[c].before
        /\ put[c].pc = "answer" =>
              /\ put[c].before < put[c].after
              /\ put[c].expected # Unconditional /\ Durable => put[c].before = put[c].after - 1

LEMMA KnownStart == Init => DiskInv /\ KnownInv /\ SeenInv
  <1> SUFFICES ASSUME Init PROVE DiskInv /\ KnownInv /\ SeenInv
    OBVIOUS
  <1>1. \A c \in Clients : put[c].pc = "idle"
    BY DEF Init, NoPut
  <1>2. \A r \in Revisions : shown[r] = {}
    BY DEF Init
  <1>3. \A r, s : ~Known(r, s)
    BY <1>1, <1>2 DEF Known
  <1>4. DiskInv
    BY DEF Init, DiskInv, StateFile!Init
  <1>5. KnownInv
    BY <1>3 DEF KnownInv
  <1>6. SeenInv
    BY <1>1 DEF SeenInv
  <1> QED BY <1>4, <1>5, <1>6

\* Nothing makes a replacement that was not durable durable again.
LEMMA DurableStays == [Next]_vars => (Durable' => Durable)
  <1> SUFFICES ASSUME [Next]_vars PROVE Durable' => Durable
    OBVIOUS
  <1> USE DEF Durable, outerVars
  <1>1. CASE Restart \/ Down
    BY <1>1 DEF Restart, Down
  <1>2. CASE Save
    BY <1>2 DEF Save
  <1>3. CASE Edit \/ Hangup \/ Reload \/ Flush \/ Get \/ UNCHANGED vars
    BY <1>3 DEF Edit, Hangup, Reload, ReloadBegins, ReloadReads, ReloadReplaces, Flush, Get, vars
  <1>4. ASSUME NEW c \in Clients,
               \/ Put(c) \/ PutRefused(c) \/ PutCommits(c) \/ PutNotSaved(c)
               \/ PutPublishes(c) \/ PutAnswered(c)
        PROVE  Durable' => Durable
    BY <1>4 DEF Put, PutRefused, PutCommits, PutNotSaved, PutPublishes, PutAnswered
  <1> QED BY <1>1, <1>2, <1>3, <1>4 DEF Next, Api

LEMMA DiskStep == SubTypes /\ LockInv /\ FileInv /\ DiskInv /\ [Next]_vars => DiskInv'
  <1> SUFFICES ASSUME SubTypes, LockInv, FileInv, DiskInv, [Next]_vars PROVE DiskInv'
    OBVIOUS
  <1> USE DEF SubTypes, Requests, LockInv, FileInv, DiskInv, Durable,
             tableVars, fileVars, reloadVars, outerVars
  <1>1. CASE Get
    BY <1>1 DEF Get, Told, Snapshot, Files
  <1>2. ASSUME NEW c \in Clients, Put(c) PROVE DiskInv'
    BY <1>2 DEF Put, NoPut, Bodies, Unconditional, Revisions, Matches, Files
  <1>3. ASSUME NEW c \in Clients, PutRefused(c) PROVE DiskInv'
    BY <1>3 DEF PutRefused, NoPut, Bodies, Unconditional, Matches, Files
  <1>4. ASSUME NEW c \in Clients, PutCommits(c) PROVE DiskInv'
    BY <1>4 DEF PutCommits, StateFile!Begin, StateFile!File, Matches, Files
  <1>5. ASSUME NEW c \in Clients, PutNotSaved(c) PROVE DiskInv'
    BY <1>5 DEF PutNotSaved, StateFile!Return, NoPut, Bodies, Unconditional, Matches, Files
  <1>6. ASSUME NEW c \in Clients, PutPublishes(c) PROVE DiskInv'
    BY <1>6 DEF PutPublishes, StateFile!Return, Snapshot, Matches, Files
  <1>7. ASSUME NEW c \in Clients, PutAnswered(c) PROVE DiskInv'
    BY <1>7 DEF PutAnswered, Told, Snapshot, NoPut, Bodies, Unconditional, Matches, Files
  <1>8. CASE (StateFile!Write \/ StateFile!Sync \/ StateFile!Fail) /\ Save
    BY <1>8 DEF StateFile!Write, Save, Files, StateFile!Sync, StateFile!Fail
  <1>9. CASE StateFile!Rename /\ Save
    BY <1>9 DEF StateFile!Rename, Save, Files
  <1>10. CASE StateFile!SyncDirectory /\ Save
    BY <1>10 DEF StateFile!SyncDirectory, Save, StateFile!Reach, Files
  <1>11. CASE StateFile!SyncDirectoryFails /\ unsure' = TRUE /\ Save
    BY <1>11 DEF StateFile!SyncDirectoryFails, Save, Files
  <1>12. CASE Edit \/ Hangup \/ Reload
    BY <1>12 DEF Edit, Files, Hangup, ReloadBegins, ReloadReads, NoReload, ReloadReplaces,
        Snapshot, Matches, Reload
  <1>13. CASE Flush
    BY <1>13 DEF Flush, StateFile!Flush, StateFile!Reach, Files
  <1>14. CASE Down
    BY <1>14 DEF Down, StateFile!Crash, StateFile!PowerFails, Snapshot, NoPut, NoReload,
        Bodies, Unconditional, Matches, Files
  <1>15. CASE Restart
    BY <1>15 DEF Restart, Snapshot, Matches, Files
  <1>16. CASE UNCHANGED vars
    BY <1>16 DEF vars, Files
  <1> QED BY <1>1, <1>2, <1>3, <1>4, <1>5, <1>6, <1>7, <1>8, <1>9, <1>10, <1>11, <1>12, <1>13,
        <1>14, <1>15, <1>16
     DEF Next, Api, Save, StateFile!WriteState, Reload

\* Who does not answer or tell makes nothing known.
LEMMA NothingNew ==
    ASSUME shown' = shown,
           \A c \in Clients : put'[c].pc = "answer" => put'[c] = put[c]
    PROVE  \A r, s : Known(r, s)' => Known(r, s)
  BY DEF Known, Revisions

\* Of the steps, two make something known, and it is the published snapshot.
Grows ==
    \A r \in Nat, s \in Specs :
        Known(r, s)' => Known(r, s) \/ (r = current'.revision /\ s = current'.spec)

\* The steps as far as what is known is concerned: an answer to a client,
Tells ==
    /\ UNCHANGED <<current, state, disk, up>> /\ up /\ Grows
    /\ \A f \in {state, disk} : \/ f.revision = current.revision /\ f.spec = current.spec
                               \/ f.revision = current.revision + 1

\* a publication of what is saved,
Publishes ==
    /\ UNCHANGED <<state, disk, up>> /\ up /\ Grows
    /\ current'.revision = current.revision + 1
    /\ current'.revision = state.revision /\ current'.spec = state.spec
    /\ disk = state

Forgets == \A r \in Nat, s \in Specs : Known(r, s)' => Known(r, s)

\* a step on the file,
FileMoves ==
    /\ Forgets /\ UNCHANGED <<current, up>>
    /\ \/ state' = state /\ disk' \in {state, disk}
       \/ disk' = disk /\ up /\ state'.revision = current.revision + 1

\* the end of a process, and the start of the next one.
Ends == Forgets /\ ~up' /\ disk' = disk /\ state' \in {state, disk}

Starts ==
    /\ Forgets /\ ~up /\ UNCHANGED <<state, disk>>
    /\ current'.revision = state.revision /\ current'.spec = state.spec

LEMMA KnownByMoves ==
    ASSUME SubTypes, SubTypes', Durable', Durable, KnownInv,
           Tells \/ Publishes \/ FileMoves \/ Ends \/ Starts
    PROVE  KnownInv'
  <1> SUFFICES ASSUME NEW r \in Nat, NEW s \in Specs, Known(r, s)'
               PROVE  /\ r <= disk'.revision /\ (r = disk'.revision => s = disk'.spec)
                      /\ r <= state'.revision /\ (r = state'.revision => s = state'.spec)
                      /\ up' => /\ r <= current'.revision
                                /\ r = current'.revision => s = current'.spec
                      /\ \A t \in Specs : Known(r, t)' => s = t
    BY DEF KnownInv
  <1>1. \A q \in Nat, p \in Specs : Known(q, p) =>
            /\ q <= disk.revision /\ (q = disk.revision => p = disk.spec)
            /\ q <= state.revision /\ (q = state.revision => p = state.spec)
            /\ up => q <= current.revision /\ (q = current.revision => p = current.spec)
            /\ \A t \in Specs : Known(q, t) => p = t
    BY DEF KnownInv
  <1>2. /\ current.revision \in Nat /\ state.revision \in Nat /\ disk.revision \in Nat
        /\ current'.revision \in Nat /\ state'.revision \in Nat /\ disk'.revision \in Nat
    BY DEF SubTypes, Files
  <1>3. CASE Tells
    BY <1>1, <1>2, <1>3 DEF Tells, Grows
  <1>4. CASE Publishes
    BY <1>1, <1>2, <1>4 DEF Publishes, Grows
  <1>5. CASE FileMoves
    BY <1>1, <1>2, <1>5 DEF FileMoves, Forgets
  <1>6. CASE Ends
    BY <1>1, <1>2, <1>6 DEF Ends, Forgets
  <1>7. CASE Starts
    BY <1>1, <1>2, <1>7 DEF Starts, Forgets
  <1> QED BY <1>3, <1>4, <1>5, <1>6, <1>7

\* What a handler answers, and Get, is told of the published snapshot.
LEMMA KnownStep ==
    /\ SubTypes /\ LockInv /\ FileInv /\ DiskInv /\ KnownInv
    /\ SubTypes' /\ [Next]_vars
    => KnownInv'
  <1> SUFFICES ASSUME SubTypes, LockInv, FileInv, DiskInv, KnownInv, SubTypes',
                      [Next]_vars, Durable'
               PROVE  Tells \/ Publishes \/ FileMoves \/ Ends \/ Starts
    BY DurableStays, KnownByMoves DEF KnownInv
  <1>0. Durable /\ source = "api" /\ ~unsure /\ source' = source /\ ~unsure'
    BY DurableStays DEF Durable, Next, vars, outerVars
  <1> USE <1>0 DEF SubTypes, Requests, LockInv,
             tableVars, fileVars, reloadVars, outerVars
  <1>1. CASE Get
    <2>1. Grows
      BY <1>1 DEF Get, Told, Grows, Known
    <2>2. \A f \in {state, disk} : \/ f.revision = current.revision /\ f.spec = current.spec
                                 \/ f.revision = current.revision + 1
      BY <1>1 DEF Get, FileInv, DiskInv, Durable
    <2> QED BY <1>1, <2>1, <2>2 DEF Get, Tells
  <1>2. ASSUME NEW c \in Clients, Put(c) PROVE Tells \/ Publishes \/ FileMoves \/ Ends \/ Starts
    <2>1. shown' = shown /\ \A d \in Clients : put'[d].pc = "answer" => put'[d] = put[d]
      BY <1>2 DEF Put
    <2>2. Forgets
      BY <2>1, NothingNew DEF Forgets
    <2>3. FileMoves
      BY <1>2, <2>2 DEF FileMoves, Put
    <2> QED BY <2>3
  <1>3. ASSUME NEW c \in Clients, PutRefused(c)
         PROVE  Tells \/ Publishes \/ FileMoves \/ Ends \/ Starts
    <2>1. shown' = shown /\ \A d \in Clients : put'[d].pc = "answer" => put'[d] = put[d]
      BY <1>3 DEF PutRefused, NoPut
    <2>2. Forgets
      BY <2>1, NothingNew DEF Forgets
    <2>3. FileMoves
      BY <1>3, <2>2 DEF FileMoves, PutRefused
    <2> QED BY <2>3
  <1>4. ASSUME NEW c \in Clients, PutCommits(c)
         PROVE  Tells \/ Publishes \/ FileMoves \/ Ends \/ Starts
    <2>1. shown' = shown /\ \A d \in Clients : put'[d].pc = "answer" => put'[d] = put[d]
      BY <1>4 DEF PutCommits
    <2>2. Forgets
      BY <2>1, NothingNew DEF Forgets
    <2>3. FileMoves
      BY <1>4, <2>2 DEF FileMoves, PutCommits, StateFile!Begin
    <2> QED BY <2>3
  <1>5. ASSUME NEW c \in Clients, PutNotSaved(c)
         PROVE  Tells \/ Publishes \/ FileMoves \/ Ends \/ Starts
    <2>1. shown' = shown /\ \A d \in Clients : put'[d].pc = "answer" => put'[d] = put[d]
      BY <1>5 DEF PutNotSaved, NoPut
    <2>2. Forgets
      BY <2>1, NothingNew DEF Forgets
    <2>3. FileMoves
      BY <1>5, <2>2 DEF FileMoves, PutNotSaved, StateFile!Return
    <2> QED BY <2>3
  <1>6. ASSUME NEW c \in Clients, PutPublishes(c)
         PROVE  Tells \/ Publishes \/ FileMoves \/ Ends \/ Starts
    <2>1. /\ current'.revision = current.revision + 1 /\ current'.spec = put[c].body
          /\ shown' = shown
          /\ put' = [put EXCEPT ![c] = [@ EXCEPT !.pc = "answer", !.after = current.revision + 1]]
      BY <1>6 DEF PutPublishes, Snapshot
    <2>2. /\ put'[c].after = current.revision + 1 /\ put'[c].body = put[c].body
          /\ \A d \in Clients \ {c} : put'[d] = put[d]
      BY <2>1
    <2>3. Grows
      BY <2>1, <2>2 DEF Grows, Known
    <2>4. lock = c /\ step = "done" /\ UNCHANGED <<state, disk, up>>
      BY <1>6 DEF PutPublishes, StateFile!Return
    <2> QED BY <2>1, <2>3, <2>4 DEF Publishes, FileInv, DiskInv, Durable
  <1>7. ASSUME NEW c \in Clients, PutAnswered(c)
         PROVE  Tells \/ Publishes \/ FileMoves \/ Ends \/ Starts
    <2>1. /\ put[c].pc = "answer" /\ put'[c].pc = "idle"
          /\ \A d \in Clients \ {c} : put'[d] = put[d]
      BY <1>7 DEF PutAnswered, NoPut
    <2>2. \A r \in Revisions : \A s \in shown'[r] :
             s \in shown[r] \/ (r = put[c].after /\ s = put[c].body)
      BY <1>7 DEF PutAnswered, Told, Snapshot
    <2>3. ASSUME NEW r, NEW s, Known(r, s)' PROVE Known(r, s)
      <3>1. CASE r \in Revisions /\ s \in shown'[r]
        BY <2>1, <2>2, <3>1 DEF Known
      <3>2. CASE \E d \in Clients : put'[d].pc = "answer" /\ put'[d].after = r /\ put'[d].body = s
        BY <2>1, <3>2 DEF Known
      <3> QED BY <2>3, <3>1, <3>2 DEF Known, Revisions
    <2>4. Forgets
      BY <2>3 DEF Forgets
    <2> QED BY <1>7, <2>4 DEF PutAnswered, FileMoves
  <1>8. CASE StateFile!Write /\ Save
    <2>1. shown' = shown /\ \A d \in Clients : put'[d].pc = "answer" => put'[d] = put[d]
      BY <1>8 DEF Save
    <2>2. Forgets
      BY <2>1, NothingNew DEF Forgets
    <2>3. FileMoves
      BY <1>8, <2>2 DEF FileMoves, Save, StateFile!Write
    <2> QED BY <2>3
  <1>9. CASE StateFile!Sync /\ Save
    <2>1. shown' = shown /\ \A d \in Clients : put'[d].pc = "answer" => put'[d] = put[d]
      BY <1>9 DEF Save
    <2>2. Forgets
      BY <2>1, NothingNew DEF Forgets
    <2>3. FileMoves
      BY <1>9, <2>2 DEF FileMoves, Save, StateFile!Sync
    <2> QED BY <2>3
  <1>10. CASE StateFile!Rename /\ Save
    <2>1. shown' = shown /\ \A d \in Clients : put'[d].pc = "answer" => put'[d] = put[d]
      BY <1>10 DEF Save
    <2>2. Forgets
      BY <2>1, NothingNew DEF Forgets
    <2>3. FileMoves
      BY <1>10, <2>2 DEF FileMoves, Save, StateFile!Rename, FileInv
    <2> QED BY <2>3
  <1>11. CASE StateFile!SyncDirectory /\ Save
    <2>1. shown' = shown /\ \A d \in Clients : put'[d].pc = "answer" => put'[d] = put[d]
      BY <1>11 DEF Save
    <2>2. Forgets
      BY <2>1, NothingNew DEF Forgets
    <2>3. FileMoves
      BY <1>11, <2>2 DEF FileMoves, Save, StateFile!SyncDirectory, StateFile!Reach, Files
    <2> QED BY <2>3
  <1>12. CASE StateFile!Fail /\ Save
    <2>1. shown' = shown /\ \A d \in Clients : put'[d].pc = "answer" => put'[d] = put[d]
      BY <1>12 DEF Save
    <2>2. Forgets
      BY <2>1, NothingNew DEF Forgets
    <2>3. FileMoves
      BY <1>12, <2>2 DEF FileMoves, Save, StateFile!Fail
    <2> QED BY <2>3
  <1>13. CASE StateFile!SyncDirectoryFails /\ unsure' = TRUE /\ Save
    BY <1>13 DEF StateFile!SyncDirectoryFails, Save, Files
  <1>14. CASE Edit \/ Hangup \/ Reload
    BY <1>14 DEF Edit, Files, Hangup, ReloadBegins, ReloadReads, NoReload, ReloadReplaces,
        Snapshot, Matches, Reload
  <1>15. CASE Flush
    <2>1. shown' = shown /\ \A d \in Clients : put'[d].pc = "answer" => put'[d] = put[d]
      BY <1>15 DEF Flush
    <2>2. Forgets
      BY <2>1, NothingNew DEF Forgets
    <2>3. FileMoves
      BY <1>15, <2>2 DEF FileMoves, Flush, StateFile!Flush, StateFile!Reach, Files
    <2> QED BY <2>3
  <1>16. CASE Down
    <2>1. shown' = shown /\ \A d \in Clients : put'[d].pc = "idle"
      BY <1>16 DEF Down, NoPut
    <2>2. Forgets
      BY <2>1, NothingNew DEF Forgets
    <2> QED BY <1>16, <2>2 DEF Down, Ends, StateFile!Crash, StateFile!PowerFails
  <1>17. CASE Restart
    <2>1. shown' = shown /\ put' = put
      BY <1>17 DEF Restart
    <2>2. Forgets
      BY <2>1, NothingNew DEF Forgets
    <2> QED BY <1>17, <2>2 DEF Restart, Starts, Snapshot
  <1>18. CASE UNCHANGED vars
    <2>1. shown' = shown /\ \A d \in Clients : put'[d].pc = "answer" => put'[d] = put[d]
      BY <1>18 DEF vars
    <2>2. Forgets
      BY <2>1, NothingNew DEF Forgets
    <2>3. FileMoves
      BY <1>18, <2>2 DEF FileMoves, vars
    <2> QED BY <2>3
  <1> QED BY <1>1, <1>2, <1>3, <1>4, <1>5, <1>6, <1>7, <1>8, <1>9, <1>10, <1>11, <1>12, <1>13,
        <1>14, <1>15, <1>16, <1>17, <1>18
     DEF Next, Api, Save, StateFile!WriteState, Reload

LEMMA SeenStep ==
    /\ SubTypes /\ LockInv /\ KnownInv /\ SeenInv
    /\ [Next]_vars
    => SeenInv'
  <1> SUFFICES ASSUME SubTypes, LockInv, KnownInv, SeenInv, [Next]_vars PROVE SeenInv'
    OBVIOUS
  <1>0. Durable' => Durable
    BY DurableStays
  <1> USE <1>0 DEF SubTypes, Requests, LockInv, SeenInv,
             tableVars, fileVars, reloadVars, outerVars
  <1>1. CASE Get
    BY <1>1 DEF Get, Told, Snapshot
  <1>2. ASSUME NEW c \in Clients, Put(c) PROVE SeenInv'
    <2>1. \A r \in Revisions : Durable /\ shown[r] # {} => r <= current.revision
      BY <1>2 DEF Put, KnownInv, Known, Revisions
    <2>2. PICK body \in Bodies, expected \in {Unconditional} \cup {r \in Revisions : shown[r] # {}} :
             put' = [put EXCEPT ![c] = [pc |-> "replace", before |-> current.revision,
                                        expected |-> expected, body |-> body, after |-> 0]]
      BY <1>2 DEF Put
    <2> QED BY <1>2, <2>1, <2>2 DEF Put, Durable
  <1>3. ASSUME NEW c \in Clients, PutRefused(c) PROVE SeenInv'
    BY <1>3 DEF PutRefused, NoPut, Bodies, Unconditional, Matches
  <1>4. ASSUME NEW c \in Clients, PutCommits(c) PROVE SeenInv'
    BY <1>4 DEF PutCommits, StateFile!Begin, StateFile!File, Matches
  <1>5. ASSUME NEW c \in Clients, PutNotSaved(c) PROVE SeenInv'
    BY <1>5 DEF PutNotSaved, StateFile!Return, NoPut, Bodies, Unconditional, Matches
  <1>6. ASSUME NEW c \in Clients, PutPublishes(c) PROVE SeenInv'
    BY <1>6 DEF PutPublishes, StateFile!Return, Snapshot, Matches
  <1>7. ASSUME NEW c \in Clients, PutAnswered(c) PROVE SeenInv'
    BY <1>7 DEF PutAnswered, Told, Snapshot, NoPut, Bodies, Unconditional, Matches
  <1>8. CASE (StateFile!Write \/ StateFile!Sync \/ StateFile!Fail) /\ Save
    BY <1>8 DEF StateFile!Write, Save, StateFile!Sync, StateFile!Fail
  <1>9. CASE StateFile!Rename /\ Save
    BY <1>9 DEF StateFile!Rename, Save, Files
  <1>10. CASE StateFile!SyncDirectory /\ Save
    BY <1>10 DEF StateFile!SyncDirectory, Save, StateFile!Reach, Files
  <1>11. CASE StateFile!SyncDirectoryFails /\ unsure' = TRUE /\ Save
    BY <1>11 DEF StateFile!SyncDirectoryFails, Save
  <1>12. CASE Edit \/ Hangup \/ Reload
    BY <1>12 DEF Edit, Hangup, ReloadBegins, ReloadReads, NoReload, ReloadReplaces, Snapshot,
        Matches, Reload
  <1>13. CASE Flush
    BY <1>13 DEF Flush, StateFile!Flush, StateFile!Reach, Files
  <1>14. CASE Down
    BY <1>14 DEF Down, StateFile!Crash, StateFile!PowerFails, Snapshot, NoPut, NoReload,
        Bodies, Unconditional, Matches
  <1>15. CASE Restart
    BY <1>15 DEF Restart, Snapshot, Matches
  <1>16. CASE UNCHANGED vars
    BY <1>16 DEF vars
  <1> QED BY <1>1, <1>2, <1>3, <1>4, <1>5, <1>6, <1>7, <1>8, <1>9, <1>10, <1>11, <1>12, <1>13,
        <1>14, <1>15, <1>16
     DEF Next, Api, Save, StateFile!WriteState, Reload

-----------------------------------------------------------------------------
(* Revisions are bounded by the changes                                    *)

\* The requests that may still become a revision, each counted as a change.
Active == {c \in Clients : put[c].pc \in {"replace", "commit"}}

BoundInv ==
    /\ IsFiniteSet(Active)
    /\ source = "api" => current.revision + Cardinality(Active) <= changes
    /\ step \in {"write", "sync", "rename", "directory", "done"} => temp.revision <= changes
    /\ source = "api" => state.revision <= changes /\ disk.revision <= changes

LEMMA BoundStart == Init => BoundInv
  <1> SUFFICES ASSUME Init PROVE BoundInv
    OBVIOUS
  <1>1. Active = {}
    BY DEF Init, Active, NoPut
  <1>2. IsFiniteSet(Active) /\ Cardinality(Active) = 0
    BY <1>1, FS_EmptySet
  <1>3. step = "idle" /\ state.revision = 0 /\ disk.revision = 0 /\ changes = 0
    BY DEF Init, StateFile!Init, StateFile!File
  <1>4. source = "api" => current.revision = 0
    BY DEF Init, Snapshot
  <1> QED BY <1>2, <1>3, <1>4 DEF BoundInv

\* Nobody begins a request: what is bounded stays so, unless it grows.
LEMMA ActiveShrinks ==
    ASSUME BoundInv, NEW n \in Nat, n = Cardinality(Active), Active' \subseteq Active
    PROVE  IsFiniteSet(Active') /\ Cardinality(Active') \in Nat /\ Cardinality(Active') <= n
  BY FS_Subset, FS_CardinalityType DEF BoundInv

LEMMA BoundStep ==
    /\ SubTypes /\ LockInv /\ FileInv /\ BoundInv
    /\ [Next]_vars
    => BoundInv'
  <1> SUFFICES ASSUME SubTypes, LockInv, FileInv, BoundInv, [Next]_vars PROVE BoundInv'
    OBVIOUS
  <1>0. PICK n \in Nat : n = Cardinality(Active)
    BY FS_CardinalityType DEF BoundInv
  <1> USE <1>0 DEF SubTypes, Requests, LockInv,
             tableVars, fileVars, reloadVars, outerVars
  <1>1. CASE Get
    <2>1. Active' = Active
      BY <1>1 DEF Active, Get
    <2> QED BY <1>1, <2>1 DEF BoundInv, Get
  <1>2. ASSUME NEW c \in Clients, Put(c) PROVE BoundInv'
    <2>1. c \notin Active /\ Active' = Active \cup {c}
      BY <1>2 DEF Active, Put
    <2>2. IsFiniteSet(Active') /\ Cardinality(Active') = n + 1
      BY <2>1, FS_AddElement DEF BoundInv
    <2>3. changes' = changes + 1 /\ UNCHANGED <<current, temp, step, state, disk, source>>
      BY <1>2 DEF Put
    <2> QED BY <2>2, <2>3 DEF BoundInv, Files
  <1>3. ASSUME NEW c \in Clients, PutRefused(c) PROVE BoundInv'
    <2>1. Active' \subseteq Active
      BY <1>3 DEF Active, PutRefused, NoPut
    <2> QED BY <1>3, <2>1, ActiveShrinks DEF BoundInv, PutRefused
  <1>4. ASSUME NEW c \in Clients, PutCommits(c) PROVE BoundInv'
    <2>1. c \in Active /\ Active' = Active
      BY <1>4 DEF Active, PutCommits
    <2>2. n # 0
      BY <2>1, FS_EmptySet DEF BoundInv
    <2>3. temp'.revision = current.revision + 1 /\ source = "api"
      BY <1>4 DEF PutCommits, StateFile!Begin, StateFile!File
    <2>4. current.revision + 1 <= changes
      <3>1. current.revision + n <= changes
        BY <2>3 DEF BoundInv
      <3> QED BY <2>2, <3>1, SubscriptionsAssumption
    <2>5. UNCHANGED <<current, state, disk, changes, source>>
      BY <1>4 DEF PutCommits, StateFile!Begin
    <2> QED BY <2>1, <2>3, <2>4, <2>5 DEF BoundInv
  <1>5. ASSUME NEW c \in Clients, PutNotSaved(c) PROVE BoundInv'
    <2>1. Active' \subseteq Active
      BY <1>5 DEF Active, PutNotSaved, NoPut
    <2> QED BY <1>5, <2>1, ActiveShrinks DEF BoundInv, PutNotSaved, StateFile!Return
  <1>6. ASSUME NEW c \in Clients, PutPublishes(c) PROVE BoundInv'
    <2>1. c \in Active /\ Active' = Active \ {c}
      BY <1>6 DEF Active, PutPublishes
    <2>2. IsFiniteSet(Active') /\ Cardinality(Active') = n - 1
      BY <2>1, FS_RemoveElement DEF BoundInv
    <2>3. current'.revision = current.revision + 1 /\ step' = "idle" /\ UNCHANGED <<state, disk, changes, source>>
      BY <1>6 DEF PutPublishes, StateFile!Return, Snapshot
    <2> QED BY <2>2, <2>3 DEF BoundInv
  <1>7. ASSUME NEW c \in Clients, PutAnswered(c) PROVE BoundInv'
    <2>1. Active' = Active
      BY <1>7 DEF Active, PutAnswered, NoPut
    <2> QED BY <1>7, <2>1 DEF BoundInv, PutAnswered
  <1>8. CASE StateFile!Write /\ Save
    <2>1. Active' = Active
      BY <1>8 DEF Active, Save
    <2> QED BY <1>8, <2>1 DEF BoundInv, Save, StateFile!Write
  <1>9. CASE StateFile!Sync /\ Save
    <2>1. Active' = Active
      BY <1>9 DEF Active, Save
    <2> QED BY <1>9, <2>1 DEF BoundInv, Save, StateFile!Sync
  <1>10. CASE StateFile!Rename /\ Save
    <2>1. Active' = Active
      BY <1>10 DEF Active, Save
    <2> QED BY <1>10, <2>1 DEF BoundInv, Save, StateFile!Rename, FileInv
  <1>11. CASE StateFile!SyncDirectory /\ Save
    <2>1. Active' = Active
      BY <1>11 DEF Active, Save
    <2> QED BY <1>11, <2>1 DEF BoundInv, Save, StateFile!SyncDirectory, StateFile!Reach, Files
  <1>12. CASE StateFile!Fail /\ Save
    <2>1. Active' = Active
      BY <1>12 DEF Active, Save
    <2> QED BY <1>12, <2>1 DEF BoundInv, Save, StateFile!Fail
  <1>13. CASE StateFile!SyncDirectoryFails /\ unsure' = TRUE /\ Save
    <2>1. Active' = Active
      BY <1>13 DEF Active, Save
    <2> QED BY <1>13, <2>1 DEF BoundInv, Save, StateFile!SyncDirectoryFails
  <1>14. CASE Edit
    <2>1. Active' = Active
      BY <1>14 DEF Active, Edit
    <2> QED BY <1>14, <2>1 DEF BoundInv, Edit
  <1>15. CASE Hangup
    <2>1. Active' = Active
      BY <1>15 DEF Active, Hangup
    <2> QED BY <1>15, <2>1 DEF BoundInv, Hangup
  <1>16. CASE ReloadBegins
    <2>1. Active' = Active
      BY <1>16 DEF Active, ReloadBegins
    <2> QED BY <1>16, <2>1 DEF BoundInv, ReloadBegins
  <1>17. CASE ReloadReads
    <2>1. Active' = Active
      BY <1>17 DEF Active, ReloadReads
    <2> QED BY <1>17, <2>1 DEF BoundInv, ReloadReads
  <1>18. CASE ReloadReplaces
    <2>1. Active' = Active
      BY <1>18 DEF Active, ReloadReplaces
    <2> QED BY <1>18, <2>1 DEF BoundInv, ReloadReplaces
  <1>19. CASE Flush
    <2>1. Active' = Active
      BY <1>19 DEF Active, Flush
    <2> QED BY <1>19, <2>1 DEF BoundInv, Flush, StateFile!Flush, StateFile!Reach, Files
  <1>20. CASE Down
    <2>1. Active' \subseteq Active
      BY <1>20 DEF Active, Down, NoPut
    <2> QED BY <1>20, <2>1, ActiveShrinks DEF BoundInv, Down, StateFile!Crash, StateFile!PowerFails, Snapshot
  <1>21. CASE Restart
    <2>1. Active = {} /\ Active' = {}
      BY <1>21 DEF Active, Restart
    <2>2. n = 0
      BY <2>1, FS_EmptySet DEF BoundInv
    <2>3. source = "api" => current'.revision = state.revision
      BY <1>21 DEF Restart, Snapshot
    <2> QED BY <1>21, <2>1, <2>2, <2>3 DEF BoundInv, Restart, Files
  <1>22. CASE UNCHANGED vars
    <2>1. Active' = Active
      BY <1>22 DEF Active, vars
    <2> QED BY <1>22, <2>1 DEF BoundInv, vars
  <1> QED BY <1>1, <1>2, <1>3, <1>4, <1>5, <1>6, <1>7, <1>8, <1>9, <1>10, <1>11, <1>12, <1>13,
        <1>14, <1>15, <1>16, <1>17, <1>18, <1>19, <1>20, <1>21, <1>22
     DEF Next, Api, Save, StateFile!WriteState, Reload

-----------------------------------------------------------------------------
(* What follows                                                            *)

SubInv == /\ SubTypes /\ LockInv /\ FileInv /\ BoundInv
          /\ DiskInv /\ KnownInv /\ SeenInv

LEMMA Invariance == Spec => []SubInv
  <1>1. Init => SubInv
    BY Start, BoundStart, KnownStart DEF SubInv
  <1>2. SubInv /\ [Next]_vars => SubInv'
    BY TypesStep, LockStep, FileStep, BoundStep, DiskStep, KnownStep, SeenStep DEF SubInv
  <1> QED BY <1>1, <1>2, PTL DEF Spec

LEMMA RevisionInRange == SubInv /\ source = "api" => current.revision \in Revisions
  <1> SUFFICES ASSUME SubInv, source = "api" PROVE current.revision \in Revisions
    OBVIOUS
  <1>1. PICK n \in Nat : n = Cardinality(Active)
    BY FS_CardinalityType DEF SubInv, BoundInv
  <1> QED BY <1>1, SubscriptionsAssumption DEF SubInv, BoundInv, SubTypes, Revisions

\* What is served is what is saved, and what a client was told of a revision is
\* never ahead of the disk, which never holds a torn file: a crash of the process
\* or of the machine takes none of it back.
THEOREM ShownIsDurableHolds == Spec => []ShownIsDurable
  <1>1. SubInv => ShownIsDurable
    <2> SUFFICES ASSUME SubInv PROVE ShownIsDurable
      OBVIOUS
    <2>1. PublishedIsSaved
      BY DEF SubInv, SubTypes, LockInv, FileInv, PublishedIsSaved, Snapshot, Files
    <2>2. disk # StateFile!Torn /\ state # StateFile!Torn
      BY SubscriptionsAssumption DEF SubInv, SubTypes, Files, StateFile!Torn, StateFile!File
    <2>3. ASSUME Durable, NEW r \in Revisions, shown[r] # {} PROVE disk.revision >= r
      <3>1. PICK s \in Specs : s \in shown[r]
        BY <2>3 DEF SubInv, SubTypes
      <3>2. Known(r, s) /\ r \in Nat
        BY <3>1 DEF Known, Revisions
      <3> QED BY <2>3, <3>1, <3>2 DEF SubInv, KnownInv, SubTypes, Files
    <2> QED BY <2>1, <2>2, <2>3 DEF ShownIsDurable
  <1> QED BY Invariance, <1>1, PTL

\* A revision names one list of subscriptions for ever, over restarts.
THEOREM RevisionNamesSpecHolds == Spec => []RevisionNamesSpec
  <1>1. SubInv => RevisionNamesSpec
    <2> SUFFICES ASSUME SubInv, Durable PROVE
                 /\ \A r \in Revisions : Cardinality(shown[r]) <= 1
                 /\ up => shown[current.revision] \subseteq {current.spec}
      BY DEF RevisionNamesSpec
    <2>1. \A r \in Revisions : \A s \in shown[r] : s \in Specs /\ Known(r, s) /\ r \in Nat
      BY DEF SubInv, SubTypes, Known, Revisions
    <2>2. ASSUME NEW r \in Revisions PROVE Cardinality(shown[r]) <= 1
      <3>1. CASE shown[r] = {}
        BY <3>1, FS_EmptySet
      <3>2. CASE shown[r] # {}
        <4>1. PICK s : s \in shown[r]
          BY <3>2
        <4>2. shown[r] = {s}
          BY <2>1, <4>1 DEF SubInv, KnownInv
        <4>3. Cardinality(shown[r]) = 1
          BY <4>2, FS_Singleton
        <4> QED BY <4>3
      <3> QED BY <3>1, <3>2
    <2>3. ASSUME up PROVE shown[current.revision] \subseteq {current.spec}
      BY <2>1, <2>3, RevisionInRange DEF SubInv, KnownInv, Durable
    <2> QED BY <2>2, <2>3
  <1> QED BY Invariance, <1>1, PTL

\* A replacement under If-Match replaces the list its client was told: of two
\* from the same revision, one is refused.
THEOREM ConditionalReplacesSeenHolds == Spec => ConditionalReplacesSeen
  <1> DEFINE Step == \A c \in Clients :
               put[c].pc = "commit" /\ put'[c].pc = "answer" /\ put[c].expected # Unconditional /\ Durable =>
                  /\ shown[put[c].expected] = {current.spec}
                  /\ current'.revision = put[c].expected + 1
  <1>1. SubInv /\ [Next]_vars => [Step]_vars
    <2> SUFFICES ASSUME SubInv, Next, NEW c \in Clients,
                        put[c].pc = "commit", put'[c].pc = "answer",
                        put[c].expected # Unconditional, Durable
                 PROVE  /\ shown[put[c].expected] = {current.spec}
                        /\ current'.revision = put[c].expected + 1
      BY DEF vars
    <2>1. put[c].expected = current.revision /\ up
      BY DEF SubInv, LockInv, Matches
    <2>2. shown[put[c].expected] # {} /\ put[c].expected \in Revisions
      BY DEF SubInv, SeenInv
    <2>3. shown[put[c].expected] = {current.spec}
      <3>1. \A s \in shown[put[c].expected] : s \in Specs /\ Known(current.revision, s)
        BY <2>1, <2>2 DEF SubInv, SubTypes, Known
      <3>2. current.revision \in Nat
        BY <2>1, <2>2 DEF Revisions
      <3>3. \A s \in shown[put[c].expected] : s = current.spec
        BY <2>1, <3>1, <3>2 DEF SubInv, KnownInv
      <3> QED BY <2>2, <3>3
    <2>4. PutPublishes(c)
      <3> USE DEF SubInv, SubTypes, Requests, LockInv
      <3>1. ASSUME NEW d \in Clients,
                   Put(d) \/ PutRefused(d) \/ PutNotSaved(d) \/ PutAnswered(d)
            PROVE  FALSE
        BY <3>1 DEF Put, PutRefused, PutNotSaved, PutAnswered, NoPut
      <3>2. ASSUME NEW d \in Clients, PutCommits(d) PROVE FALSE
        BY <3>2 DEF PutCommits
      <3>3. ASSUME NEW d \in Clients, PutPublishes(d) PROVE d = c
        BY <3>3 DEF PutPublishes
      <3>4. CASE Get \/ Save \/ Edit \/ Hangup \/ Reload \/ Flush \/ Restart
        BY <3>4 DEF Get, Save, Edit, Hangup, Reload, ReloadBegins, ReloadReads, ReloadReplaces,
                    Flush, Restart
      <3>5. CASE Down
        BY <3>5 DEF Down, NoPut
      <3> QED BY <3>1, <3>2, <3>3, <3>4, <3>5 DEF Next, Api
    <2>5. current'.revision = current.revision + 1
      BY <2>4 DEF PutPublishes, Snapshot
    <2> QED BY <2>1, <2>3, <2>5
  <1> QED BY Invariance, <1>1, PTL DEF ConditionalReplacesSeen, Spec

\* The audit's revision_before, read outside the lock, is earlier than
\* revision_after, and the one that was replaced when there was an If-Match.
THEOREM AuditBracketsHolds == Spec => []AuditBrackets
  <1>1. SubInv => AuditBrackets
    BY DEF SubInv, SeenInv, AuditBrackets
  <1> QED BY Invariance, <1>1, PTL
=============================================================================
