--------------------------- MODULE Subscriptions ---------------------------
(***************************************************************************)
(* The live subscriptions (internal/app/tagstrak): SubscriptionTable, its  *)
(* replacement through the management API (controlapi.go) with the state   *)
(* file, or through SIGHUP from the configuration file (configure.go,      *)
(* cmd/tagstrak), crashes and restarts.                                    *)
(*                                                                         *)
(* Clients send revisions they were told, and any body: a list of          *)
(* subscriptions, one that does not compile, or one whose state file would *)
(* be too large. What is refused before the table is reached (a malformed  *)
(* request, a PUT when the configuration file owns the subscriptions)      *)
(* changes nothing, and is left out.                                       *)
(***************************************************************************)
EXTENDS Naturals, FiniteSets

CONSTANTS Clients,         \* of the management API
          Specs, Empty,    \* lists of subscriptions, and the empty one
          MaxChanges,      \* bound: PUTs and hangups
          MaxCrashes       \* bound

ASSUME SubscriptionsAssumption ==
    /\ Empty \in Specs
    /\ "torn" \notin Specs /\ "free" \notin Clients
    /\ MaxChanges \in Nat /\ MaxCrashes \in Nat

VARIABLES
    source,    \* who owns the subscriptions: "api" or "file"
    up,        \* the process runs
    current,   \* the published snapshot: revision and specification
    lock,      \* who holds SubscriptionTable.mu
    step, temp, state, disk,  \* StateFile
    put,       \* per client, its PUT request
    config,    \* the subscriptions in the configuration file, or "invalid"
    hangup,    \* a SIGHUP waits in its channel
    reload,    \* where the reload goroutine is, and what it has read
    changes, crashes,  \* how many there were
    shown,     \* history: what clients were told of each revision
    unsure,    \* history: a directory was not synced before its file was used
    owed       \* history: a SIGHUP followed the last edit of the configuration

tableVars  == <<current, lock>>
fileVars   == <<step, temp, state, disk>>
reloadVars == <<hangup, reload, owed>>
outerVars  == <<source, up, config, changes, crashes, unsure>>
vars == <<tableVars, fileVars, reloadVars, outerVars, put, shown>>

StateFile == INSTANCE StateFile

Revisions == 0..(MaxChanges + 1)
Unconditional == MaxChanges + 2  \* no If-Match
Bodies == Specs \cup {"uncompilable", "large"}
Snapshot(revision, spec) == [revision |-> revision, spec |-> spec]

NoPut == [pc |-> "idle", before |-> 0, expected |-> Unconditional, body |-> Empty, after |-> 0]
NoReload == [pc |-> "idle", spec |-> Empty]

\* Pipeline: the table is loaded before anything can use it.
Init ==
    /\ StateFile!Init
    /\ source \in {"api", "file"} /\ up = TRUE
    /\ config \in IF source = "api" THEN {Empty} ELSE Specs
    /\ current = IF source = "api" THEN Snapshot(0, Empty) ELSE Snapshot(1, config)
    /\ lock = "free"
    /\ put = [c \in Clients |-> NoPut]
    /\ hangup = FALSE /\ reload = NoReload
    /\ changes = 0 /\ crashes = 0
    /\ shown = [r \in Revisions |-> {}] /\ owed = FALSE /\ unsure = FALSE

-----------------------------------------------------------------------------
(* The management API                                                      *)

Told(s) == shown' = [shown EXCEPT ![s.revision] = @ \cup {s.spec}]

Get == /\ up
       /\ Told(current)
       /\ UNCHANGED <<tableVars, fileVars, reloadVars, outerVars, put>>

\* The request arrives; its handler reads the revision for the audit.
Put(c) ==
    /\ up /\ source = "api" /\ put[c].pc = "idle" /\ changes < MaxChanges
    /\ \E body \in Bodies, expected \in {Unconditional} \cup {r \in Revisions : shown[r] # {}} :
          put' = [put EXCEPT ![c] = [pc |-> "replace", before |-> current.revision,
                                     expected |-> expected, body |-> body, after |-> 0]]
    /\ changes' = changes + 1
    /\ UNCHANGED <<tableVars, fileVars, reloadVars, source, up, config, crashes, unsure, shown>>

\* Mutant: the precondition is looked at when the request arrives.
MatchesEarly(c) == put[c].expected \in {Unconditional, put[c].before}

\* Mutant: any revision up to the current one will do.
MatchesOlder(c) == put[c].expected = Unconditional \/ put[c].expected <= current.revision

\* If-Match allows c's replacement.
Matches(c) == put[c].expected \in {Unconditional, current.revision}

\* Replace takes the lock and returns at once: the revision is not the expected
\* one, the specification does not compile, or its state file would be too large.
PutRefused(c) ==
    /\ put[c].pc = "replace" /\ lock = "free"
    /\ ~Matches(c) \/ put[c].body \notin Specs
    /\ put' = [put EXCEPT ![c] = NoPut]
    /\ UNCHANGED <<tableVars, fileVars, reloadVars, outerVars, shown>>

\* It compiles the next snapshot, and has it committed.
PutCommits(c) ==
    /\ put[c].pc = "replace" /\ lock = "free"
    /\ Matches(c) /\ put[c].body \in Specs
    /\ lock' = c
    /\ StateFile!Begin(current.revision + 1, put[c].body)
    /\ put' = [put EXCEPT ![c].pc = "commit"]
    /\ UNCHANGED <<current, reloadVars, outerVars, shown>>

Save == /\ \/ StateFile!WriteState /\ UNCHANGED unsure
           \/ StateFile!SyncDirectoryFails /\ unsure' = TRUE
        /\ UNCHANGED <<tableVars, reloadVars, source, up, config, changes, crashes, put, shown>>

\* The state file could not be written: nothing is published.
PutNotSaved(c) ==
    /\ put[c].pc = "commit" /\ StateFile!Return("failed")
    /\ lock' = "free"
    /\ put' = [put EXCEPT ![c] = NoPut]
    /\ UNCHANGED <<current, reloadVars, outerVars, shown>>

\* Mutant: the next snapshot is published before its file is on the disk.
PutPublishesEarly(c) ==
    /\ put[c].pc = "commit" /\ step \in {"directory", "done"} /\ step' = "idle"
    /\ UNCHANGED <<temp, state, disk>>
    /\ current' = Snapshot(current.revision + 1, put[c].body)
    /\ lock' = "free"
    /\ put' = [put EXCEPT ![c] = [@ EXCEPT !.pc = "answer", !.after = current.revision + 1]]
    /\ UNCHANGED <<reloadVars, outerVars, shown>>

PutPublishes(c) ==
    /\ put[c].pc = "commit" /\ StateFile!Return("done")
    /\ current' = Snapshot(current.revision + 1, put[c].body)
    /\ lock' = "free"
    /\ put' = [put EXCEPT ![c] = [@ EXCEPT !.pc = "answer", !.after = current.revision + 1]]
    /\ UNCHANGED <<reloadVars, outerVars, shown>>

PutAnswered(c) ==
    /\ put[c].pc = "answer"
    /\ Told(Snapshot(put[c].after, put[c].body))
    /\ put' = [put EXCEPT ![c] = NoPut]
    /\ UNCHANGED <<tableVars, fileVars, reloadVars, outerVars>>

Api == \E c \in Clients : \/ PutRefused(c) \/ PutCommits(c) \/ PutNotSaved(c)
                          \/ PutPublishes(c) \/ PutAnswered(c)

-----------------------------------------------------------------------------
(* The configuration file, SIGHUP and reloadOnHangup                       *)

Edit == /\ source = "file"
        /\ config' \in (Specs \cup {"invalid"}) \ {config}
        /\ owed' = FALSE
        /\ UNCHANGED <<tableVars, fileVars, hangup, reload, source, up, changes, crashes, unsure,
                       put, shown>>

\* Mutant: the channel has no room while a reload is under way.
HangupUnbuffered ==
    /\ up /\ source = "file" /\ changes < MaxChanges
    /\ hangup' = (reload.pc = "idle") /\ owed' = TRUE
    /\ changes' = changes + 1
    /\ UNCHANGED <<tableVars, fileVars, reload, source, up, config, crashes, unsure, put, shown>>

\* The channel holds one signal; another is dropped.
Hangup ==
    /\ up /\ source = "file" /\ changes < MaxChanges
    /\ hangup' = TRUE /\ owed' = TRUE
    /\ changes' = changes + 1
    /\ UNCHANGED <<tableVars, fileVars, reload, source, up, config, crashes, unsure, put, shown>>

\* The goroutine takes the signal, then reads the file, then replaces.
ReloadBegins ==
    /\ up /\ reload.pc = "idle" /\ hangup
    /\ hangup' = FALSE
    /\ reload' = [reload EXCEPT !.pc = "read"]
    /\ UNCHANGED <<tableVars, fileVars, outerVars, owed, put, shown>>

ReloadReads ==
    /\ reload.pc = "read"
    /\ reload' = IF config = "invalid" THEN NoReload ELSE [pc |-> "replace", spec |-> config]
    /\ UNCHANGED <<tableVars, fileVars, outerVars, hangup, owed, put, shown>>

ReloadReplaces ==
    /\ reload.pc = "replace" /\ lock = "free"
    /\ current' = Snapshot(current.revision + 1, reload.spec)
    /\ reload' = NoReload
    /\ UNCHANGED <<lock, fileVars, outerVars, hangup, owed, put, shown>>

Reload == ReloadBegins \/ ReloadReads \/ ReloadReplaces

-----------------------------------------------------------------------------
(* Crashes and restarts                                                    *)

Flush == /\ StateFile!Flush
         /\ UNCHANGED <<tableVars, reloadVars, outerVars, put, shown>>

\* The process or the machine goes down. Clients hear nothing more.
Down == /\ up /\ crashes < MaxCrashes
        /\ up' = FALSE /\ crashes' = crashes + 1
        /\ StateFile!Crash \/ StateFile!PowerFails
        /\ current' = Snapshot(0, Empty) /\ lock' = "free"
        /\ put' = [c \in Clients |-> NoPut]
        /\ hangup' = FALSE /\ reload' = NoReload /\ owed' = FALSE
        /\ UNCHANGED <<source, config, changes, unsure, shown>>

\* Mutant: a restart begins a revision of its own.
RestartNext ==
    /\ ~up
    /\ IF source = "api"
       THEN state # StateFile!Torn /\ current' = Snapshot(state.revision + 1, state.spec)
       ELSE config # "invalid" /\ current' = Snapshot(1, config)
    /\ up' = TRUE
    /\ unsure' = (unsure \/ state # disk)
    /\ UNCHANGED <<lock, fileVars, reloadVars, source, config, changes, crashes, put, shown>>

\* Pipeline loads the state file, or the configuration file at revision 1.
Restart ==
    /\ ~up
    /\ IF source = "api"
       THEN state # StateFile!Torn /\ current' = Snapshot(state.revision, state.spec)
       ELSE config # "invalid" /\ current' = Snapshot(1, config)
    /\ up' = TRUE
    /\ unsure' = (unsure \/ state # disk)
    /\ UNCHANGED <<lock, fileVars, reloadVars, source, config, changes, crashes, put, shown>>

Next == \/ Get \/ (\E c \in Clients : Put(c)) \/ Api \/ Save \/ Edit \/ Hangup \/ Reload
        \/ Flush \/ Down \/ Restart

Spec == Init /\ [][Next]_vars

\* The reload goroutine is scheduled.
FairSpec == Spec /\ WF_vars(Reload)

-----------------------------------------------------------------------------

\* The published snapshot is the saved one, but while a replacement is between
\* its rename and its publication, when the next one is saved already.
PublishedIsSaved ==
    up /\ source = "api" =>
        \/ current = Snapshot(state.revision, state.spec)
        \/ /\ step \in {"directory", "done"} /\ lock # "free"
           /\ state.revision = current.revision + 1 /\ state.spec = put[lock].body

\* Syncing the directory has worked whenever it was tried, and no process has
\* started from a renamed file whose directory its predecessor died before
\* syncing: LoadState does not sync it either.
Durable == source = "api" /\ ~unsure

\* What is served is what is saved, and
\* what a client was told of a revision outlives a crash of the process and of
\* the machine: the disk never goes back behind it, and never holds a torn file.
ShownIsDurable ==
    /\ PublishedIsSaved
    /\ Durable =>
        /\ disk # StateFile!Torn /\ state # StateFile!Torn
        /\ \A r \in Revisions : shown[r] # {} => disk.revision >= r

\* A revision, sent as the ETag, names one specification for ever, over
\* restarts: no client's If-Match means another list than the one it was told.
RevisionNamesSpec ==
    Durable =>
        /\ \A r \in Revisions : Cardinality(shown[r]) <= 1
        /\ up => shown[current.revision] \subseteq {current.spec}

\* A replacement under If-Match replaces the list its client was told, and no
\* other: of two from the same revision, one is refused.
ConditionalReplacesSeen ==
    [][\A c \in Clients :
          put[c].pc = "commit" /\ put'[c].pc = "answer" /\ put[c].expected # Unconditional /\ Durable =>
              /\ shown[put[c].expected] = {current.spec}
              /\ current'.revision = put[c].expected + 1]_vars

\* revision_before of the audit is read outside the lock. It is the revision
\* that was replaced when the request had an If-Match, and otherwise no later one.
AuditBrackets ==
    \A c \in Clients : put[c].pc = "answer" =>
        /\ put[c].before < put[c].after
        /\ put[c].expected # Unconditional /\ Durable => put[c].before = put[c].after - 1

\* The last SIGHUP after the last edit takes effect, unless the file is invalid
\* or the process goes down, however many signals came during a reload.
HangupTakesEffect ==
    owed ~> ~owed \/ config = "invalid" \/ current.spec = config
=============================================================================
