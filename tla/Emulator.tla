------------------------------ MODULE Emulator ------------------------------
(***************************************************************************)
(* internal/emulator: the server with its client slots (server.go), each   *)
(* connection's serve loop with its keepalives (session.go), the frames of *)
(* its cycles (reports.go), and the catalogue every cursor reads           *)
(* (scenario.go).                                                          *)
(*                                                                         *)
(* A peer may send anything and read or not; any read and write may fail,  *)
(* for the peer, a deadline, or the watcher that closes a cancelled        *)
(* connection. Tags are left out: a frame is its cycle, its number in the   *)
(* cycle, and how often the random source was used before it, on which its *)
(* order depends.                                                          *)
(***************************************************************************)
EXTENDS Integers, FiniteSets, SequencesExt

CONSTANTS
    Conns,          \* connections peers open, each once
    ClientLimits,   \* the values of MaxClients to try
    Scenarios,      \* [frames: how many each cycle fills, repeat: BOOLEAN]
    Openings,       \* the sets of peers that come in one behaviour
    Talkers,        \* those that send or close after the handshake
    MaxReplacements, MaxFrames, MaxKeepalives  \* bounds of the model

ASSUME EmulatorAssumption ==
    /\ ClientLimits \subseteq Nat \ {0}
    /\ Scenarios \subseteq [frames : Seq(Nat \ {0}) \ {<<>>}, repeat : BOOLEAN]
    /\ MaxReplacements \in Nat
    /\ MaxFrames \in [Conns -> Nat] /\ MaxKeepalives \in [Conns -> Nat]

VARIABLES
    maxClients,     \* Config.MaxClients, the same all along
    peers,          \* who will connect
    server,         \* "new", "running", "joining" its clients, "done"
    cancelled,      \* the context of Run
    slots,          \* who holds a slot
    status,         \* clients, accepted, rejected, failures
    scenario, revision,  \* the catalogue
    pc, err,        \* of each connection's serve, and what it returned
    cursor,         \* its Cursor: revision, index and uses of its random
    left,           \* frames of the cycle under way
    report, keepalive,   \* its timers: "off", "armed", "due"
    ack,            \* the awaited acknowledgement: "none", "awaited", "due"
    pending,        \* the last keepalive sent
    reader, read,   \* its read worker, and the message that holds
    input,          \* its queue of one message
    sent            \* history: the frames written to it, of each revision

serverVars == <<peers, maxClients, server, cancelled, slots, status>>
catalog == <<scenario, revision>>
session == <<pc, err, cursor, left, report, keepalive, ack, pending, reader, read, input, sent>>
vars == <<serverVars, catalog, session>>

Revisions == 1..(MaxReplacements + 1)

Fresh == [revision |-> 0, index |-> 0, random |-> 0]

Init ==
    /\ maxClients \in ClientLimits /\ peers \in Openings
    /\ server = "new" /\ cancelled = FALSE /\ slots = {}
    /\ status = [clients |-> 0, accepted |-> 0, rejected |-> 0, failures |-> 0]
    /\ scenario \in Scenarios /\ revision = 1
    /\ pc = [c \in Conns |-> "outside"] /\ err = [c \in Conns |-> "none"]
    /\ cursor = [c \in Conns |-> Fresh]
    /\ left = [c \in Conns |-> 0]
    /\ report = [c \in Conns |-> "off"] /\ keepalive = [c \in Conns |-> "off"]
    /\ ack = [c \in Conns |-> "none"] /\ pending = [c \in Conns |-> 0]
    /\ reader = [c \in Conns |-> "off"]
    /\ read = [c \in Conns |-> <<>>] /\ input = [c \in Conns |-> <<>>]
    /\ sent = [c \in Conns |-> [r \in Revisions |-> <<>>]]

\* The context of every connection's serve.
Stopping == cancelled \/ server \in {"joining", "done"}

-----------------------------------------------------------------------------
(* Run and Replace *)

\* The listener is there, or Run returns at once.
Listen == /\ server = "new"
          /\ server' \in {"running", "done"}
          /\ UNCHANGED <<peers, maxClients, cancelled, slots, status, catalog, session>>

\* Mutant: the slots are not looked at.
HasSlotAlways == TRUE

HasSlot == Cardinality(slots) < maxClients

Accept(c) == /\ server = "running" /\ pc[c] = "outside" /\ c \in peers
             /\ HasSlot
             /\ slots' = slots \cup {c}
             /\ status' = [status EXCEPT !.clients = @ + 1, !.accepted = @ + 1]
             /\ pc' = [pc EXCEPT ![c] = "handshake"]
             /\ UNCHANGED <<peers, maxClients, server, cancelled, catalog, err, cursor, left, report,
                            keepalive, ack, pending, reader, read, input, sent>>

Reject(c) == /\ server = "running" /\ pc[c] = "outside" /\ c \in peers
             /\ ~HasSlot
             /\ status' = [status EXCEPT !.rejected = @ + 1]
             /\ pc' = [pc EXCEPT ![c] = "gone"]
             /\ UNCHANGED <<peers, maxClients, server, cancelled, slots, catalog, err, cursor, left, report,
                            keepalive, ack, pending, reader, read, input, sent>>

Cancel == /\ ~cancelled
          /\ cancelled' = TRUE
          /\ UNCHANGED <<peers, maxClients, server, slots, status, catalog, session>>

\* Accept fails: the listener was closed by the watcher, or broke. Leaving Run
\* cancels every connection.
AcceptFails == /\ server = "running"
               /\ server' = "joining"
               /\ UNCHANGED <<peers, maxClients, cancelled, slots, status, catalog, session>>

\* Mutant: free slots are taken for departed clients.
JoinedSlots == server = "joining" /\ slots = {}

Joined == server = "joining" /\ \A c \in Conns : pc[c] \in {"outside", "gone"}

Return == /\ Joined
          /\ server' = "done"
          /\ UNCHANGED <<peers, maxClients, cancelled, slots, status, catalog, session>>

Replace == /\ revision <= MaxReplacements
           /\ \E s \in Scenarios : scenario' = s
           /\ revision' = revision + 1
           /\ UNCHANGED <<serverVars, session>>

-----------------------------------------------------------------------------
(* serve: leaving *)

\* serve returns e: its defers cancel and close, and wait for the read worker.
End(c, e) == /\ pc' = [pc EXCEPT ![c] = "closing"]
             /\ err' = [err EXCEPT ![c] = e]
             /\ report' = [report EXCEPT ![c] = "off"]
             /\ keepalive' = [keepalive EXCEPT ![c] = "off"]
             /\ ack' = [ack EXCEPT ![c] = "none"]
             /\ UNCHANGED <<serverVars, catalog, cursor, left, pending, reader, read, input, sent>>

Closed(c) == /\ pc[c] = "closing" /\ reader[c] = "off"
             /\ pc' = [pc EXCEPT ![c] = "release"]
             /\ status' = IF err[c] \notin {"eof", "cancelled"} /\ ~Stopping
                          THEN [status EXCEPT !.failures = @ + 1] ELSE status
             /\ UNCHANGED <<peers, maxClients, server, cancelled, slots, catalog, err, cursor, left, report,
                            keepalive, ack, pending, reader, read, input, sent>>

\* serve's variables are gone. The slot is free before the client is no longer counted.
Release(c) == /\ pc[c] = "release"
              /\ slots' = slots \ {c}
              /\ pc' = [pc EXCEPT ![c] = "leave"]
              /\ err' = [err EXCEPT ![c] = "none"]
              /\ cursor' = [cursor EXCEPT ![c] = Fresh]
              /\ left' = [left EXCEPT ![c] = 0] /\ pending' = [pending EXCEPT ![c] = 0]
              /\ input' = [input EXCEPT ![c] = <<>>]
              /\ UNCHANGED <<peers, maxClients, server, cancelled, status, catalog, report, keepalive, ack,
                             reader, read, sent>>

Leave(c) == /\ pc[c] = "leave"
            /\ status' = [status EXCEPT !.clients = @ - 1]
            /\ pc' = [pc EXCEPT ![c] = "gone"]
            /\ UNCHANGED <<peers, maxClients, server, cancelled, slots, catalog, err, cursor, left, report,
                           keepalive, ack, pending, reader, read, input, sent>>

-----------------------------------------------------------------------------
(* serve: handshake and cycles *)

\* The notification, the request, and its answer; the failure of any of them,
\* and a request other than a keepalive interval within the budget.
Handshake(c) ==
    /\ pc[c] = "handshake"
    /\ \/ /\ pc' = [pc EXCEPT ![c] = "cycle"]
          /\ reader' = [reader EXCEPT ![c] = "reading"]
          /\ UNCHANGED <<serverVars, catalog, err, cursor, left, report, keepalive, ack, pending,
                         read, input, sent>>
       \/ \E e \in {"failed", "eof"} : End(c, e)

\* Mutant: the random source of the old scenario is kept.
AdoptedAsIs(c) == IF cursor[c].revision = revision THEN cursor[c]
                  ELSE [revision |-> revision, index |-> 0, random |-> cursor[c].random]

\* The cursor with the scenario that is current, from its beginning if it is new.
Adopted(c) == IF cursor[c].revision = revision THEN cursor[c]
              ELSE [revision |-> revision, index |-> 0, random |-> 0]

\* Mutant: every cycle arms both timers.
CycleWrittenBoth(c) ==
    /\ pc' = [pc EXCEPT ![c] = "loop"]
    /\ report' = [report EXCEPT ![c] = "armed"] /\ keepalive' = [keepalive EXCEPT ![c] = "armed"]

\* Both timers are armed after the first cycle; later only the report timer,
\* which has fired.
CycleWritten(c) ==
    /\ pc' = [pc EXCEPT ![c] = "loop"]
    /\ report' = [report EXCEPT ![c] = "armed"]
    /\ keepalive' = IF report[c] = "off" THEN [keepalive EXCEPT ![c] = "armed"] ELSE keepalive

\* Cursor.Next: a scenario that does not repeat is exhausted after its cycles.
NextCycle(c) ==
    LET k == Adopted(c)
        over == k.index = Len(scenario.frames)
        index == IF over THEN 1 ELSE k.index + 1
    IN /\ pc[c] = "cycle"
       /\ IF over /\ ~scenario.repeat
          THEN /\ cursor' = [cursor EXCEPT ![c] = k]
               /\ CycleWritten(c)
               /\ UNCHANGED left
          ELSE /\ cursor' = [cursor EXCEPT ![c] = [k EXCEPT !.index = index, !.random = @ + 1]]
               /\ left' = [left EXCEPT ![c] = scenario.frames[index]]
               /\ pc' = [pc EXCEPT ![c] = "frame"]
               /\ UNCHANGED <<report, keepalive>>
       /\ UNCHANGED <<serverVars, catalog, err, ack, pending, reader, read, input, sent>>

Frame(c) ==
    /\ pc[c] = "frame"
    /\ sent' = [sent EXCEPT ![c][cursor[c].revision] =
                  Append(@, [cycle |-> cursor[c].index, left |-> left[c], random |-> cursor[c].random])]
    /\ left' = [left EXCEPT ![c] = @ - 1]
    /\ IF left[c] = 1 THEN CycleWritten(c) ELSE UNCHANGED <<pc, report, keepalive>>
    /\ UNCHANGED <<serverVars, catalog, err, cursor, ack, pending, reader, read, input>>

FrameFails(c) == pc[c] = "frame" /\ End(c, IF Stopping THEN "cancelled" ELSE "failed")

-----------------------------------------------------------------------------
(* serve: the read worker *)

\* A message arrives: an acknowledgement of the last keepalive, for the first
\* time or not, or (0) anything else. It is stamped, and in time unless the
\* acknowledgement's deadline has passed.
Read(c) == /\ reader[c] = "reading" /\ pc[c] # "closing" /\ c \in Talkers
           /\ \E id \in {0, pending[c]} :
                 read' = [read EXCEPT ![c] = <<[id |-> id, inTime |-> ack[c] # "due"]>>]
           /\ reader' = [reader EXCEPT ![c] = "holding"]
           /\ UNCHANGED <<serverVars, catalog, pc, err, cursor, left, report, keepalive, ack,
                          pending, input, sent>>

\* The peer is gone, or has been silent for ReadTimeout: the worker's last word.
ReadFails(c) == /\ reader[c] = "reading"
                /\ c \in Talkers
                /\ \E e \in {"eof", "failed"} : read' = [read EXCEPT ![c] = <<[error |-> e]>>]
                /\ reader' = [reader EXCEPT ![c] = "holding"]
                /\ UNCHANGED <<serverVars, catalog, pc, err, cursor, left, report, keepalive, ack,
                               pending, input, sent>>

Deliver(c) == /\ reader[c] = "holding" /\ input[c] = <<>>
              /\ input' = [input EXCEPT ![c] = read[c]]
              /\ read' = [read EXCEPT ![c] = <<>>]
              /\ reader' = [reader EXCEPT ![c] = IF "error" \in DOMAIN read[c][1] THEN "off" ELSE "reading"]
              /\ UNCHANGED <<serverVars, catalog, pc, err, cursor, left, report, keepalive, ack, pending, sent>>

\* Mutant: what is held is sent to the queue whatever happens.
DropReading(c) == /\ reader[c] = "reading" /\ (Stopping \/ pc[c] = "closing")
                  /\ reader' = [reader EXCEPT ![c] = "off"]
                  /\ UNCHANGED <<serverVars, catalog, pc, err, cursor, left, report, keepalive, ack,
                                 pending, read, input, sent>>

\* A worker whose connection is cancelled fails to read, or drops what it holds.
Drop(c) == /\ reader[c] # "off" /\ (Stopping \/ pc[c] = "closing")
           /\ read' = [read EXCEPT ![c] = <<>>]
           /\ reader' = [reader EXCEPT ![c] = "off"]
           /\ UNCHANGED <<serverVars, catalog, pc, err, cursor, left, report, keepalive, ack,
                          pending, input, sent>>

-----------------------------------------------------------------------------
(* serve: the loop *)

Written(c) == Cardinality(UNION {{r} \X DOMAIN sent[c][r] : r \in Revisions})

Timer(c) ==
    /\ \/ /\ report[c] = "armed" /\ Written(c) < MaxFrames[c]
          /\ report' = [report EXCEPT ![c] = "due"]
          /\ UNCHANGED <<keepalive, ack>>
       \/ /\ keepalive[c] = "armed" /\ pending[c] < MaxKeepalives[c]
          /\ keepalive' = [keepalive EXCEPT ![c] = "due"]
          /\ UNCHANGED <<report, ack>>
       \/ /\ ack[c] = "awaited" /\ ack' = [ack EXCEPT ![c] = "due"]
          /\ UNCHANGED <<report, keepalive>>
    /\ UNCHANGED <<serverVars, catalog, pc, err, cursor, left, pending, reader, read, input, sent>>

Handle(c) ==
    /\ input[c] # <<>>
    /\ LET m == input[c][1]
       IN IF "error" \in DOMAIN m THEN End(c, m.error)
          ELSE IF ack[c] = "none" \/ m.id # pending[c] THEN End(c, "failed")
          ELSE IF ~m.inTime THEN End(c, "timeout")
          ELSE /\ input' = [input EXCEPT ![c] = <<>>]
               /\ ack' = [ack EXCEPT ![c] = "none"]
               /\ keepalive' = [keepalive EXCEPT ![c] = "armed"]
               /\ pc' = [pc EXCEPT ![c] = "loop"]
               /\ UNCHANGED <<serverVars, catalog, err, cursor, left, report, pending, reader, read, sent>>

\* The head of the loop: cancellation, then what has been read already.
Loop(c) ==
    /\ pc[c] = "loop"
    /\ \/ Stopping /\ End(c, "cancelled")
       \/ ~Stopping /\ Handle(c)
       \/ /\ ~Stopping /\ input[c] = <<>>
          /\ pc' = [pc EXCEPT ![c] = "select"]
          /\ UNCHANGED <<serverVars, catalog, err, cursor, left, report, keepalive, ack, pending,
                         reader, read, input, sent>>

ReportDue(c) == /\ report[c] = "due"
                /\ pc' = [pc EXCEPT ![c] = "cycle"]
                /\ UNCHANGED <<serverVars, catalog, err, cursor, left, report, keepalive, ack, pending,
                               reader, read, input, sent>>

KeepaliveDue(c) ==
    /\ keepalive[c] = "due"
    /\ \/ End(c, "failed")
       \/ /\ pending' = [pending EXCEPT ![c] = @ + 1]
          /\ ack' = [ack EXCEPT ![c] = "awaited"]
          /\ keepalive' = [keepalive EXCEPT ![c] = "off"]
          /\ pc' = [pc EXCEPT ![c] = "loop"]
          /\ UNCHANGED <<serverVars, catalog, err, cursor, left, report, reader, read, input, sent>>

\* Mutant: what has been read meanwhile is not looked at.
AckDueAtOnce(c) == ack[c] = "due" /\ End(c, "timeout")

\* The acknowledgement may have arrived together with its deadline.
AckDue(c) == ack[c] = "due" /\ (Handle(c) \/ (input[c] = <<>> /\ End(c, "timeout")))

Select(c) == /\ pc[c] = "select"
             /\ \/ Stopping /\ End(c, "cancelled")
                \/ Handle(c) \/ ReportDue(c) \/ KeepaliveDue(c) \/ AckDue(c)

Serve(c) == \/ Handshake(c) \/ NextCycle(c) \/ Frame(c) \/ FrameFails(c) \/ Loop(c) \/ Select(c)
            \/ Closed(c) \/ Release(c) \/ Leave(c)

Worker(c) == ReadFails(c) \/ Deliver(c) \/ Drop(c)

Run == AcceptFails \/ Return

Next == \/ Listen \/ Cancel \/ Run \/ Replace
            \/ \E c \in Conns : Accept(c) \/ Reject(c) \/ Serve(c) \/ Read(c) \/ Worker(c) \/ Timer(c)

Spec == Init /\ [][Next]_vars

\* Run leaves when the watcher has closed the listener; serve and the worker
\* have deadlines and the watcher that closes their connection.
FairSpec == /\ Spec
            /\ WF_vars(Return) /\ WF_vars(cancelled /\ AcceptFails)
            /\ \A c \in Conns : WF_vars(Serve(c)) /\ WF_vars(Worker(c))

-----------------------------------------------------------------------------

\* A connection is not ended for a missing acknowledgement when the one it
\* awaits has been read in time and waits in the queue.
AckedIsKept ==
    [][ \A c \in Conns :
          err'[c] = "timeout" /\ err[c] # "timeout" =>
             ~(input[c] # <<>> /\ input[c][1] = [id |-> pending[c], inTime |-> TRUE]) ]_vars

\* What a connection is sent of one scenario is the same for every connection,
\* as far as it gets: whole cycles from the first on, in the same random order,
\* independent of other clients, of time, and of the scenario before.
Reproducible ==
    \A c, d \in Conns, r \in Revisions :
        sent[c][r] \in Prefixes(sent[d][r]) \/ sent[d][r] \in Prefixes(sent[c][r])

\* No more than MaxClients are served at once, and the counters tell who came,
\* who is here and, until a client that has left its slot is uncounted, by how
\* many Clients exceeds those served.
Serving(c) == pc[c] \notin {"outside", "leave", "gone"}

ClientsCounted ==
    /\ slots = {c \in Conns : Serving(c)} /\ Cardinality(slots) <= maxClients
    /\ status.clients = Cardinality(slots) + Cardinality({c \in Conns : pc[c] = "leave"})
    /\ status.accepted + status.rejected = Cardinality({c \in Conns : pc[c] # "outside"})

\* When Run has returned, nobody is connected, nobody is counted, and no read
\* worker is left.
ReturnLeavesNobody ==
    server = "done" => /\ slots = {} /\ status.clients = 0
                       /\ \A c \in Conns : reader[c] = "off"

\* Whoever is connected has a slot and is counted, down to nobody at the end.
Occupancy == ClientsCounted /\ ReturnLeavesNobody

\* A cancelled server returns.
CancelStops == cancelled /\ server # "new" ~> server = "done"
=============================================================================
