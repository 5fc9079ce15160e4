-------------------------------- MODULE Rig --------------------------------
(***************************************************************************)
(* internal/app/rig: App.Run (app.go), which owns the emulator's server    *)
(* and the local control server and ends both when either ends; the PUT of *)
(* a scenario (control.go); and the connections of the control server,     *)
(* which internal/control/server.go limits (app/tagstrak/listener.go is    *)
(* the same code with another limit).                                      *)
(*                                                                         *)
(* net/http is external: Serve hands every accepted connection to a        *)
(* goroutine of its own; Shutdown closes the listener and the connections  *)
(* without a request and waits for the others; Close closes them all. Two  *)
(* of its habits matter. A connection counts from a moment after it was    *)
(* accepted, and a request read from it before it was closed is handled    *)
(* still, so Shutdown may have returned before either is seen.             *)
(* emulator.Server.Run is Emulator's: it ends when cancelled, or fails.    *)
(***************************************************************************)
EXTENDS Naturals, FiniteSets, Sequences

CONSTANTS Conns,            \* connections of control clients, each once
          MaxConns,         \* ServerConfig.MaxConns
          MaxReplacements   \* bound of the model

ASSUME RigAssumption == MaxConns \in 1..1024

VARIABLES
    socket,     \* Config.ControlSocket is set
    cancelled,  \* the caller's context
    pc,         \* where Run is
    first,      \* what Run's select took
    expired,    \* the shutdown context's deadline has passed
    result,     \* the errors joined in what Run returns
    data, dataErr,        \* the emulator's goroutine, and what it sent
    serve, serveErr,      \* the control server's Serve, and what it sent
    listening,  \* the control listener is open, and its socket in place
    active,     \* limitListener.active
    place,      \* of each connection in its goroutine
    open,       \* whose socket is open
    held,       \* whose once has not run
    closing,    \* who has closed its socket and not yet called its once
    after,      \* what its Replace returned
    publisher,  \* history: whose request published each revision after the first
    audits      \* history: the audited replacements

run == <<socket, cancelled, pc, first, expired, result>>
parts == <<data, dataErr>>
server == <<serve, serveErr, listening>>
slots == <<active, open, held, closing>>
requests == <<after, publisher, audits>>
vars == <<run, parts, server, slots, place, requests>>

Closers == {"goroutine", "run"}

Init ==
    /\ socket \in BOOLEAN /\ cancelled \in BOOLEAN
    /\ pc = "new" /\ first = "none" /\ expired = FALSE /\ result = {}
    /\ data = "off" /\ dataErr = "none"
    /\ serve = "off" /\ serveErr = "none" /\ listening = FALSE
    /\ active = 0
    /\ place = [c \in Conns |-> "outside"]
    /\ open = [c \in Conns |-> FALSE] /\ held = [c \in Conns |-> FALSE]
    /\ closing = [c \in Conns |-> {}]
    /\ after = [c \in Conns |-> 0] /\ publisher = <<>> /\ audits = {}

\* Run's select has taken something: cancel() and Shutdown were called.
Shutting == first # "none"

\* Mutant: the emulator's server is given the caller's context.
DoneByCaller == cancelled

\* The context of the emulator's server.
Done == cancelled \/ Shutting

-----------------------------------------------------------------------------
(* The emulator's goroutine *)

\* It listens, or cannot.
DataListens == /\ data = "starting"
               /\ \/ data' = "running" /\ dataErr' = dataErr
                  \/ data' = "leaving" /\ dataErr' = "data failed"
               /\ UNCHANGED <<run, server, slots, place, requests>>

\* Its listener was closed by its watcher, or broke.
DataFails == /\ data = "running"
             /\ data' = "leaving"
             /\ dataErr' = IF Done THEN "cancelled" ELSE "data failed"
             /\ UNCHANGED <<run, server, slots, place, requests>>

\* Every client has left, and its goroutine sends what Run returned.
DataLeaves == /\ data = "leaving"
              /\ data' = "done"
              /\ UNCHANGED <<run, dataErr, server, slots, place, requests>>

-----------------------------------------------------------------------------
(* The limited listener and the connections' Close *)

OverLimit == active' > MaxConns

Accept(c) == /\ serve = "accepting" /\ listening /\ place[c] = "outside"
             /\ active' = active + 1
             /\ open' = [open EXCEPT ![c] = TRUE]
             /\ IF OverLimit
                THEN /\ place' = [place EXCEPT ![c] = "over"] /\ serve' = "rejecting"
                     /\ held' = held
                ELSE /\ place' = [place EXCEPT ![c] = "accepted"] /\ serve' = "serving"
                     /\ held' = [held EXCEPT ![c] = TRUE]
             /\ UNCHANGED <<run, parts, serveErr, listening, closing, requests>>

Reject(c) == /\ serve = "rejecting" /\ place[c] = "over"
             /\ active' = active - 1
             /\ open' = [open EXCEPT ![c] = FALSE]
             /\ place' = [place EXCEPT ![c] = "gone"]
             /\ serve' = "accepting"
             /\ UNCHANGED <<run, parts, serveErr, listening, held, closing, requests>>

\* Close: the socket first. The goroutine's deferred Close and Run's, through
\* Shutdown or Close, may meet.
CloseSocket(c, who) == /\ open' = [open EXCEPT ![c] = FALSE]
                       /\ closing' = [closing EXCEPT ![c] = @ \cup {who}]

\* Mutant: the slot is given back by every Close.
ReleaseAgain(c, who) == /\ who \in closing[c]
                        /\ active' = active - 1
                        /\ held' = [held EXCEPT ![c] = FALSE]
                        /\ closing' = [closing EXCEPT ![c] = @ \ {who}]
                        /\ place' = IF who = "run" THEN place ELSE [place EXCEPT ![c] = "gone"]
                        /\ UNCHANGED <<run, parts, server, open, requests>>

\* Then the slot, once.
Release(c, who) == /\ who \in closing[c]
                   /\ active' = IF held[c] THEN active - 1 ELSE active
                   /\ held' = [held EXCEPT ![c] = FALSE]
                   /\ closing' = [closing EXCEPT ![c] = @ \ {who}]
                   /\ place' = IF who = "run" THEN place ELSE [place EXCEPT ![c] = "gone"]
                   /\ UNCHANGED <<run, parts, server, open, requests>>

-----------------------------------------------------------------------------
(* The control server's Serve *)

\* It begins, unless Shutdown was there before it: then it closes the listener.
ServeBegins == /\ serve = "starting"
               /\ IF Shutting
                  THEN serve' = "done" /\ serveErr' = "server closed" /\ listening' = FALSE
                  ELSE serve' = "accepting" /\ UNCHANGED <<serveErr, listening>>
               /\ UNCHANGED <<run, parts, slots, place, requests>>

\* It starts the goroutine of the connection it accepted.
ServeConn(c) == /\ serve = "serving" /\ place[c] = "accepted"
                /\ place' = [place EXCEPT ![c] = "idle"]
                /\ serve' = "accepting"
                /\ UNCHANGED <<run, parts, serveErr, listening, slots, requests>>

\* Accept fails: the listener was closed, or broke.
ServeEnds == /\ serve = "accepting"
             /\ serve' = "done" /\ listening' = FALSE
             /\ serveErr' = IF Shutting THEN "server closed" ELSE "control failed"
             /\ UNCHANGED <<run, parts, slots, place, requests>>

-----------------------------------------------------------------------------
(* A connection's goroutine and PUT /scenario *)

\* A request arrives, perhaps before its connection was closed.
Request(c) == /\ place[c] = "idle"
              /\ place' = [place EXCEPT ![c] = "request"]
              /\ UNCHANGED <<run, parts, server, slots, requests>>

\* The handler has answered: net/http keeps the connection, unless it shuts down.
Answered(c) == \/ ~Shutting /\ place' = [place EXCEPT ![c] = "idle"]
                            /\ UNCHANGED <<open, closing>>
               \/ CloseSocket(c, "goroutine") /\ place' = [place EXCEPT ![c] = "closed"]

\* Another type, an invalid scenario, or a client that has gone; or GET /status.
PutRefused(c) == /\ place[c] = "request"
                 /\ Answered(c)
                 /\ UNCHANGED <<run, parts, server, active, held, requests>>

PutReplaces(c) == /\ place[c] = "request" /\ Len(publisher) < MaxReplacements
                  /\ publisher' = Append(publisher, c)
                  /\ after' = [after EXCEPT ![c] = Len(publisher) + 2]
                  /\ place' = [place EXCEPT ![c] = "replaced"]
                  /\ UNCHANGED <<run, parts, server, slots, audits>>

\* Mutant: the audit asks for the revisions when it is written.
AuditLate(c) == [by |-> c, before |-> Len(publisher), after |-> Len(publisher) + 1]

\* Both revisions come from the replacement itself.
Audit(c) == [by |-> c, before |-> after[c] - 1, after |-> after[c]]

PutAudited(c) == /\ place[c] = "replaced"
                 /\ audits' = audits \cup {Audit(c)}
                 /\ after' = [after EXCEPT ![c] = 0]
                 /\ Answered(c)
                 /\ UNCHANGED <<run, parts, server, active, held, publisher>>

\* No request: the client left, a timeout passed, or the socket is closed.
Leave(c) == /\ place[c] = "idle"
            /\ CloseSocket(c, "goroutine")
            /\ place' = [place EXCEPT ![c] = "closed"]
            /\ UNCHANGED <<run, parts, server, active, held, requests>>
-----------------------------------------------------------------------------
(* Run *)

\* The context is over before anything was opened.
RunRefused == /\ pc = "new" /\ cancelled
              /\ pc' = "returned" /\ result' = {"cancelled"}
              /\ UNCHANGED <<socket, cancelled, first, expired, parts, server, slots, place, requests>>

\* The directory is not private, the path exists, or the socket cannot be made
\* private and is closed, and so removed, again.
ListenFails == /\ pc = "new" /\ ~cancelled /\ socket
               /\ pc' = "returned" /\ result' = {"listen failed"}
               /\ UNCHANGED <<socket, cancelled, first, expired, parts, server, slots, place, requests>>

\* Without a socket Run is the emulator's.
RunDirectly == /\ pc = "new" /\ ~cancelled /\ ~socket
               /\ pc' = "direct" /\ data' = "starting"
               /\ UNCHANGED <<socket, cancelled, first, expired, result, dataErr, server, slots, place, requests>>

DirectReturns == /\ pc = "direct" /\ data = "done"
                 /\ pc' = "returned" /\ result' = {dataErr}
                 /\ UNCHANGED <<socket, cancelled, first, expired, parts, server, slots, place, requests>>

\* Both parts are started; a second call of Run is refused and changes nothing.
Start == /\ pc = "new" /\ ~cancelled /\ socket
         /\ pc' = "select"
         /\ listening' = TRUE /\ serve' = "starting" /\ data' = "starting"
         /\ UNCHANGED <<socket, cancelled, first, expired, result, dataErr, serveErr, slots, place, requests>>

\* What select takes: of several that are ready, any.
Ready == (IF cancelled THEN {[from |-> "context", err |-> "cancelled"]} ELSE {})
         \cup (IF data = "done" THEN {[from |-> "data", err |-> dataErr]} ELSE {})
         \cup (IF serve = "done" THEN {[from |-> "control", err |-> serveErr]} ELSE {})

\* It cancels the emulator's server, and Shutdown closes the listener that
\* Serve has seen.
Select == /\ pc = "select"
          /\ \E r \in Ready : first' = r.from /\ result' = {r.err}
          /\ pc' = "shutdown"
          /\ listening' = (listening /\ serve = "starting")
          /\ UNCHANGED <<socket, cancelled, expired, parts, serve, serveErr, slots, place, requests>>

\* The connections that net/http still knows of: not those it closed without a request.
Tracked(c) == \/ place[c] \in {"idle", "request", "replaced"} /\ open[c]
              \/ place[c] = "closed" /\ held[c]

\* Run is not inside a Close.
BetweenCloses == \A c \in Conns : "run" \notin closing[c]

\* Shutdown closes a connection without a request; Close, after the deadline, any.
ShutdownCloses(c) == /\ pc = "shutdown" /\ BetweenCloses
                     /\ Tracked(c) /\ (expired \/ place[c] = "idle")
                     /\ CloseSocket(c, "run")
                     /\ UNCHANGED <<run, parts, server, active, place, held, requests>>

ShutdownExpires == /\ pc = "shutdown" /\ ~expired /\ BetweenCloses
                   /\ expired' = TRUE
                   /\ result' = result \cup {"deadline exceeded"}
                   /\ UNCHANGED <<socket, cancelled, pc, first, parts, server, slots, place, requests>>

ShutdownEnds == /\ pc = "shutdown" /\ BetweenCloses
                /\ \A c \in Conns : ~Tracked(c)
                /\ pc' = "join"
                /\ UNCHANGED <<socket, cancelled, first, expired, result, parts, server, slots, place, requests>>

\* Mutant: the control server's error is not joined.
JoinOne == IF first # "data" /\ dataErr # "cancelled" THEN {dataErr} ELSE {}

\* The errors of the parts select did not take, but those of an ordinary end.
JoinErrors == (IF first # "data" /\ dataErr # "cancelled" THEN {dataErr} ELSE {})
              \cup (IF first # "control" /\ serveErr # "server closed" THEN {serveErr} ELSE {})

Join == /\ pc = "join" /\ data = "done" /\ serve = "done"
        /\ result' = result \cup JoinErrors
        /\ pc' = "returned"
        /\ UNCHANGED <<socket, cancelled, first, expired, parts, server, slots, place, requests>>

Cancel == /\ ~cancelled
          /\ cancelled' = TRUE
          /\ UNCHANGED <<socket, pc, first, expired, result, parts, server, slots, place, requests>>

-----------------------------------------------------------------------------

Run == \/ RunRefused \/ ListenFails \/ RunDirectly \/ DirectReturns \/ Start \/ Select
       \/ ShutdownEnds \/ Join
       \/ \E c \in Conns : ShutdownCloses(c) \/ Release(c, "run")

Data == DataListens \/ DataFails \/ DataLeaves

Serve == ServeBegins \/ \E c \in Conns : Reject(c) \/ ServeConn(c)

Connection(c) == \/ Accept(c) \/ Request(c) \/ PutRefused(c) \/ PutReplaces(c)
                 \/ PutAudited(c) \/ Leave(c) \/ Release(c, "goroutine")

Next == \/ Run \/ Data \/ Serve \/ ServeEnds \/ ShutdownExpires \/ Cancel
        \/ \E c \in Conns : Connection(c)

Spec == Init /\ [][Next]_vars

\* Goroutines run and the deadline comes; a closed listener is noticed, and so
\* is a cancelled context. Clients do as they like.
FairSpec == /\ Spec
            /\ WF_vars(Run) /\ WF_vars(Serve) /\ WF_vars(ShutdownExpires)
            /\ WF_vars(~listening /\ ServeEnds)
            /\ WF_vars(DataListens) /\ WF_vars(Done /\ DataFails) /\ WF_vars(DataLeaves)

-----------------------------------------------------------------------------

\* No more than MaxConns connections are served at once, and every one has its
\* slot until its socket is closed: whoever closes it, Run and its goroutine
\* together or the one after the other, the slot comes back, and comes back once.
ServedWithinLimit ==
    /\ Cardinality({c \in Conns : open[c] /\ place[c] # "over"}) <= MaxConns
    /\ active = Cardinality({c \in Conns : held[c]} \cup {c \in Conns : place[c] = "over"})
    /\ \A c \in Conns : /\ open[c] => held[c] \/ place[c] = "over"
                        /\ held[c] => place[c] \in {"accepted", "idle", "request", "replaced", "closed"}

\* The audit tells whose request led from which revision to which: requests that
\* overlap, and that outlive Run, each leave their own revision, and when no
\* request is left between its replacement and its record, every revision is told.
AuditsTell ==
    /\ \A a \in audits : a.before = a.after - 1 /\ publisher[a.after - 1] = a.by
    /\ Cardinality(audits) + Cardinality({c \in Conns : place[c] = "replaced"}) = Len(publisher)

Ended == data = "done" /\ serve = "done" /\ ~listening

\* When Run returns, both goroutines are gone and the socket is removed, and Run
\* returns the cancellation alone, which main takes for success, only if it was
\* cancelled, neither part failed, and no request was cut by the deadline.
ReturnTells ==
    pc = "returned" /\ Shutting =>
        /\ Ended
        /\ result = {"cancelled"} =>
              /\ cancelled /\ ~expired
              /\ dataErr = "cancelled" /\ serveErr = "server closed"

\* A cancellation, or the end of either part, ends the run, whatever its clients do.
RunEnds == pc = "select" /\ (cancelled \/ data = "done" \/ serve = "done") ~> pc = "returned"
=============================================================================
