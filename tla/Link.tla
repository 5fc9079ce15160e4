------------------------------- MODULE Link -------------------------------
(***************************************************************************)
(* One run of internal/reader's session against internal/emulator, over    *)
(* TCP: ReaderSession and Emulator as they are, each step of one of them   *)
(* together with what it does to the connection. The session has at most   *)
(* one; the emulator may still be busy with those it has left. What one    *)
(* end writes reaches the other in order, or the connection breaks, which  *)
(* both modules allow at any moment.                                       *)
(***************************************************************************)
EXTENDS Emulator

CONSTANTS MaxRetries, QueueCapacity, MaxReport,  \* of ReaderSession
          ClientFrames,                          \* and its MaxFrames
          NoLink                                 \* no connection

ASSUME LinkAssumption == NoLink \notin Conns

VARIABLES
    clientPc, attempt, clientErr, result, reply, clientLeft, clientStatus, decoded,
    configured, queue, clientCancelled, consumed,  \* of ReaderSession
    link,      \* the connection the session has, if it has one
    dialled,   \* those it has made
    toClient,  \* what the emulator wrote to it and the session has not read
    toServer   \* what the session wrote to each: 0, the request of its
               \* configuration, or the id of an acknowledgement

clientVars == <<clientPc, attempt, clientErr, result, reply, clientLeft, clientStatus, decoded,
                configured, queue, clientCancelled, consumed>>
linkVars == <<link, dialled, toClient, toServer>>

Client == INSTANCE ReaderSession
          WITH pc <- clientPc, err <- clientErr, left <- clientLeft, status <- clientStatus,
               cancelled <- clientCancelled, MaxFrames <- ClientFrames, KeepaliveIds <- Nat \ {0}

LinkInit ==
    /\ Init /\ Client!Init
    /\ link = NoLink /\ dialled = {}
    /\ toClient = <<>> /\ toServer = [c \in Conns |-> <<>>]

-----------------------------------------------------------------------------
(* The session's steps *)

\* The points at which the session has a connection; it closes it when it leaves them.
Connected == {"notification", "configure", "response", "ack early"} \cup Client!Serving

Keeps(rest) ==
    IF clientPc' \in Connected THEN link' = link /\ toClient' = rest
                               ELSE link' = NoLink /\ toClient' = <<>>

\* The kernel connects them; the emulator accepts when it comes to it.
Dial(c) ==
    /\ server = "running" /\ c \in peers \ dialled
    /\ Client!Dialled
    /\ link' = c /\ dialled' = dialled \cup {c} /\ toClient' = <<>>
    /\ UNCHANGED <<vars, toServer>>

ClientReads ==
    /\ toClient # <<>> /\ Client!Read(Head(toClient))
    /\ Keeps(Tail(toClient))
    /\ UNCHANGED <<vars, dialled, toServer>>

ClientWrites ==
    /\ \/ /\ Client!WriteConfig
          /\ toServer' = [toServer EXCEPT ![link] = Append(@, 0)]
       \/ /\ Client!AckEarly \/ Client!Ack
          /\ toServer' = [toServer EXCEPT ![link] = Append(@, reply)]
    /\ UNCHANGED <<vars, link, dialled, toClient>>

ClientElse ==
    /\ Client!Internal \/ Client!IOFails \/ Client!Cancel \/ Client!Take
    /\ Keeps(toClient)
    /\ UNCHANGED <<vars, dialled, toServer>>

-----------------------------------------------------------------------------
(* The emulator's steps *)

\* What is written to a connection that the session has left is never read.
Send(c, m) == toClient' = IF link = c THEN Append(toClient, m) ELSE toClient

\* serve begins with its notification.
Accepts(c) ==
    /\ c \in dialled /\ Accept(c)
    /\ Send(c, [kind |-> "notification"])
    /\ UNCHANGED toServer

Answers(c) ==
    /\ Handshake(c) /\ pc'[c] = "cycle"
    /\ toServer[c] # <<>> /\ Head(toServer[c]) = 0
    /\ toServer' = [toServer EXCEPT ![c] = Tail(@)]
    /\ Send(c, [kind |-> "response"])

\* The tags of a frame are the session's observations; an empty cycle has one empty frame.
Reports(c) ==
    /\ Frame(c)
    /\ \E n \in 0..MaxReport : Send(c, [kind |-> "report", n |-> n])
    /\ UNCHANGED toServer

Probes(c) ==
    /\ Select(c) /\ pending'[c] # pending[c]
    /\ Send(c, [kind |-> "keepalive", id |-> pending'[c]])
    /\ UNCHANGED toServer

ServerReads(c) ==
    /\ Read(c) /\ toServer[c] # <<>>
    /\ read'[c][1].id = IF Head(toServer[c]) = pending[c] THEN pending[c] ELSE 0
    /\ toServer' = [toServer EXCEPT ![c] = Tail(@)]
    /\ UNCHANGED toClient

\* The end of the stream is read when the session has closed its end, after
\* everything it wrote.
AtEnd(c) == link # c /\ toServer[c] = <<>>

ServerElse(c) ==
    /\ \/ c \in dialled /\ Reject(c)
       \/ Handshake(c) /\ pc'[c] = "closing" /\ (err'[c] = "eof" => link # c)
       \/ ReadFails(c) /\ (read'[c][1].error = "eof" => AtEnd(c))
       \/ Select(c) /\ pending'[c] = pending[c]
       \/ NextCycle(c) \/ FrameFails(c) \/ Loop(c) \/ Closed(c) \/ Release(c) \/ Leave(c)
       \/ Deliver(c) \/ Drop(c) \/ Timer(c)
    /\ UNCHANGED <<toClient, toServer>>

Connection(c) == Accepts(c) \/ Answers(c) \/ Reports(c) \/ Probes(c) \/ ServerReads(c) \/ ServerElse(c)

Server == /\ \/ \E c \in Conns : Connection(c)
             \/ (Listen \/ Cancel \/ Run \/ Replace) /\ UNCHANGED <<toClient, toServer>>
          /\ UNCHANGED <<clientVars, link, dialled>>

\* Both runs are over.
Over == /\ Client!Terminated /\ server = "done"
        /\ UNCHANGED <<vars, linkVars>>

LinkNext == Server \/ ClientReads \/ ClientWrites \/ ClientElse \/ Over \/ \E c \in Conns : Dial(c)

LinkSpec == LinkInit /\ [][LinkNext]_<<vars, clientVars, linkVars>>

-----------------------------------------------------------------------------

\* Where serve has answered the handshake and may still read.
InLoop(c) == pc[c] \in {"cycle", "frame", "loop", "select"}

Acks(message) == IF message = <<>> \/ "error" \in DOMAIN message[1] THEN {} ELSE {message[1].id}

\* Neither end ever has a protocol violation to reproach the other with: the
\* session never sees a message that it does not expect, and what the emulator
\* has read is the acknowledgement of the keepalive it sent last.
NeitherAtFault ==
    /\ clientErr # "protocol"
    /\ \A c \in Conns : InLoop(c) => \A id \in Acks(input[c]) : ack[c] # "none" /\ id = pending[c]

KeepalivesSent == {i \in DOMAIN toClient : toClient[i].kind = "keepalive"}

\* The keepalives of c, on their way to the session and back.
UnderWay(c) ==
    (IF link = c THEN Cardinality(KeepalivesSent) + (IF clientPc = "ack" THEN 1 ELSE 0) ELSE 0)
    + Len(toServer[c]) + Cardinality(Acks(read[c])) + Cardinality(Acks(input[c]))

\* The emulator awaits an acknowledgement exactly as long as one keepalive, or
\* its acknowledgement, is under way: none is lost and none is sent twice, unless
\* one of the two ends has given the connection up.
OneUnderWay ==
    \A c \in Conns :
        link = c /\ InLoop(c) /\ ~Stopping =>
            UnderWay(c) = IF ack[c] = "none" THEN 0 ELSE 1

\* A ready session is one that the emulator serves, in one of its slots, unless
\* the emulator has given the connection up since.
ReadyIsServed ==
    clientStatus.ready /\ clientPc \in Client!Serving =>
        /\ link \in Conns
        /\ pc[link] \notin {"outside", "handshake"}
        /\ link \in slots \/ pc[link] \in {"leave", "gone"}
=============================================================================
