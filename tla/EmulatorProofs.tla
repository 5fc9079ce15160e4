--------------------------- MODULE EmulatorProofs ---------------------------
(***************************************************************************)
(* Proofs about Emulator, for every set of connections, finite or not,     *)
(* every limit of clients, every catalogue and every number of frames and  *)
(* keepalives; and about Link, for every bound of its session as well.     *)
(***************************************************************************)
EXTENDS Link, TLAPS, FiniteSetTheorems, WellFoundedInduction

InServe == {"handshake", "cycle", "frame", "loop", "select", "closing", "release"}
Places == InServe \cup {"outside", "leave", "gone"}

Counters == [clients : Int, accepted : Int, rejected : Int, failures : Int]

Types ==
    /\ maxClients \in Nat
    /\ server \in {"new", "running", "joining", "done"}
    /\ status \in Counters
    /\ pc \in [Conns -> Places]
    /\ reader \in [Conns -> {"off", "reading", "holding"}]
    /\ err = [c \in Conns |-> err[c]]

-----------------------------------------------------------------------------
(* The steps, as far as slots, counters and read workers are concerned     *)

\* A connection in serve stays there, and may start or lose its read worker.
Serves(c) ==
    /\ pc[c] \in InServe \ {"release"}
    /\ \E p \in InServe \ {"handshake"} :
          /\ pc' = [pc EXCEPT ![c] = p]
          /\ p = "release" => reader[c] = "off" /\ reader' = reader
    /\ UNCHANGED <<maxClients, server, slots>>
    /\ \/ status' = status
       \/ status' = [status EXCEPT !.failures = @ + 1]
    /\ \/ reader' = reader
       \/ pc'[c] = "cycle" /\ reader' = [reader EXCEPT ![c] = "reading"]

\* A read worker's own steps.
Reads(c) ==
    /\ UNCHANGED <<maxClients, server, slots, status, pc>>
    /\ reader[c] # "off"
    /\ \E r \in {"off", "reading", "holding"} : reader' = [reader EXCEPT ![c] = r]

LEMMA ServeMoves ==
    ASSUME Types, NEW c \in Conns,
           \/ Handshake(c) \/ NextCycle(c) \/ Frame(c) \/ FrameFails(c)
           \/ Loop(c) \/ Select(c) \/ Closed(c)
    PROVE  Serves(c)
  <1> USE DEF Types, Counters, Serves, InServe, Places, serverVars, End, CycleWritten
  <1>1. CASE Handshake(c)
    BY <1>1 DEF Handshake
  <1>2. CASE NextCycle(c)
    BY <1>2 DEF NextCycle
  <1>3. CASE Frame(c)
    BY <1>3 DEF Frame
  <1>4. CASE FrameFails(c)
    <2>1. \E e \in {"cancelled", "failed"} : End(c, e)
      BY <1>4 DEF FrameFails
    <2>2. /\ pc[c] = "frame" /\ pc' = [pc EXCEPT ![c] = "closing"]
          /\ UNCHANGED <<maxClients, server, slots, status, reader>>
      BY <2>1, <1>4 DEF FrameFails
    <2>3. \E p \in InServe \ {"handshake"} :
             pc' = [pc EXCEPT ![c] = p] /\ (p = "release" => reader[c] = "off" /\ reader' = reader)
      <3>1. "closing" \in InServe \ {"handshake"} /\ "closing" # "release"
        OBVIOUS
      <3> QED BY <2>2, <3>1
    <2>4. pc[c] \in InServe \ {"release"}
      BY <2>2
    <2> QED BY <2>2, <2>3, <2>4 DEF Serves
  <1>5. CASE Loop(c)
    BY <1>5 DEF Loop, Handle
  <1>6. CASE Select(c)
    BY <1>6 DEF Select, Handle, ReportDue, KeepaliveDue, AckDue
  <1>7. CASE Closed(c)
    BY <1>7 DEF Closed
  <1> QED BY <1>1, <1>2, <1>3, <1>4, <1>5, <1>6, <1>7

LEMMA WorkerMoves ==
    ASSUME Types, NEW c \in Conns, Read(c) \/ ReadFails(c) \/ Deliver(c) \/ Drop(c)
    PROVE  Reads(c)
  BY DEF Types, Reads, Read, ReadFails, Deliver, Drop, serverVars

-----------------------------------------------------------------------------
(* Types, and where a connection without a read worker is                  *)

LEMMA AcceptedIsCounter ==
    ASSUME NEW s \in Counters
    PROVE  [s EXCEPT !.clients = @ + 1, !.accepted = @ + 1] \in Counters
  <1> DEFINE t == [s EXCEPT !.clients = @ + 1]
  <1>1. t \in Counters
    BY DEF Counters
  <1>2. [s EXCEPT !.clients = @ + 1, !.accepted = @ + 1] = [t EXCEPT !.accepted = @ + 1]
    OBVIOUS
  <1> HIDE DEF t
  <1> QED BY <1>1, <1>2 DEF Counters

LEMMA TypesStart == Init => Types
  <1> SUFFICES ASSUME Init PROVE Types
    OBVIOUS
  <1>1. maxClients \in Nat /\ server = "new"
    BY EmulatorAssumption DEF Init
  <1>2. status \in Counters
    BY DEF Init, Counters
  <1>3. pc \in [Conns -> Places] /\ reader \in [Conns -> {"off", "reading", "holding"}]
    BY DEF Init, Places
  <1>4. err = [c \in Conns |-> err[c]]
    BY DEF Init
  <1> QED BY <1>1, <1>2, <1>3, <1>4 DEF Types

LEMMA ErrStays == Types /\ [Next]_vars => err' = [c \in Conns |-> err'[c]]
  <1> SUFFICES ASSUME Types, [Next]_vars PROVE err' = [c \in Conns |-> err'[c]]
    OBVIOUS
  <1> USE DEF Types, session
  <1>1. ASSUME NEW c \in Conns, Serve(c) PROVE err' = [d \in Conns |-> err'[d]]
    <2> USE DEF End
    <2>1. CASE Handshake(c) \/ NextCycle(c) \/ Frame(c) \/ FrameFails(c)
      BY <2>1 DEF Handshake, NextCycle, Frame, FrameFails
    <2>2. CASE Loop(c) \/ Select(c)
      BY <2>2 DEF Loop, Select, Handle, ReportDue, KeepaliveDue, AckDue
    <2>3. CASE Closed(c) \/ Release(c) \/ Leave(c)
      BY <2>3 DEF Closed, Release, Leave
    <2> QED BY <1>1, <2>1, <2>2, <2>3 DEF Serve
  <1>2. ASSUME NEW c \in Conns,
               Accept(c) \/ Reject(c) \/ Read(c) \/ Worker(c) \/ Timer(c)
        PROVE  err' = err
    BY <1>2 DEF Accept, Reject, Read, Worker, ReadFails, Deliver, Drop, Timer
  <1>3. CASE Listen \/ Cancel \/ Run \/ Replace \/ UNCHANGED vars
    BY <1>3 DEF Listen, Cancel, Run, AcceptFails, Return, Replace, vars
  <1> QED BY <1>1, <1>2, <1>3 DEF Next

\* Every step but those of Serves, Reads and Timer.
LEMMA Steps ==
    ASSUME Types, [Next]_vars
    PROVE  \/ Listen \/ AcceptFails \/ Return
           \/ \E c \in Conns : Accept(c) \/ Reject(c) \/ Release(c) \/ Leave(c)
           \/ \E c \in Conns : Serves(c) \/ Reads(c)
           \/ UNCHANGED <<maxClients, server, slots, status, pc, reader>>
  <1>1. ASSUME NEW c \in Conns, Timer(c)
        PROVE  UNCHANGED <<maxClients, server, slots, status, pc, reader>>
    BY <1>1 DEF Timer, serverVars
  <1>2. CASE Cancel \/ Replace \/ UNCHANGED vars
    BY <1>2 DEF Cancel, Replace, vars, serverVars, session
  <1> QED BY <1>1, <1>2, ServeMoves, WorkerMoves DEF Next, Run, Serve, Worker

LEMMA TypesStep == Types /\ [Next]_vars => Types'
  <1> SUFFICES ASSUME Types, [Next]_vars PROVE Types'
    OBVIOUS
  <1>0. err' = [c \in Conns |-> err'[c]]
    BY ErrStays
  <1> USE <1>0 DEF Types, Counters, Places
  <1>1. CASE Listen \/ AcceptFails \/ Return
    BY <1>1 DEF Listen, AcceptFails, Return, session
  <1>2. ASSUME NEW c \in Conns, Accept(c) PROVE Types'
    <2>1. status' = [status EXCEPT !.clients = @ + 1, !.accepted = @ + 1]
      BY <1>2 DEF Accept
    <2>2. status' \in Counters
      <3> HIDE DEF Counters
      <3>1. status \in Counters
        OBVIOUS
      <3> QED BY <2>1, <3>1, AcceptedIsCounter
    <2>3. UNCHANGED <<maxClients, server, reader>> /\ pc' = [pc EXCEPT ![c] = "handshake"]
      BY <1>2 DEF Accept
    <2> QED BY <2>2, <2>3 DEF InServe
  <1>3. ASSUME NEW c \in Conns, Reject(c) PROVE Types'
    BY <1>3 DEF Reject
  <1>4. ASSUME NEW c \in Conns, Release(c) PROVE Types'
    BY <1>4 DEF Release
  <1>5. ASSUME NEW c \in Conns, Leave(c) PROVE Types'
    BY <1>5 DEF Leave
  <1>6. ASSUME NEW c \in Conns, Serves(c) PROVE Types'
    BY <1>6 DEF Serves
  <1>7. ASSUME NEW c \in Conns, Reads(c) PROVE Types'
    BY <1>7 DEF Reads
  <1>8. CASE UNCHANGED <<maxClients, server, slots, status, pc, reader>>
    BY <1>8
  <1> QED BY <1>1, <1>2, <1>3, <1>4, <1>5, <1>6, <1>7, <1>8, Steps

\* A server serves nobody before Run and after it. A worker is started behind the
\* handshake, and outlived by its serve.
WorkerInv ==
    /\ server = "new" => \A c \in Conns : pc[c] = "outside"
    /\ server = "done" => \A c \in Conns : pc[c] \in {"outside", "gone"}
    /\ \A c \in Conns :
          pc[c] \in {"outside", "handshake", "release", "leave", "gone"} => reader[c] = "off"

LEMMA WorkerStart == Init => WorkerInv
  BY DEF Init, WorkerInv

LEMMA WorkerStep == Types /\ WorkerInv /\ [Next]_vars => WorkerInv'
  <1> SUFFICES ASSUME Types, WorkerInv, [Next]_vars PROVE WorkerInv'
    OBVIOUS
  <1> USE DEF Types, WorkerInv, Places, InServe
  <1>1. CASE Listen \/ AcceptFails \/ Return
    BY <1>1 DEF Listen, AcceptFails, Return, Joined, session
  <1>2. ASSUME NEW c \in Conns, Accept(c) \/ Reject(c) PROVE WorkerInv'
    BY <1>2 DEF Accept, Reject
  <1>3. ASSUME NEW c \in Conns, Release(c) \/ Leave(c) PROVE WorkerInv'
    BY <1>3 DEF Release, Leave
  <1>4. ASSUME NEW c \in Conns, Serves(c) PROVE WorkerInv'
    BY <1>4 DEF Serves
  <1>5. ASSUME NEW c \in Conns, Reads(c) PROVE WorkerInv'
    BY <1>5 DEF Reads
  <1>6. CASE UNCHANGED <<maxClients, server, slots, status, pc, reader>>
    BY <1>6
  <1> QED BY <1>1, <1>2, <1>3, <1>4, <1>5, <1>6, Steps

-----------------------------------------------------------------------------
(* Slots and counters                                                      *)

Served  == {c \in Conns : Serving(c)}
Leaving == {c \in Conns : pc[c] = "leave"}
Come    == {c \in Conns : pc[c] # "outside"}

CountInv ==
    /\ slots = Served /\ IsFiniteSet(slots) /\ Cardinality(slots) <= maxClients
    /\ IsFiniteSet(Leaving) /\ status.clients = Cardinality(slots) + Cardinality(Leaving)
    /\ IsFiniteSet(Come) /\ status.accepted + status.rejected = Cardinality(Come)

LEMMA CountStart == Init => CountInv
  <1> SUFFICES ASSUME Init PROVE CountInv
    OBVIOUS
  <1>1. Served = {} /\ Leaving = {} /\ Come = {}
    BY DEF Init, Served, Serving, Leaving, Come
  <1>2. maxClients \in Nat /\ slots = {}
    BY EmulatorAssumption DEF Init
  <1>3. status.clients = 0 /\ status.accepted = 0 /\ status.rejected = 0
    BY DEF Init
  <1> QED BY <1>1, <1>2, <1>3, FS_EmptySet DEF CountInv

LEMMA CountStep == Types /\ CountInv /\ [Next]_vars => CountInv'
  <1> SUFFICES ASSUME Types, CountInv, [Next]_vars PROVE CountInv'
    OBVIOUS
  <1>0. PICK n \in Nat, m \in Nat, k \in Nat :
           n = Cardinality(slots) /\ m = Cardinality(Leaving) /\ k = Cardinality(Come)
    BY FS_CardinalityType DEF CountInv
  <1> USE DEF Types, Counters
  <1>1. CASE Listen \/ AcceptFails \/ Return
    BY <1>1 DEF Listen, AcceptFails, Return, session, CountInv, Served, Serving, Leaving, Come
  <1>2. ASSUME NEW c \in Conns, Accept(c) PROVE CountInv'
    <2>1. /\ pc[c] = "outside" /\ pc' = [pc EXCEPT ![c] = "handshake"]
          /\ slots' = slots \cup {c} /\ n < maxClients
          /\ status'.clients = status.clients + 1 /\ status'.accepted = status.accepted + 1
          /\ status'.rejected = status.rejected /\ maxClients' = maxClients
      BY <1>0, <1>2 DEF Accept, HasSlot
    <2>2. c \notin slots /\ c \notin Come
      BY <2>1 DEF CountInv, Served, Serving, Leaving, Come
    <2>3. slots' = Served' /\ Leaving' = Leaving /\ Come' = Come \cup {c}
      BY <2>1 DEF CountInv, Served, Serving, Leaving, Come
    <2>4. /\ IsFiniteSet(slots') /\ Cardinality(slots') = n + 1
          /\ IsFiniteSet(Come') /\ Cardinality(Come') = k + 1
      BY <1>0, <2>1, <2>2, <2>3, FS_AddElement DEF CountInv
    <2> QED BY <1>0, <2>1, <2>3, <2>4 DEF CountInv
  <1>3. ASSUME NEW c \in Conns, Reject(c) PROVE CountInv'
    <2>1. /\ pc[c] = "outside" /\ pc' = [pc EXCEPT ![c] = "gone"]
          /\ slots' = slots /\ maxClients' = maxClients
          /\ status'.clients = status.clients /\ status'.accepted = status.accepted
          /\ status'.rejected = status.rejected + 1
      BY <1>3 DEF Reject
    <2>2. c \notin Come /\ Come' = Come \cup {c} /\ Leaving' = Leaving /\ Served' = Served
      BY <2>1 DEF Served, Serving, Leaving, Come
    <2>3. IsFiniteSet(Come') /\ Cardinality(Come') = k + 1
      BY <1>0, <2>2, FS_AddElement DEF CountInv
    <2> QED BY <1>0, <2>1, <2>2, <2>3 DEF CountInv
  <1>4. ASSUME NEW c \in Conns, Release(c) PROVE CountInv'
    <2>1. /\ pc[c] = "release" /\ pc' = [pc EXCEPT ![c] = "leave"]
          /\ slots' = slots \ {c} /\ maxClients' = maxClients /\ status' = status
      BY <1>4 DEF Release
    <2>2. /\ c \in slots /\ c \notin Leaving
          /\ slots' = Served' /\ Leaving' = Leaving \cup {c} /\ Come' = Come
      BY <2>1 DEF CountInv, Served, Serving, Leaving, Come
    <2>3. /\ IsFiniteSet(slots') /\ Cardinality(slots') = n - 1
          /\ IsFiniteSet(Leaving') /\ Cardinality(Leaving') = m + 1
      BY <1>0, <2>1, <2>2, FS_AddElement, FS_RemoveElement DEF CountInv
    <2> QED BY <1>0, <2>1, <2>2, <2>3 DEF CountInv
  <1>5. ASSUME NEW c \in Conns, Leave(c) PROVE CountInv'
    <2>1. /\ pc[c] = "leave" /\ pc' = [pc EXCEPT ![c] = "gone"]
          /\ slots' = slots /\ maxClients' = maxClients
          /\ status'.clients = status.clients - 1 /\ status'.accepted = status.accepted
          /\ status'.rejected = status.rejected
      BY <1>5 DEF Leave
    <2>2. c \in Leaving /\ Leaving' = Leaving \ {c} /\ Served' = Served /\ Come' = Come
      BY <2>1 DEF Served, Serving, Leaving, Come
    <2>3. IsFiniteSet(Leaving') /\ Cardinality(Leaving') = m - 1
      BY <1>0, <2>2, FS_RemoveElement DEF CountInv
    <2> QED BY <1>0, <2>1, <2>2, <2>3 DEF CountInv
  <1>6. ASSUME NEW c \in Conns, Serves(c) PROVE CountInv'
    <2>1. Served' = Served /\ Leaving' = Leaving /\ Come' = Come
      BY <1>6 DEF Serves, InServe, Served, Serving, Leaving, Come
    <2>2. /\ status'.clients = status.clients /\ status'.accepted = status.accepted
          /\ status'.rejected = status.rejected
      BY <1>6 DEF Serves
    <2> QED BY <1>6, <2>1, <2>2 DEF Serves, CountInv
  <1>7. CASE \/ \E c \in Conns : Reads(c)
             \/ UNCHANGED <<maxClients, server, slots, status, pc, reader>>
    BY <1>7 DEF Reads, CountInv, Served, Serving, Leaving, Come
  <1> QED BY <1>1, <1>2, <1>3, <1>4, <1>5, <1>6, <1>7, Steps

-----------------------------------------------------------------------------
(* Frames of one scenario                                                  *)

Frames == [cycle : Nat, left : Int, random : Nat]

\* The first frame of scenario s, and the one behind frame f.
Opens(s, f) == f.cycle = 1 /\ f.left = s.frames[1] /\ f.random = 1

Follows(s, f, g) ==
    IF f.left # 1
    THEN g.cycle = f.cycle /\ g.left = f.left - 1 /\ g.random = f.random
    ELSE /\ g.cycle = IF f.cycle = Len(s.frames) THEN 1 ELSE f.cycle + 1
         /\ g.left = s.frames[g.cycle] /\ g.random = f.random + 1

Chain(s, q) ==
    /\ q # <<>> => Opens(s, q[1])
    /\ \A i \in 1..Len(q) : i > 1 => Follows(s, q[i - 1], q[i])

Continues(s, q, g) == IF q = <<>> THEN Opens(s, g) ELSE Follows(s, q[Len(q)], g)

LEMMA ChainAppend ==
    ASSUME NEW s, NEW q \in Seq(Frames), NEW g \in Frames, Chain(s, q), Continues(s, q, g)
    PROVE  Append(q, g) \in Seq(Frames) /\ Chain(s, Append(q, g))
  <1>1. PICK n \in Nat : n = Len(q)
    OBVIOUS
  <1>2. /\ Append(q, g) \in Seq(Frames) /\ Len(Append(q, g)) = n + 1
        /\ Append(q, g)[n + 1] = g /\ \A i \in 1..n : Append(q, g)[i] = q[i]
    BY <1>1
  <1>3. ASSUME Append(q, g) # <<>> PROVE Opens(s, Append(q, g)[1])
    BY <1>1, <1>2 DEF Chain, Continues
  <1>4. ASSUME NEW i \in 1..(n + 1), i > 1 PROVE Follows(s, Append(q, g)[i - 1], Append(q, g)[i])
    <2>1. CASE i <= n
      BY <1>1, <1>2, <1>4, <2>1 DEF Chain
    <2>2. CASE i = n + 1
      <3>1. q # <<>> /\ Append(q, g)[i - 1] = q[Len(q)]
        BY <1>1, <1>2, <1>4, <2>2
      <3> QED BY <1>2, <2>2, <3>1 DEF Continues
    <2>3. i <= n \/ i = n + 1
      BY <1>1
    <2> QED BY <2>1, <2>2, <2>3
  <1> QED BY <1>2, <1>3, <1>4 DEF Chain

LEMMA LeastNumber ==
    ASSUME NEW T, T \subseteq Nat, T # {}
    PROVE  \E n \in T : \A m \in T : n <= m
  <1> DEFINE R == OpToRel(<, Nat)
  <1>1. IsWellFoundedOn(R, Nat)
    BY NatLessThanWellFounded
  <1>2. \E n \in T : \A m \in T : ~ (<<m, n>> \in R)
    <2> HIDE DEF R
    <2> QED BY <1>1, WFMin
  <1>3. \A m, n \in Nat : m < n => <<m, n>> \in R
    BY DEF OpToRel
  <1> HIDE DEF R
  <1>4. PICK n \in T : \A m \in T : ~ (<<m, n>> \in R)
    BY <1>2
  <1>5. \A m \in T : m \in Nat /\ n \in Nat /\ ~ (m < n)
    BY <1>3, <1>4
  <1> QED BY <1>4, <1>5

\* A scenario determines what is sent of it, as far as it gets.
LEMMA ChainsAgree ==
    ASSUME NEW s, NEW p \in Seq(Frames), NEW q \in Seq(Frames),
           Chain(s, p), Chain(s, q), Len(p) <= Len(q)
    PROVE  p \in Prefixes(q)
  <1> DEFINE T == {i \in 1..Len(p) : p[i] # q[i]}
  <1>1. PICK n \in Nat : n = Len(p) /\ n <= Len(q) /\ Len(q) \in Nat
    OBVIOUS
  <1>2. ASSUME NEW f \in Frames, NEW g \in Frames,
               f.cycle = g.cycle, f.left = g.left, f.random = g.random
        PROVE  f = g
    <2>1. /\ f = [cycle |-> f.cycle, left |-> f.left, random |-> f.random]
          /\ g = [cycle |-> g.cycle, left |-> g.left, random |-> g.random]
      BY DEF Frames
    <2> QED BY <1>2, <2>1
  <1>3. T = {}
    <2> SUFFICES ASSUME T # {} PROVE FALSE
      OBVIOUS
    <2>0. T \subseteq Nat
      BY <1>1
    <2>1. PICK i \in T : \A m \in T : i <= m
      <3> HIDE DEF T
      <3> QED BY <2>0, LeastNumber
    <2>2. i \in 1..n /\ p[i] # q[i] /\ p[i] \in Frames /\ q[i] \in Frames
      BY <1>1, <2>1
    <2>3. CASE i = 1
      <3>1. Opens(s, p[1]) /\ Opens(s, q[1])
        BY <1>1, <2>2, <2>3 DEF Chain
      <3> QED BY <1>2, <2>2, <2>3, <3>1 DEF Opens
    <2>4. CASE i > 1
      <3>1. i - 1 \in 1..n /\ i - 1 \notin T
        BY <1>1, <2>1, <2>2, <2>4
      <3>2. p[i - 1] = q[i - 1]
        BY <1>1, <3>1
      <3>3. Follows(s, p[i - 1], p[i]) /\ Follows(s, q[i - 1], q[i])
        BY <1>1, <2>2, <2>4 DEF Chain
      <3> QED BY <1>2, <2>2, <3>2, <3>3 DEF Follows
    <2> QED BY <2>2, <2>3, <2>4
  <1>4. \A i \in 1..n : p[i] = q[i]
    BY <1>1, <1>3
  <1>5. p = SubSeq(q, 1, n)
    BY <1>1, <1>4
  <1> QED BY <1>1, <1>5 DEF Prefixes

-----------------------------------------------------------------------------
(* What a connection has been sent, and will be                            *)

Playing == {"outside", "handshake", "cycle", "frame", "loop", "select"}

PlayTypes ==
    /\ revision \in Revisions /\ scenario \in Scenarios
    /\ cursor \in [Conns -> [revision : Nat, index : Nat, random : Nat]]
    /\ left \in [Conns -> Int]
    /\ sent \in [Conns -> [Revisions -> Seq(Frames)]]

NextFrame(c) == [cycle |-> cursor[c].index, left |-> left[c], random |-> cursor[c].random]

\* Where the cursor of connection c is in the scenario it has adopted, if any:
\* in a cycle, or at the end of one.
Cued(S, c) ==
    LET r == cursor[c].revision
    IN /\ r <= revision
       /\ \A q \in Revisions : q > r => sent[c][q] = <<>>
       /\ r = 0 => pc[c] # "frame"
       /\ r > 0 => /\ cursor[c].index \in 1..Len(S[r].frames)
                   /\ IF pc[c] = "frame" THEN Continues(S[r], sent[c][r], NextFrame(c))
                      ELSE /\ sent[c][r] # <<>>
                           /\ sent[c][r][Len(sent[c][r])] =
                                 [cycle |-> cursor[c].index, left |-> 1, random |-> cursor[c].random]

\* S has the scenario of each revision so far.
Plays(S, c) ==
    /\ \A r \in Revisions : Chain(S[r], sent[c][r])
    /\ \A r \in Revisions : r > revision => sent[c][r] = <<>>
    /\ pc[c] \in Playing => Cued(S, c)

PlayInv ==
    \E S \in [Revisions -> Scenarios] :
        S[revision] = scenario /\ \A c \in Conns : Plays(S, c)

LEMMA PlayStart == Init => PlayTypes /\ PlayInv
  <1> SUFFICES ASSUME Init PROVE PlayTypes /\ PlayInv
    OBVIOUS
  <1>1. 1 \in Revisions
    BY EmulatorAssumption DEF Revisions
  <1>2. PlayTypes
    BY <1>1 DEF Init, PlayTypes, Fresh
  <1>3. \A c \in Conns, r \in Revisions : sent[c][r] = <<>>
    BY DEF Init
  <1>4. \A c \in Conns : cursor[c].revision = 0 /\ pc[c] = "outside"
    BY DEF Init, Fresh
  <1> DEFINE S == [r \in Revisions |-> scenario]
  <1>5. S \in [Revisions -> Scenarios] /\ S[revision] = scenario
    BY <1>2 DEF PlayTypes
  <1>6. ASSUME NEW c \in Conns PROVE Plays(S, c)
    <2> HIDE DEF S
    <2>1. \A r \in Revisions : Chain(S[r], sent[c][r])
      BY <1>3 DEF Chain
    <2>2. Cued(S, c)
      BY <1>2, <1>3, <1>4 DEF Cued, PlayTypes, Revisions
    <2> QED BY <1>3, <2>1, <2>2 DEF Plays
  <1> HIDE DEF S
  <1> QED BY <1>2, <1>5, <1>6 DEF PlayInv

LEMMA RevisionsAre == PlayTypes => \A r \in Nat : r > 0 /\ r <= revision => r \in Revisions
  BY EmulatorAssumption DEF PlayTypes, Revisions

\* What does not concern the frames of connection c, unless it stops sending.
LEMMA PlaysOn ==
    ASSUME NEW S, NEW c \in Conns, Plays(S, c), revision' = revision, sent'[c] = sent[c],
           pc'[c] \in Playing => /\ pc[c] \in Playing /\ (pc'[c] = "frame" <=> pc[c] = "frame")
                                 /\ cursor'[c] = cursor[c] /\ left'[c] = left[c]
    PROVE  Plays(S, c)'
  <1>1. /\ \A r \in Revisions : Chain(S[r], sent'[c][r])
        /\ \A r \in Revisions : r > revision' => sent'[c][r] = <<>>
    BY DEF Plays
  <1>2. ASSUME pc'[c] \in Playing PROVE Cued(S, c)'
    <2>1. Cued(S, c)
      BY <1>2 DEF Plays
    <2>2. NextFrame(c)' = NextFrame(c)
      BY <1>2 DEF NextFrame
    <2> QED BY <1>2, <2>1, <2>2 DEF Cued
  <1> QED BY <1>1, <1>2 DEF Plays

LEMMA ReplacePlays ==
    ASSUME PlayTypes, PlayInv, Replace
    PROVE  PlayTypes' /\ PlayInv'
  <1>1. /\ revision' = revision + 1 /\ scenario' \in Scenarios /\ revision' \in Revisions
        /\ UNCHANGED <<sent, cursor, left, pc>>
    BY EmulatorAssumption DEF Replace, session, PlayTypes, Revisions
  <1>2. PICK S \in [Revisions -> Scenarios] :
           S[revision] = scenario /\ \A c \in Conns : Plays(S, c)
    BY DEF PlayInv
  <1> DEFINE U == [S EXCEPT ![revision + 1] = scenario']
  <1>3. PICK V : V = U
    OBVIOUS
  <1>4. /\ V \in [Revisions -> Scenarios] /\ V[revision'] = scenario'
        /\ \A r \in Revisions : r # revision' => V[r] = S[r]
    BY <1>1, <1>3
  <1> HIDE DEF U
  <1>5. ASSUME NEW c \in Conns PROVE Plays(V, c)'
    <2>1. Plays(S, c)
      BY <1>2
    <2>2. /\ revision \in Nat /\ revision' = revision + 1
          /\ \A r \in Revisions : r \in Nat
      BY <1>1 DEF PlayTypes, Revisions
    <2>3. \A r \in Revisions : r > revision' => sent'[c][r] = <<>>
      BY <1>1, <2>1, <2>2 DEF Plays
    <2>4. ASSUME NEW r \in Revisions PROVE Chain(V[r], sent'[c][r])
      <3>1. CASE r = revision'
        <4>1. sent'[c][r] = <<>>
          BY <1>1, <2>1, <2>2, <3>1 DEF Plays
        <4> QED BY <4>1 DEF Chain
      <3>2. CASE r # revision'
        BY <1>1, <1>4, <2>1, <3>2 DEF Plays
      <3> QED BY <3>1, <3>2
    <2>5. ASSUME pc'[c] \in Playing PROVE Cued(V, c)'
      <3>1. Cued(S, c) /\ NextFrame(c)' = NextFrame(c)
        BY <1>1, <2>1, <2>5 DEF Plays, NextFrame
      <3>2. PICK r \in Nat : r = cursor[c].revision
        BY DEF PlayTypes
      <3>3. r <= revision
        BY <3>1, <3>2 DEF Cued
      <3>4. r > 0 => V[r] = S[r]
        BY <1>4, <2>2, <3>3, RevisionsAre
      <3>5. \A q \in Revisions : q > r => sent'[c][q] = <<>>
        BY <1>1, <3>1, <3>2 DEF Cued
      <3> QED BY <1>1, <2>2, <3>1, <3>2, <3>3, <3>4, <3>5 DEF Cued
    <2> QED BY <2>3, <2>4, <2>5 DEF Plays
  <1>6. PlayTypes'
    BY <1>1 DEF PlayTypes
  <1> QED BY <1>4, <1>5, <1>6 DEF PlayInv

CursorRecords == [revision : Nat, index : Nat, random : Nat]

LEMMA NextCursor ==
    ASSUME NEW k \in CursorRecords, NEW i \in Nat
    PROVE  /\ [k EXCEPT !.index = i, !.random = @ + 1] \in CursorRecords
           /\ [k EXCEPT !.index = i, !.random = @ + 1].revision = k.revision
           /\ [k EXCEPT !.index = i, !.random = @ + 1].index = i
           /\ [k EXCEPT !.index = i, !.random = @ + 1].random = k.random + 1
  <1> DEFINE t == [k EXCEPT !.index = i]
  <1>1. /\ t \in CursorRecords /\ t.revision = k.revision /\ t.index = i
        /\ t.random = k.random
    BY DEF CursorRecords
  <1>2. [k EXCEPT !.index = i, !.random = @ + 1] = [t EXCEPT !.random = @ + 1]
    OBVIOUS
  <1> HIDE DEF t
  <1>3. PICK u : u = [t EXCEPT !.random = @ + 1]
    OBVIOUS
  <1>4. u \in CursorRecords /\ u.revision = k.revision /\ u.index = i /\ u.random = k.random + 1
    BY <1>1, <1>3 DEF CursorRecords
  <1> QED BY <1>2, <1>3, <1>4

LEMMA FramePlays ==
    ASSUME Types, PlayTypes, NEW S \in [Revisions -> Scenarios], NEW c \in Conns, Plays(S, c),
           Frame(c)
    PROVE  PlayTypes' /\ Plays(S, c)' /\ \A d \in Conns : d # c => sent'[d] = sent[d]
  <1>1. PICK r \in Nat : r = cursor[c].revision
    BY DEF PlayTypes
  <1>2. /\ pc[c] = "frame" /\ Cued(S, c)
    BY DEF Frame, Plays, Playing
  <1>3. r > 0 /\ r <= revision /\ r \in Revisions
    BY <1>1, <1>2, RevisionsAre DEF Cued
  <1>4. PICK f : f = NextFrame(c)
    OBVIOUS
  <1>5. f \in Frames /\ f.cycle = cursor[c].index /\ f.left = left[c] /\ f.random = cursor[c].random
    BY <1>4 DEF PlayTypes, NextFrame, Frames
  <1>6. PICK p : p = sent[c][r]
    OBVIOUS
  <1>7. p \in Seq(Frames) /\ Chain(S[r], p) /\ Continues(S[r], p, f)
    BY <1>1, <1>2, <1>3, <1>4, <1>6 DEF PlayTypes, Plays, Cued
  <1>8. Append(p, f) \in Seq(Frames) /\ Chain(S[r], Append(p, f))
    BY <1>5, <1>7, ChainAppend
  <1>9. PICK q : q = Append(p, f)
    OBVIOUS
  <1>10. /\ q # <<>> /\ q[Len(q)] = f
    BY <1>5, <1>7, <1>9
  <1>11. /\ sent' = [sent EXCEPT ![c] = [sent[c] EXCEPT ![r] = q]]
         /\ left' = [left EXCEPT ![c] = left[c] - 1]
         /\ UNCHANGED <<revision, scenario, cursor>>
         /\ left[c] = 1 => pc' = [pc EXCEPT ![c] = "loop"]
         /\ left[c] # 1 => pc' = pc
    BY <1>1, <1>4, <1>6, <1>9 DEF Frame, NextFrame, CycleWritten, catalog
  <1>12. PICK v : v = [sent[c] EXCEPT ![r] = q]
    OBVIOUS
  <1>13. /\ v \in [Revisions -> Seq(Frames)] /\ v[r] = q
         /\ \A i \in Revisions : i # r => v[i] = sent[c][i]
    BY <1>3, <1>8, <1>9, <1>12 DEF PlayTypes
  <1>14. /\ sent' \in [Conns -> [Revisions -> Seq(Frames)]] /\ sent'[c] = v
         /\ \A d \in Conns : d # c => sent'[d] = sent[d]
    BY <1>11, <1>12, <1>13 DEF PlayTypes
  <1>15. PlayTypes'
    BY <1>11, <1>14 DEF PlayTypes
  <1>16. \A i \in Revisions : Chain(S[i], sent'[c][i])
    BY <1>8, <1>9, <1>13, <1>14 DEF Plays
  <1>17. \A i \in Revisions : i > revision' => sent'[c][i] = <<>>
    <2>1. ASSUME NEW i \in Revisions, i > revision PROVE i # r
      BY <1>3, <2>1 DEF PlayTypes, Revisions
    <2> QED BY <1>11, <1>13, <1>14, <2>1 DEF Plays
  <1>18. ASSUME pc'[c] \in Playing PROVE Cued(S, c)'
    <2>1. /\ cursor' = cursor /\ cursor'[c].revision = r /\ r <= revision' /\ r > 0
          /\ cursor'[c].index \in 1..Len(S[r].frames)
      BY <1>1, <1>2, <1>3, <1>11 DEF Cued
    <2>2. \A i \in Revisions : i > r => sent'[c][i] = <<>>
      <3>1. \A i \in Revisions : i > r => sent[c][i] = <<>>
        BY <1>1, <1>2 DEF Cued
      <3>2. \A i \in Revisions : i > r => i # r
        BY <1>3
      <3>3. \A i \in Revisions : i # r => sent'[c][i] = sent[c][i]
        BY <1>13, <1>14
      <3> QED BY ONLY <3>1, <3>2, <3>3
    <2>3. ASSUME pc'[c] # "frame"
          PROVE  q[Len(q)] = [cycle |-> cursor[c].index, left |-> 1, random |-> cursor[c].random]
      <3>1. left[c] = 1
        BY <1>2, <1>11, <2>3
      <3> QED BY <1>4, <1>10, <3>1 DEF NextFrame
    <2>4. ASSUME pc'[c] = "frame" PROVE Continues(S[r], q, NextFrame(c)')
      <3>1. left[c] # 1 /\ left'[c] = left[c] - 1
        <4>1. left[c] = 1 => pc'[c] = "loop"
          BY <1>2, <1>11 DEF Types
        <4> QED BY <1>11, <2>4, <4>1 DEF PlayTypes
      <3>2. PICK g : g = NextFrame(c)'
        OBVIOUS
      <3>3. g.cycle = f.cycle /\ g.left = f.left - 1 /\ g.random = f.random
        BY <1>5, <2>1, <3>1, <3>2 DEF NextFrame
      <3> QED BY <1>5, <1>10, <3>1, <3>2, <3>3 DEF Continues, Follows
    <2> QED BY <1>10, <1>13, <1>14, <2>1, <2>2, <2>3, <2>4 DEF Cued
  <1> QED BY <1>14, <1>15, <1>16, <1>17, <1>18 DEF Plays

LEMMA CyclePlays ==
    ASSUME Types, PlayTypes, NEW S \in [Revisions -> Scenarios], S[revision] = scenario,
           NEW c \in Conns, Plays(S, c), NextCycle(c)
    PROVE  PlayTypes' /\ Plays(S, c)' /\ sent' = sent
  <1>1. PICK k : k = Adopted(c)
    OBVIOUS
  <1>2. PICK n \in Nat : n = Len(scenario.frames) /\ n > 0
    BY EmulatorAssumption DEF PlayTypes
  <1>3. \A i \in 1..n : scenario.frames[i] \in Int
    BY <1>2, EmulatorAssumption DEF PlayTypes
  <1>4. revision \in Nat /\ revision > 0 /\ revision \in Revisions
    BY DEF PlayTypes, Revisions
  <1>5. pc[c] = "cycle" /\ Cued(S, c)
    BY DEF NextCycle, Plays, Playing
  <1>6. k \in CursorRecords /\ k.revision = revision
    BY <1>1, <1>4 DEF Adopted, PlayTypes, CursorRecords
  <1>7. \/ k.index = 0 /\ k.random = 0 /\ sent[c][revision] = <<>>
        \/ /\ k = cursor[c] /\ k.index \in 1..n /\ sent[c][revision] # <<>>
           /\ sent[c][revision][Len(sent[c][revision])] =
                 [cycle |-> k.index, left |-> 1, random |-> k.random]
    <2>1. CASE cursor[c].revision = revision
      BY <1>1, <1>2, <1>4, <1>5, <2>1 DEF Adopted, Cued
    <2>2. CASE cursor[c].revision # revision
      <3>1. cursor[c].revision \in Nat /\ cursor[c].revision <= revision
        BY <1>5 DEF Cued, PlayTypes
      <3>2. sent[c][revision] = <<>>
        BY <1>4, <1>5, <2>2, <3>1 DEF Cued
      <3> QED BY <1>1, <2>2, <3>2 DEF Adopted
    <2> QED BY <2>1, <2>2
  <1>8. UNCHANGED <<revision, scenario, sent>>
    BY DEF NextCycle, catalog
  <1>9. CASE k.index = n /\ ~scenario.repeat
    <2>1. /\ cursor' = [cursor EXCEPT ![c] = k] /\ left' = left
          /\ pc' = [pc EXCEPT ![c] = "loop"]
      BY <1>1, <1>2, <1>9 DEF NextCycle, CycleWritten
    <2>2. k = cursor[c]
      BY <1>2, <1>7, <1>9
    <2>3. cursor' = cursor /\ pc'[c] = "loop"
      BY <2>1, <2>2, <1>5 DEF PlayTypes, Types
    <2>4. PlayTypes'
      BY <1>8, <2>1, <2>3 DEF PlayTypes
    <2>5. Plays(S, c)'
      BY <1>5, <1>8, <2>1, <2>3, PlaysOn DEF Playing
    <2> QED BY <1>8, <2>4, <2>5
  <1>10. CASE ~(k.index = n /\ ~scenario.repeat)
    <2>1. PICK i : i = IF k.index = n THEN 1 ELSE k.index + 1
      OBVIOUS
    <2>2. i \in 1..n
      BY <1>2, <1>6, <1>7, <2>1 DEF CursorRecords
    <2>3. /\ cursor' = [cursor EXCEPT ![c] = [k EXCEPT !.index = i, !.random = @ + 1]]
          /\ left' = [left EXCEPT ![c] = scenario.frames[i]]
          /\ pc' = [pc EXCEPT ![c] = "frame"]
      BY <1>1, <1>2, <1>10, <2>1 DEF NextCycle
    <2>4. PICK m : m = [k EXCEPT !.index = i, !.random = @ + 1]
      OBVIOUS
    <2>5. /\ m \in CursorRecords /\ m.revision = revision /\ m.index = i
          /\ m.random = k.random + 1
      <3>1. i \in Nat
        BY <2>2
      <3> QED BY ONLY <1>6, <2>4, <3>1, NextCursor
    <2>6. /\ cursor' \in [Conns -> CursorRecords] /\ cursor'[c] = m
          /\ left' \in [Conns -> Int] /\ left'[c] = scenario.frames[i] /\ pc'[c] = "frame"
      BY <1>3, <2>2, <2>3, <2>4, <2>5 DEF PlayTypes, CursorRecords, Types
    <2>7. PlayTypes'
      BY <1>8, <2>6 DEF PlayTypes, CursorRecords
    <2>8. PICK g : g = NextFrame(c)'
      OBVIOUS
    <2>9. g.cycle = i /\ g.left = scenario.frames[i] /\ g.random = k.random + 1
      BY <2>5, <2>6, <2>8 DEF NextFrame
    <2>10. Continues(scenario, sent[c][revision], g)
      <3>1. CASE k.index = 0 /\ k.random = 0 /\ sent[c][revision] = <<>>
        <4>1. i = 1
          BY <1>2, <2>1, <3>1
        <4> QED BY <2>9, <3>1, <4>1 DEF Continues, Opens
      <3>2. CASE /\ k = cursor[c] /\ k.index \in 1..n /\ sent[c][revision] # <<>>
                 /\ sent[c][revision][Len(sent[c][revision])] =
                       [cycle |-> k.index, left |-> 1, random |-> k.random]
        BY <1>2, <2>1, <2>9, <3>2 DEF Continues, Follows
      <3> QED BY <1>7, <3>1, <3>2
    <2>11. Cued(S, c)'
      <3>1. \A q \in Revisions : q > revision => sent'[c][q] = <<>>
        BY <1>8 DEF Plays
      <3> QED BY <1>2, <1>4, <1>8, <2>2, <2>5, <2>6, <2>8, <2>10, <3>1 DEF Cued
    <2>12. Plays(S, c)'
      BY <1>8, <2>11 DEF Plays
    <2> QED BY <1>8, <2>7, <2>12
  <1> QED BY <1>9, <1>10

LEMMA PlayStep == Types /\ PlayTypes /\ PlayInv /\ [Next]_vars => PlayTypes' /\ PlayInv'
  <1> SUFFICES ASSUME Types, PlayTypes, PlayInv, [Next]_vars PROVE PlayTypes' /\ PlayInv'
    OBVIOUS
  <1>1. PICK S \in [Revisions -> Scenarios] :
           S[revision] = scenario /\ \A c \in Conns : Plays(S, c)
    BY DEF PlayInv
  <1> DEFINE Goal == PlayTypes' /\ revision' = revision /\ scenario' = scenario /\ \A c \in Conns : Plays(S, c)'
  <1>2. ASSUME UNCHANGED <<revision, scenario, sent>>, PlayTypes', NEW c \in Conns,
               \A d \in Conns \ {c} : cursor'[d] = cursor[d] /\ left'[d] = left[d] /\ pc'[d] = pc[d],
               pc'[c] \in Playing => /\ pc[c] \in Playing /\ (pc'[c] = "frame" <=> pc[c] = "frame")
                                     /\ cursor'[c] = cursor[c] /\ left'[c] = left[c]
        PROVE  Goal
    <2>1. ASSUME NEW d \in Conns PROVE Plays(S, d)'
      <3>1. pc'[d] \in Playing => /\ pc[d] \in Playing /\ (pc'[d] = "frame" <=> pc[d] = "frame")
                                  /\ cursor'[d] = cursor[d] /\ left'[d] = left[d]
        BY <1>2
      <3> QED BY <1>1, <1>2, <3>1, PlaysOn
    <2> QED BY <1>2, <2>1
  <1>3. CASE Listen \/ Cancel \/ Run \/ UNCHANGED vars
    <2>1. UNCHANGED <<revision, scenario, sent, cursor, left, pc>>
      BY <1>3 DEF Listen, Cancel, Run, AcceptFails, Return, vars, session, catalog
    <2>2. PlayTypes'
      BY <2>1 DEF PlayTypes
    <2>3. \A d \in Conns : Plays(S, d)'
      BY <1>1, <2>1, PlaysOn
    <2> QED BY <1>1, <2>1, <2>2, <2>3 DEF PlayInv
  <1>4. CASE Replace
    BY <1>4, ReplacePlays
  <1>5. ASSUME NEW c \in Conns, Accept(c) \/ Reject(c) \/ Read(c) \/ Worker(c) \/ Timer(c)
        PROVE  Goal
    <2>1. UNCHANGED <<revision, scenario, sent, cursor, left>>
      BY <1>5 DEF Accept, Reject, Read, Worker, ReadFails, Deliver, Drop, Timer, session, catalog
    <2>2. /\ \A d \in Conns \ {c} : pc'[d] = pc[d]
          /\ pc'[c] = pc[c] \/ (pc[c] = "outside" /\ pc'[c] \in {"handshake", "gone"})
      BY <1>5 DEF Accept, Reject, Read, Worker, ReadFails, Deliver, Drop, Timer, session, Types
    <2>3. PlayTypes'
      BY <2>1 DEF PlayTypes
    <2>4. pc'[c] \in Playing => pc[c] \in Playing /\ (pc'[c] = "frame" <=> pc[c] = "frame")
      BY <2>2 DEF Playing
    <2> QED BY <1>2, <2>1, <2>2, <2>3, <2>4
  <1>6. ASSUME NEW c \in Conns, NextCycle(c) PROVE Goal
    <2>1. PlayTypes' /\ Plays(S, c)' /\ sent' = sent
      BY <1>1, <1>6, CyclePlays
    <2>2. UNCHANGED <<revision, scenario>>
      BY <1>6 DEF NextCycle, catalog
    <2>3. \A d \in Conns \ {c} : cursor'[d] = cursor[d] /\ left'[d] = left[d] /\ pc'[d] = pc[d]
      BY <1>6 DEF NextCycle, CycleWritten, PlayTypes, Types
    <2>4. \A d \in Conns \ {c} : Plays(S, d)'
      BY <1>1, <2>1, <2>2, <2>3, PlaysOn
    <2> QED BY <2>1, <2>2, <2>4
  <1>7. ASSUME NEW c \in Conns, Frame(c) PROVE Goal
    <2>1. PlayTypes' /\ Plays(S, c)' /\ \A d \in Conns : d # c => sent'[d] = sent[d]
      BY <1>1, <1>7, FramePlays
    <2>2. UNCHANGED <<revision, scenario, cursor>>
      BY <1>7 DEF Frame, catalog
    <2>3. \A d \in Conns \ {c} : left'[d] = left[d] /\ pc'[d] = pc[d]
      BY <1>7 DEF Frame, CycleWritten, PlayTypes, Types
    <2>4. \A d \in Conns \ {c} : Plays(S, d)'
      BY <1>1, <2>1, <2>2, <2>3, PlaysOn
    <2> QED BY <2>1, <2>2, <2>4
  <1>8. ASSUME NEW c \in Conns, Release(c) PROVE Goal
    <2>1. /\ UNCHANGED <<revision, scenario, sent>> /\ pc'[c] = "leave"
          /\ \A d \in Conns \ {c} : cursor'[d] = cursor[d] /\ left'[d] = left[d] /\ pc'[d] = pc[d]
      BY <1>8 DEF Release, catalog, PlayTypes, Types
    <2>2. PlayTypes'
      BY <1>8, <2>1 DEF Release, Fresh, PlayTypes
    <2> QED BY <1>2, <2>1, <2>2 DEF Playing
  <1>9. ASSUME NEW c \in Conns,
               \/ Handshake(c) \/ FrameFails(c) \/ Loop(c) \/ Select(c) \/ Closed(c) \/ Leave(c)
        PROVE  Goal
    <2>1. UNCHANGED <<revision, scenario, sent, cursor, left>>
      BY <1>9 DEF Handshake, FrameFails, Loop, Select, Closed, Leave, End, Handle, ReportDue,
                  KeepaliveDue, AckDue, catalog
    <2>2. pc[c] \in {"handshake", "cycle", "loop", "select"} \/ pc'[c] \notin Playing
      BY <1>9 DEF Handshake, FrameFails, Loop, Select, Closed, Leave, End, Playing, Types
    <2>3. \E p \in {"cycle", "loop", "select", "closing", "release", "gone"} : pc' = [pc EXCEPT ![c] = p]
      BY <1>9 DEF Handshake, FrameFails, Loop, Select, Closed, Leave, End, Handle, ReportDue,
                  KeepaliveDue, AckDue
    <2>4. /\ \A d \in Conns \ {c} : pc'[d] = pc[d]
          /\ pc'[c] \in {"cycle", "loop", "select", "closing", "release", "gone"}
      BY <2>3 DEF Types
    <2>5. PlayTypes'
      BY <2>1 DEF PlayTypes
    <2>6. pc'[c] \in Playing => pc[c] \in Playing /\ (pc'[c] = "frame" <=> pc[c] = "frame")
      BY <2>2, <2>4 DEF Playing
    <2> QED BY <1>2, <2>1, <2>4, <2>5, <2>6
  <1>10. Goal => PlayTypes' /\ PlayInv'
    BY <1>1 DEF PlayInv
  <1> QED BY <1>3, <1>4, <1>5, <1>6, <1>7, <1>8, <1>9, <1>10 DEF Next, Serve

-----------------------------------------------------------------------------
(* What follows                                                            *)

LEMMA Invariance == Spec => [](Types /\ WorkerInv /\ CountInv)
  <1>1. Init => Types /\ WorkerInv /\ CountInv
    BY TypesStart, WorkerStart, CountStart
  <1>2. Types /\ WorkerInv /\ CountInv /\ [Next]_vars => (Types /\ WorkerInv /\ CountInv)'
    BY TypesStep, WorkerStep, CountStep
  <1> QED BY <1>1, <1>2, PTL DEF Spec

\* No more than MaxClients are served at once, and the counters tell who came
\* and who is here.
THEOREM ClientsCountedHolds == Spec => []ClientsCounted
  <1>1. CountInv => ClientsCounted
    BY DEF CountInv, ClientsCounted, Served, Leaving, Come
  <1> QED BY Invariance, <1>1, PTL

\* When Run has returned, nobody is connected or counted, and no worker is left.
THEOREM ReturnLeavesNobodyHolds == Spec => []ReturnLeavesNobody
  <1>1. Types /\ WorkerInv /\ CountInv => ReturnLeavesNobody
    <2> SUFFICES ASSUME Types, WorkerInv, CountInv, server = "done" PROVE
                 slots = {} /\ status.clients = 0 /\ \A c \in Conns : reader[c] = "off"
      BY DEF ReturnLeavesNobody
    <2>1. slots = {} /\ Leaving = {}
      BY DEF WorkerInv, CountInv, Served, Serving, Leaving
    <2>2. status.clients = 0
      BY <2>1, FS_EmptySet DEF CountInv
    <2> QED BY <2>1, <2>2 DEF WorkerInv
  <1> QED BY Invariance, <1>1, PTL

\* Slots and counters are those of the connections served, never too many, and
\* of none once Run has returned.
THEOREM OccupancyHolds == Spec => []Occupancy
  <1>1. ClientsCounted /\ ReturnLeavesNobody => Occupancy
    BY DEF Occupancy
  <1> QED BY ClientsCountedHolds, ReturnLeavesNobodyHolds, <1>1, PTL

\* Any two connections are sent the same of one scenario, as far as both get.
THEOREM ReproducibleHolds == Spec => []Reproducible
  <1>1. Init => Types /\ PlayTypes /\ PlayInv
    BY TypesStart, PlayStart
  <1>2. Types /\ PlayTypes /\ PlayInv /\ [Next]_vars => (Types /\ PlayTypes /\ PlayInv)'
    BY TypesStep, PlayStep
  <1>3. PlayTypes /\ PlayInv => Reproducible
    <2> SUFFICES ASSUME PlayTypes, PlayInv, NEW c \in Conns, NEW d \in Conns, NEW r \in Revisions
                 PROVE  sent[c][r] \in Prefixes(sent[d][r]) \/ sent[d][r] \in Prefixes(sent[c][r])
      BY DEF Reproducible
    <2>1. PICK S \in [Revisions -> Scenarios] : \A e \in Conns : Plays(S, e)
      BY DEF PlayInv
    <2>2. PICK p, q : p = sent[c][r] /\ q = sent[d][r]
      OBVIOUS
    <2>3. /\ p \in Seq(Frames) /\ q \in Seq(Frames)
          /\ Chain(S[r], p) /\ Chain(S[r], q)
      BY <2>1, <2>2 DEF PlayTypes, Plays
    <2>4. Len(p) <= Len(q) \/ Len(q) <= Len(p)
      BY <2>3
    <2> QED BY <2>2, <2>3, <2>4, ChainsAgree
  <1> QED BY <1>1, <1>2, <1>3, PTL DEF Spec

\* A connection is not ended for a missing acknowledgement when the one it awaits
\* has been read in time.
THEOREM AckedIsKeptHolds == Spec => AckedIsKept
  <1>1. ASSUME Types, [Next]_vars, NEW c \in Conns,
               input[c] # <<>>, input[c][1] = [id |-> pending[c], inTime |-> TRUE],
               err'[c] = "timeout"
        PROVE  err[c] = "timeout"
    <2> USE <1>1 DEF Types, session
    <2>1. "error" \notin DOMAIN input[c][1] /\ input[c][1].inTime = TRUE
      OBVIOUS
    <2>2. ASSUME NEW d \in Conns, Serve(d) PROVE err'[c] = err[c] \/ (d = c /\ err'[c] # "timeout")
      <3> USE DEF End
      <3>1. CASE Handshake(d) \/ NextCycle(d) \/ Frame(d) \/ FrameFails(d)
        BY <3>1 DEF Handshake, NextCycle, Frame, FrameFails
      <3>2. CASE Loop(d) \/ Select(d)
        BY <2>1, <3>2 DEF Loop, Select, Handle, ReportDue, KeepaliveDue, AckDue
      <3>3. CASE Closed(d) \/ Release(d) \/ Leave(d)
        BY <3>3 DEF Closed, Release, Leave
      <3> QED BY <2>2, <3>1, <3>2, <3>3 DEF Serve
    <2>3. ASSUME NEW d \in Conns,
                 Accept(d) \/ Reject(d) \/ Read(d) \/ Worker(d) \/ Timer(d)
          PROVE  err' = err
      BY <2>3 DEF Accept, Reject, Read, Worker, ReadFails, Deliver, Drop, Timer
    <2>4. CASE Listen \/ Cancel \/ Run \/ Replace \/ UNCHANGED vars
      BY <2>4 DEF Listen, Cancel, Run, AcceptFails, Return, Replace, vars
    <2> QED BY <2>2, <2>3, <2>4 DEF Next
  <1>2. Types /\ [Next]_vars =>
          [ \A c \in Conns :
              err'[c] = "timeout" /\ err[c] # "timeout" =>
                 ~(input[c] # <<>> /\ input[c][1] = [id |-> pending[c], inTime |-> TRUE]) ]_vars
    BY <1>1
  <1> QED BY Invariance, <1>2, PTL DEF AckedIsKept, Spec

-----------------------------------------------------------------------------
(* Link: what a step of the emulator does to its connections               *)

Incoming == [error : {"eof", "failed"}] \cup [id : Nat, inTime : BOOLEAN]
Inbox == {<<>>} \cup {<<m>> : m \in Incoming}

LoopTypes ==
    /\ ack \in [Conns -> {"none", "awaited", "due"}]
    /\ keepalive \in [Conns -> {"off", "armed", "due"}]
    /\ report \in [Conns -> {"off", "armed", "due"}]
    /\ pending \in [Conns -> Nat]
    /\ read \in [Conns -> Inbox] /\ input \in [Conns -> Inbox]

LEMMA LoopTypesStart == Init => LoopTypes
  BY DEF Init, LoopTypes, Inbox

LEMMA AcksAre ==
    /\ Acks(<<>>) = {}
    /\ \A e : Acks(<<[error |-> e]>>) = {}
    /\ \A i, b : Acks(<<[id |-> i, inTime |-> b]>>) = {i}
  BY DEF Acks

\* The steps of the emulator at connection c.
StepAt(c) == Accept(c) \/ Reject(c) \/ Serve(c) \/ Read(c) \/ Worker(c) \/ Timer(c)

\* Where every other function of Emulator is left as it is.
OnlyAt(c) ==
    \A d \in Conns : d # c =>
       /\ pc'[d] = pc[d] /\ report'[d] = report[d] /\ keepalive'[d] = keepalive[d]
       /\ ack'[d] = ack[d] /\ pending'[d] = pending[d] /\ reader'[d] = reader[d]
       /\ read'[d] = read[d] /\ input'[d] = input[d]

LEMMA EndIs ==
    ASSUME Types, LoopTypes, NEW c \in Conns, NEW e, End(c, e)
    PROVE  /\ LoopTypes' /\ OnlyAt(c) /\ pc'[c] = "closing"
           /\ UNCHANGED <<server, cancelled, reader, read, input, pending>>
  BY DEF End, Types, LoopTypes, OnlyAt, serverVars

LEMMA HandleIs ==
    ASSUME Types, LoopTypes, NEW c \in Conns, Handle(c), pc'[c] # "closing"
    PROVE  /\ ack' = [ack EXCEPT ![c] = "none"] /\ input' = [input EXCEPT ![c] = <<>>]
           /\ keepalive' = [keepalive EXCEPT ![c] = "armed"] /\ pc' = [pc EXCEPT ![c] = "loop"]
           /\ UNCHANGED <<server, cancelled, reader, read, pending, report>>
           /\ input[c] # <<>> /\ "error" \notin DOMAIN input[c][1]
  BY DEF Handle, End, Types, serverVars

LEMMA StepAtIs ==
    ASSUME Types, LoopTypes, NEW c \in Conns, StepAt(c)
    PROVE  LoopTypes' /\ OnlyAt(c)
  <1> USE DEF Types, LoopTypes, OnlyAt
  <1>1. CASE Accept(c) \/ Reject(c)
    BY <1>1 DEF Accept, Reject
  <1>2. CASE Handshake(c)
    <2>1. ASSUME NEW e, End(c, e) PROVE LoopTypes' /\ OnlyAt(c)
      BY <2>1, EndIs
    <2>2. CASE pc' = [pc EXCEPT ![c] = "cycle"] /\ reader' = [reader EXCEPT ![c] = "reading"]
               /\ UNCHANGED <<report, keepalive, ack, pending, read, input>>
      BY <2>2
    <2> QED BY <1>2, <2>1, <2>2 DEF Handshake
  <1>3. CASE NextCycle(c)
    <2>1. /\ UNCHANGED <<ack, pending, reader, read, input>>
          /\ \E p : pc' = [pc EXCEPT ![c] = p]
          /\ CycleWritten(c) \/ UNCHANGED <<report, keepalive>>
      BY <1>3 DEF NextCycle, CycleWritten
    <2>2. CASE CycleWritten(c)
      BY <2>1, <2>2 DEF CycleWritten
    <2>3. CASE UNCHANGED <<report, keepalive>>
      BY <2>1, <2>3
    <2> QED BY <2>1, <2>2, <2>3
  <1>4. CASE Frame(c)
    <2>1. /\ UNCHANGED <<ack, pending, reader, read, input>>
          /\ CycleWritten(c) \/ UNCHANGED <<pc, report, keepalive>>
      BY <1>4 DEF Frame
    <2>2. CASE CycleWritten(c)
      BY <2>1, <2>2 DEF CycleWritten
    <2>3. CASE UNCHANGED <<pc, report, keepalive>>
      BY <2>1, <2>3
    <2> QED BY <2>1, <2>2, <2>3
  <1>5. CASE FrameFails(c)
    BY <1>5, EndIs DEF FrameFails
  <1>6. CASE Closed(c) \/ Leave(c)
    BY <1>6 DEF Closed, Leave
  <1>7. CASE Release(c)
    BY <1>7 DEF Release, Inbox
  <1>8. ASSUME Handle(c) PROVE LoopTypes' /\ OnlyAt(c)
    <2>1. CASE \E e : End(c, e)
      BY <2>1, EndIs
    <2>2. (~ \E e : End(c, e)) =>
             /\ ack' = [ack EXCEPT ![c] = "none"] /\ input' = [input EXCEPT ![c] = <<>>]
             /\ keepalive' = [keepalive EXCEPT ![c] = "armed"] /\ pc' = [pc EXCEPT ![c] = "loop"]
             /\ UNCHANGED <<reader, read, pending, report>>
      BY <1>8 DEF Handle
    <2>3. <<>> \in Inbox
      BY DEF Inbox
    <2>4. CASE ~ \E e : End(c, e)
      <3>0. /\ ack' = [ack EXCEPT ![c] = "none"] /\ input' = [input EXCEPT ![c] = <<>>]
            /\ keepalive' = [keepalive EXCEPT ![c] = "armed"] /\ pc' = [pc EXCEPT ![c] = "loop"]
            /\ reader' = reader /\ read' = read /\ pending' = pending /\ report' = report
        BY <2>2, <2>4
      <3>1. OnlyAt(c)
        BY ONLY <3>0 DEF OnlyAt
      <3>2. input' \in [Conns -> Inbox] /\ read' \in [Conns -> Inbox]
        BY <2>3, <3>0
      <3>3. /\ ack' \in [Conns -> {"none", "awaited", "due"}]
            /\ keepalive' \in [Conns -> {"off", "armed", "due"}]
            /\ report' = report /\ pending' = pending
        BY <3>0
      <3> QED BY <3>1, <3>2, <3>3
    <2> QED BY <2>1, <2>4
  <1>9. CASE Loop(c)
    <2>1. ASSUME NEW e, End(c, e) PROVE LoopTypes' /\ OnlyAt(c)
      BY <2>1, EndIs
    <2> QED BY <1>8, <1>9, <2>1 DEF Loop
  <1>10. CASE Select(c)
    <2>1. ASSUME NEW e, End(c, e) PROVE LoopTypes' /\ OnlyAt(c)
      BY <2>1, EndIs
    <2>2. CASE ReportDue(c)
      BY <2>2 DEF ReportDue
    <2>3. CASE KeepaliveDue(c)
      BY <2>1, <2>3 DEF KeepaliveDue
    <2> QED BY <1>8, <1>10, <2>1, <2>2, <2>3 DEF Select, AckDue
  <1>11. CASE Read(c)
    <2>1. PICK m \in Incoming : read' = [read EXCEPT ![c] = <<m>>]
      <3>1. PICK i \in {0, pending[c]} :
               read' = [read EXCEPT ![c] = <<[id |-> i, inTime |-> ack[c] # "due"]>>]
        BY <1>11 DEF Read
      <3>2. [id |-> i, inTime |-> ack[c] # "due"] \in Incoming
        BY <3>1 DEF Incoming
      <3> QED BY <3>1, <3>2
    <2> QED BY <1>11, <2>1 DEF Read, Inbox
  <1>12. CASE ReadFails(c)
    <2>1. PICK m \in Incoming : read' = [read EXCEPT ![c] = <<m>>]
      BY <1>12 DEF ReadFails, Incoming
    <2> QED BY <1>12, <2>1 DEF ReadFails, Inbox
  <1>13. CASE Deliver(c)
    BY <1>13 DEF Deliver, Inbox
  <1>14. CASE Drop(c)
    BY <1>14 DEF Drop, Inbox
  <1>15. CASE Timer(c)
    BY <1>15 DEF Timer
  <1> QED BY <1>1, <1>2, <1>3, <1>4, <1>5, <1>6, <1>7, <1>9, <1>10, <1>11, <1>12, <1>13, <1>14, <1>15
      DEF StepAt, Serve, Worker

-----------------------------------------------------------------------------
(* The keepalive of a connection                                           *)

KeepalivesOf(q) == {i \in DOMAIN q : q[i].kind = "keepalive"}

\* The keepalives of q, which are one at most, have the id.
Sole(q, id) == \A i \in KeepalivesOf(q) : q[i].id = id /\ \A j \in KeepalivesOf(q) : i = j

Whereabouts == {"nowhere", "sent", "acking", "acked", "read", "queued"}

\* The keepalive of c, or its acknowledgement, is where p says, and nowhere else.
Under(c, p) ==
    /\ p = "sent"   <=> link = c /\ KeepalivesSent # {}
    /\ p = "acking" <=> link = c /\ clientPc = "ack"
    /\ p = "acked"  <=> toServer[c] # <<>>
    /\ p = "read"   <=> Acks(read[c]) # {}
    /\ p = "queued" <=> Acks(input[c]) # {}

Named(c) ==
    /\ link = c => Sole(toClient, pending[c])
    /\ link = c /\ clientPc = "ack" => reply = pending[c]
    /\ toServer[c] \in {<<>>, <<pending[c]>>}
    /\ Acks(read[c]) \subseteq {pending[c]} /\ Acks(input[c]) \subseteq {pending[c]}

Awaited(c, p) ==
    /\ p # "nowhere" => ack[c] # "none"
    /\ link = c /\ ack[c] # "none" /\ ~Stopping => p # "nowhere"

\* The timers are armed behind the first cycle, and while a keepalive is answered
\* the next one is not due.
Armed(c) ==
    /\ report[c] = "off" => keepalive[c] = "off" /\ ack[c] = "none"
    /\ keepalive[c] # "off" => ack[c] = "none"

TokenInv(c) ==
    InLoop(c) =>
       /\ Named(c) /\ Armed(c)
       /\ \E p \in Whereabouts : Under(c, p) /\ Awaited(c, p)

\* Nothing moves, but for reports, and for a session that may leave.
Followed(c) ==
    link' = c => /\ link = c
                 /\ KeepalivesSent' = {} <=> KeepalivesSent = {}
                 /\ \A id : Sole(toClient, id) => Sole(toClient', id)
                 /\ clientPc' = "ack" <=> clientPc = "ack"
                 /\ clientPc = "ack" => reply' = reply

Unmoved(c) ==
    /\ InLoop(c)' => InLoop(c)
    /\ toServer'[c] = toServer[c]
    /\ Acks(read'[c]) = Acks(read[c]) /\ Acks(input'[c]) = Acks(input[c])
    /\ pending'[c] = pending[c] /\ (ack'[c] = "none" <=> ack[c] = "none")
    /\ report'[c] = "off" => report[c] = "off" /\ keepalive'[c] = keepalive[c]
    /\ keepalive'[c] # "off" => keepalive[c] # "off" \/ report[c] = "off"
    /\ Stopping => Stopping'

LEMMA TokenKept ==
    ASSUME NEW c \in Conns, TokenInv(c), Followed(c), Unmoved(c)
    PROVE  TokenInv(c)'
  <1> SUFFICES ASSUME InLoop(c)'
               PROVE  /\ Named(c)' /\ Armed(c)'
                      /\ \E p \in Whereabouts : Under(c, p)' /\ Awaited(c, p)'
    BY DEF TokenInv
  <1> USE DEF Followed, Unmoved
  <1>1. Named(c) /\ Armed(c)
    BY DEF TokenInv
  <1>2. PICK p \in Whereabouts : Under(c, p) /\ Awaited(c, p)
    BY DEF TokenInv
  <1>3. Named(c)' /\ Armed(c)'
    <2>1. Named(c)'
      BY <1>1 DEF Named
    <2>2. Armed(c)'
      BY <1>1 DEF Armed
    <2> QED BY <2>1, <2>2
  <1>4. CASE link' = c \/ p \notin {"sent", "acking"}
    <2>1. Under(c, p)'
      BY <1>2, <1>4 DEF Under
    <2>2. Awaited(c, p)'
      BY <1>2 DEF Awaited
    <2> QED BY <1>1, <1>2, <1>3, <2>1, <2>2
  <1>5. CASE link' # c /\ p \in {"sent", "acking"}
    <2>1. Under(c, "nowhere")'
      BY <1>2, <1>5 DEF Under
    <2>2. Awaited(c, "nowhere")'
      BY <1>5 DEF Awaited
    <2> QED BY <1>1, <1>3, <2>1, <2>2 DEF Whereabouts
  <1> QED BY <1>4, <1>5

\* Nothing is under way and nothing awaited.
LEMMA TokenNowhere ==
    ASSUME NEW c \in Conns,
           link' = c => KeepalivesSent' = {} /\ clientPc' # "ack",
           toServer'[c] = <<>>, Acks(read'[c]) = {}, Acks(input'[c]) = {}, ack'[c] = "none",
           report'[c] = "off" => keepalive'[c] = "off"
    PROVE  TokenInv(c)'
  <1>1. Sole(toClient', pending'[c]) \/ link' # c
    BY DEF Sole, KeepalivesOf, KeepalivesSent
  <1>2. Named(c)' /\ Armed(c)'
    BY <1>1 DEF Named, Armed
  <1>3. Under(c, "nowhere")' /\ Awaited(c, "nowhere")'
    BY DEF Under, Awaited
  <1> QED BY <1>2, <1>3 DEF TokenInv, Whereabouts

\* The token comes to place p.
LEMMA TokenAt ==
    ASSUME NEW c \in Conns, NEW p \in Whereabouts \ {"nowhere"},
           Named(c)', Under(c, p)', ack'[c] # "none",
           report'[c] # "off" /\ keepalive'[c] = "off"
    PROVE  TokenInv(c)'
  BY DEF TokenInv, Awaited, Armed

-----------------------------------------------------------------------------
(* What the session does                                                   *)

\* The messages the session expects, and what it then does.
Expected(m) ==
    /\ UNCHANGED clientErr
    /\ reply' = IF m.kind = "keepalive" THEN m.id ELSE reply
    /\ \/ clientPc = "notification" /\ m.kind = "notification" /\ clientPc' = "configure"
       \/ clientPc = "response" /\ m.kind = "response" /\ clientPc' = "accepted"
       \/ clientPc = "response" /\ m.kind = "keepalive" /\ clientPc' = "ack early"
       \/ clientPc = "read" /\ m.kind = "keepalive" /\ clientPc' = "ack"
       \/ clientPc = "read" /\ m.kind = "report" /\ clientPc' = "hand"
       \/ clientPc = "read" /\ m.kind \notin {"keepalive", "report", "response"} /\ clientPc' = "serve"

Unexpected(m) ==
    /\ clientPc' = "lost"
    /\ \/ clientPc = "notification" /\ m.kind # "notification"
       \/ clientPc = "response" /\ m.kind \notin {"response", "keepalive"}
       \/ clientPc = "read" /\ m.kind \notin {"keepalive", "report"}

LEMMA ReadIs ==
    ASSUME NEW m, Client!Read(m)
    PROVE  Expected(m) \/ Unexpected(m)
  <1> USE DEF Client!Receive, Client!Goto, Client!Fail, Expected, Unexpected
  <1>1. CASE Client!ReadNotification(m)
    BY <1>1 DEF Client!ReadNotification
  <1>2. CASE Client!ReadEarlyKeepalive(m) \/ Client!ReadResponse(m) \/ Client!ReadOtherResponse(m)
    BY <1>2 DEF Client!ReadEarlyKeepalive, Client!ReadResponse, Client!ReadOtherResponse
  <1>3. CASE Client!ReadKeepalive(m) \/ Client!ReadReport(m)
    BY <1>3 DEF Client!ReadKeepalive, Client!ReadReport
  <1>4. CASE Client!ReadEvent(m) \/ Client!ReadMalformed(m)
    BY <1>4 DEF Client!ReadEvent, Client!ReadMalformed
  <1> QED BY <1>1, <1>2, <1>3, <1>4 DEF Client!Read

\* The steps in which it neither reads nor writes.
Onward ==
    /\ UNCHANGED reply
    /\ clientErr' = clientErr \/ clientErr' # "protocol"
    /\ \/ clientPc' = clientPc
       \/ clientPc' \notin Connected
       \/ {clientPc, clientPc'} \subseteq {"accepted", "serve", "read", "hand", "count"}

LEMMA ElseIs ==
    ASSUME Client!Internal \/ Client!IOFails \/ Client!Cancel \/ Client!Take
    PROVE  Onward
  <1> USE DEF Client!Goto, Client!Fail, Client!Return, Onward, Connected, Client!Serving
  <1>1. CASE Client!Cancel \/ Client!Take
    BY <1>1 DEF Client!Cancel, Client!Take, Client!sessionVars
  <1>2. CASE Client!IOFails
    BY <1>2 DEF Client!IOFails, Client!Faults, Client!Retried
  <1>3. CASE Client!Start \/ Client!Connect \/ Client!CountAttempt \/ Client!Cancelled \/ Client!CountFailure
    BY <1>3 DEF Client!Start, Client!Connect, Client!CountAttempt, Client!Cancelled, Client!CountFailure
  <1>4. CASE \/ Client!GiveUp \/ Client!Exhausted \/ Client!Reconnect \/ Client!Announce
             \/ Client!Retry \/ Client!Stop
    BY <1>4 DEF Client!GiveUp, Client!Exhausted, Client!Reconnect, Client!Announce, Client!Retry, Client!Stop
  <1>5. CASE Client!Accepted \/ Client!ServeCancelled \/ Client!Serve \/ Client!Overflow
    BY <1>5 DEF Client!Accepted, Client!ServeCancelled, Client!Serve, Client!Overflow
  <1>6. CASE Client!Hand \/ Client!CountHanded \/ Client!HandedAll
    BY <1>6 DEF Client!Hand, Client!CountHanded, Client!HandedAll
  <1> QED BY <1>1, <1>2, <1>3, <1>4, <1>5, <1>6 DEF Client!Internal

-----------------------------------------------------------------------------
(* Sequences of messages                                                   *)

Sent == [kind : {"notification", "response"}] \cup [kind : {"report"}, n : Nat]
        \cup [kind : {"keepalive"}, id : Nat]

\* What the emulator sends once it has answered the handshake.
Stream(q) == \A i \in DOMAIN q : q[i].kind \in {"report", "keepalive"}

LEMMA OtherSent ==
    ASSUME NEW q \in Seq(Sent), NEW m \in Sent, m.kind # "keepalive"
    PROVE  KeepalivesOf(Append(q, m)) = KeepalivesOf(q)
           /\ \A id : Sole(q, id) => Sole(Append(q, m), id)
  <1>1. KeepalivesOf(Append(q, m)) = KeepalivesOf(q)
    BY DEF KeepalivesOf
  <1>2. \A i \in KeepalivesOf(q) : Append(q, m)[i] = q[i]
    BY DEF KeepalivesOf
  <1> QED BY <1>1, <1>2 DEF Sole

LEMMA KeepaliveSent ==
    ASSUME NEW q \in Seq(Sent), NEW m \in Sent, m.kind = "keepalive", KeepalivesOf(q) = {}
    PROVE  KeepalivesOf(Append(q, m)) # {} /\ Sole(Append(q, m), m.id)
  <1>1. KeepalivesOf(Append(q, m)) = {Len(q) + 1} /\ Append(q, m)[Len(q) + 1] = m
    BY DEF KeepalivesOf
  <1> QED BY <1>1 DEF Sole

LEMMA OtherRead ==
    ASSUME NEW q \in Seq(Sent), q # <<>>, Head(q).kind # "keepalive"
    PROVE  (KeepalivesOf(Tail(q)) = {} <=> KeepalivesOf(q) = {})
           /\ \A id : Sole(q, id) => Sole(Tail(q), id)
  <1>1. /\ \A i \in KeepalivesOf(Tail(q)) : i + 1 \in KeepalivesOf(q) /\ q[i + 1] = Tail(q)[i]
        /\ \A i \in KeepalivesOf(Tail(q)) : i \in Nat
    BY DEF KeepalivesOf
  <1>2. ASSUME NEW i \in KeepalivesOf(q) PROVE i - 1 \in KeepalivesOf(Tail(q))
    <2>1. i # 1 /\ i \in 1..Len(q)
      BY DEF KeepalivesOf
    <2>2. i - 1 \in 1..Len(Tail(q)) /\ Tail(q)[i - 1] = q[i]
      BY <2>1
    <2> QED BY <2>2 DEF KeepalivesOf
  <1>3. ASSUME NEW id, Sole(q, id) PROVE Sole(Tail(q), id)
    <2>1. ASSUME NEW i \in KeepalivesOf(Tail(q)), NEW j \in KeepalivesOf(Tail(q))
          PROVE  Tail(q)[i].id = id /\ i = j
      <3>1. i + 1 = j + 1 /\ q[i + 1].id = id
        BY <1>1, <1>3 DEF Sole
      <3>2. i \in Nat /\ j \in Nat /\ Tail(q)[i] = q[i + 1]
        BY <1>1
      <3>3. i = j
        BY ONLY <3>1, <3>2
      <3> QED BY <3>1, <3>2, <3>3
    <2> QED BY <2>1 DEF Sole
  <1>4. KeepalivesOf(Tail(q)) = {} <=> KeepalivesOf(q) = {}
    BY <1>1, <1>2
  <1> QED BY <1>3, <1>4

LEMMA KeepaliveRead ==
    ASSUME NEW q \in Seq(Sent), NEW id, q # <<>>, Head(q).kind = "keepalive", Sole(q, id)
    PROVE  KeepalivesOf(q) # {} /\ KeepalivesOf(Tail(q)) = {} /\ Head(q).id = id
  <1>1. 1 \in KeepalivesOf(q) /\ q[1] = Head(q)
    BY DEF KeepalivesOf
  <1>2. ASSUME NEW i \in KeepalivesOf(Tail(q)) PROVE FALSE
    <2>1. i + 1 \in KeepalivesOf(q) /\ i \in 1..Len(Tail(q))
      BY DEF KeepalivesOf
    <2> QED BY <1>1, <2>1 DEF Sole
  <1> QED BY <1>1, <1>2 DEF Sole

LEMMA StreamGrows ==
    ASSUME NEW q \in Seq(Sent), NEW m \in Sent
    PROVE  /\ Append(q, m) \in Seq(Sent) /\ Append(q, m) # <<>>
           /\ m.kind \in {"report", "keepalive"} => (Stream(Append(q, m)) <=> Stream(q))
           /\ q # <<>> => Head(Append(q, m)) = Head(q) /\ Tail(Append(q, m)) = Append(Tail(q), m)
           /\ Head(Append(<<>>, m)) = m /\ Tail(Append(<<>>, m)) = <<>>
  <1>1. Append(q, m) \in Seq(Sent) /\ Append(q, m) # <<>>
    OBVIOUS
  <1>2. m.kind \in {"report", "keepalive"} => (Stream(Append(q, m)) <=> Stream(q))
    BY DEF Stream
  <1>3. q # <<>> => Head(Append(q, m)) = Head(q) /\ Tail(Append(q, m)) = Append(Tail(q), m)
    OBVIOUS
  <1>4. Head(Append(<<>>, m)) = m /\ Tail(Append(<<>>, m)) = <<>>
    OBVIOUS
  <1> QED BY <1>1, <1>2, <1>3, <1>4

LEMMA StreamShrinks ==
    ASSUME NEW q \in Seq(Sent), q # <<>>
    PROVE  /\ Tail(q) \in Seq(Sent) /\ Head(q) \in Sent
           /\ Stream(q) => Stream(Tail(q)) /\ Head(q).kind \in {"report", "keepalive"}
  <1>1. Tail(q) \in Seq(Sent) /\ Head(q) \in Sent /\ Head(q) = q[1] /\ 1 \in DOMAIN q
    OBVIOUS
  <1>2. \A i \in DOMAIN Tail(q) : i + 1 \in DOMAIN q /\ q[i + 1] = Tail(q)[i]
    OBVIOUS
  <1> QED BY <1>1, <1>2 DEF Stream

-----------------------------------------------------------------------------
(* The inductive invariant of Link                                         *)

LinkTypes ==
    /\ dialled \subseteq Conns /\ link \in dialled \cup {NoLink}
    /\ \A c \in Conns : c \notin dialled => pc[c] = "outside" /\ toServer[c] = <<>>
    /\ toClient \in Seq(Sent) /\ toServer \in [Conns -> Seq(Nat)] /\ reply \in Nat
    /\ clientPc \in Connected <=> link # NoLink

\* A connection that is not yet served has nothing but its request under way,
\* and a read worker that holds nothing has nothing read.
FreshInv(c) ==
    /\ pc[c] \in {"outside", "handshake"} =>
          /\ toServer[c] \in {<<>>, <<0>>} /\ Acks(input[c]) = {} /\ Acks(read[c]) = {}
          /\ report[c] = "off" /\ keepalive[c] = "off" /\ ack[c] = "none"
    /\ reader[c] # "holding" => Acks(read[c]) = {}

\* How far the two ends are with each other.
PhaseInv ==
    /\ clientPc # "ack early"
    /\ clientPc = "notification" =>
          /\ toServer[link] = <<>> /\ ~InLoop(link)
          /\ \/ toClient = <<>>
             \/ toClient = <<[kind |-> "notification"]>> /\ pc[link] # "outside"
    /\ clientPc = "configure" =>
          toServer[link] = <<>> /\ ~InLoop(link) /\ pc[link] # "outside" /\ toClient = <<>>
    /\ clientPc = "response" =>
          /\ pc[link] # "outside"
          /\ \/ toClient = <<>> /\ ~InLoop(link)
             \/ /\ toClient # <<>> /\ Head(toClient).kind = "response" /\ Stream(Tail(toClient))
                /\ pc[link] # "handshake"
    /\ clientPc \in Client!Serving => pc[link] \notin {"outside", "handshake"} /\ Stream(toClient)

LinkInv == /\ LinkTypes /\ PhaseInv /\ clientErr # "protocol"
           /\ \A c \in Conns : FreshInv(c) /\ TokenInv(c)

LEMMA LinkStart == LinkInit => LinkInv
  <1> SUFFICES ASSUME LinkInit PROVE LinkInv
    OBVIOUS
  <1>1. clientPc = "idle" /\ clientErr = "none" /\ reply = 0
    BY DEF LinkInit, Client!Init
  <1>2. /\ link = NoLink /\ dialled = {} /\ toClient = <<>>
        /\ toServer = [c \in Conns |-> <<>>]
    BY DEF LinkInit
  <1>3. LinkTypes
    <2>1. \A c \in Conns : pc[c] = "outside"
      BY DEF LinkInit, Init
    <2> QED BY <1>1, <1>2, <2>1 DEF LinkTypes, Connected, Client!Serving
  <1>4. PhaseInv
    BY <1>1 DEF PhaseInv, Client!Serving
  <1>5. ASSUME NEW c \in Conns PROVE FreshInv(c) /\ TokenInv(c)
    <2>1. /\ pc[c] = "outside" /\ read[c] = <<>> /\ input[c] = <<>> /\ report[c] = "off"
          /\ keepalive[c] = "off" /\ ack[c] = "none"
      BY DEF LinkInit, Init
    <2> QED BY <1>2, <2>1, AcksAre DEF FreshInv, TokenInv, InLoop
  <1> QED BY <1>1, <1>3, <1>4, <1>5 DEF LinkInv

-----------------------------------------------------------------------------
(* The session's steps in Link                                             *)

\* A step of the session leaves the emulator alone.
LEMMA ClientFrame ==
    ASSUME UNCHANGED vars
    PROVE  /\ UNCHANGED <<pc, report, keepalive, ack, pending, reader, read, input>>
           /\ Stopping' = Stopping
           /\ \A c \in Conns : InLoop(c)' = InLoop(c)
  BY DEF vars, serverVars, catalog, session, Stopping, InLoop

LEMMA DialLinks ==
    ASSUME LinkInv, NEW c \in Conns, Dial(c)
    PROVE  LinkInv'
  <1>1. /\ c \notin dialled /\ clientPc = "dial" /\ clientPc' = "notification"
        /\ link' = c /\ dialled' = dialled \cup {c} /\ toClient' = <<>> /\ toServer' = toServer
        /\ clientErr' = clientErr /\ reply' = reply
    BY DEF Dial, Client!Dialled, Client!Goto
  <1>2. /\ UNCHANGED <<pc, report, keepalive, ack, pending, reader, read, input>>
        /\ Stopping' = Stopping /\ \A d \in Conns : InLoop(d)' = InLoop(d)
    BY ClientFrame DEF Dial
  <1>3. link = NoLink /\ pc[c] = "outside" /\ toServer[c] = <<>> /\ c # NoLink
    BY <1>1, LinkAssumption DEF LinkInv, LinkTypes, Connected, Client!Serving
  <1>4. LinkTypes'
    BY <1>1, <1>2, <1>3 DEF LinkInv, LinkTypes, Connected
  <1>5. PhaseInv'
    BY <1>1, <1>2, <1>3 DEF PhaseInv, InLoop, Client!Serving
  <1>6. ASSUME NEW d \in Conns PROVE FreshInv(d)' /\ TokenInv(d)'
    <2>1. FreshInv(d)'
      BY <1>1, <1>2 DEF LinkInv, FreshInv
    <2>2. CASE d = c
      <3>1. ~InLoop(d)'
        BY <1>2, <1>3, <2>2 DEF InLoop
      <3> QED BY <2>1, <3>1 DEF TokenInv
    <2>3. CASE d # c
      <3>1. link' # d /\ TokenInv(d)
        BY <1>1, <2>3 DEF LinkInv
      <3>2. /\ toServer'[d] = toServer[d] /\ read'[d] = read[d] /\ input'[d] = input[d]
            /\ pending'[d] = pending[d] /\ ack'[d] = ack[d] /\ report'[d] = report[d]
            /\ keepalive'[d] = keepalive[d] /\ InLoop(d)' = InLoop(d) /\ Stopping' = Stopping
        BY <1>1, <1>2
      <3>3. Followed(d) /\ Unmoved(d)
        BY <3>1, <3>2 DEF Followed, Unmoved
      <3> QED BY <2>1, <3>1, <3>3, TokenKept
    <2> QED BY <2>1, <2>2, <2>3
  <1> QED BY <1>1, <1>4, <1>5, <1>6 DEF LinkInv

LEMMA ReadsLink ==
    ASSUME LoopTypes, LinkInv, ClientReads
    PROVE  LinkInv'
  <1>1. PICK m : m = Head(toClient)
    OBVIOUS
  <1>2. toClient # <<>> /\ Client!Read(m) /\ Keeps(Tail(toClient)) /\ UNCHANGED <<dialled, toServer>>
    BY <1>1 DEF ClientReads
  <1>3. /\ UNCHANGED <<pc, report, keepalive, ack, pending, reader, read, input>>
        /\ Stopping' = Stopping /\ \A d \in Conns : InLoop(d)' = InLoop(d)
    BY ClientFrame DEF ClientReads
  <1>4. /\ toClient \in Seq(Sent) /\ m \in Sent /\ Tail(toClient) \in Seq(Sent)
        /\ Stream(toClient) => Stream(Tail(toClient)) /\ m.kind \in {"report", "keepalive"}
    BY <1>1, <1>2, StreamShrinks DEF LinkInv, LinkTypes
  <1>5. PhaseInv /\ LinkTypes
    BY DEF LinkInv
  <1>6. /\ Expected(m)
        /\ clientPc = "notification" => toClient = <<[kind |-> "notification"]>>
        /\ clientPc = "response" => m.kind = "response"
        /\ clientPc = "read" => m.kind \in {"report", "keepalive"}
    <2>1. clientPc = "notification" => toClient = <<[kind |-> "notification"]>>
      BY <1>2, <1>5 DEF PhaseInv
    <2>2. clientPc = "notification" => m.kind = "notification"
      BY <1>1, <2>1
    <2>3. clientPc = "response" => m.kind = "response"
      BY <1>1, <1>2, <1>5 DEF PhaseInv
    <2>4. clientPc = "read" => m.kind \in {"report", "keepalive"}
      BY <1>4, <1>5 DEF PhaseInv, Client!Serving
    <2>5. ~Unexpected(m)
      BY <2>2, <2>3, <2>4 DEF Unexpected
    <2> QED BY <1>2, <2>1, <2>3, <2>4, <2>5, ReadIs
  <1>7. /\ clientErr' = clientErr
        /\ \/ clientPc = "notification" /\ clientPc' = "configure"
           \/ clientPc = "response" /\ clientPc' = "accepted"
           \/ clientPc = "read" /\ clientPc' = IF m.kind = "keepalive" THEN "ack" ELSE "hand"
    BY <1>6 DEF Expected
  <1>8. clientPc \in Connected /\ clientPc' \in Connected
    BY <1>7 DEF Connected, Client!Serving
  <1>9. link' = link /\ toClient' = Tail(toClient) /\ link \in dialled
    BY <1>2, <1>5, <1>8 DEF Keeps, LinkTypes
  <1>10. LinkTypes'
    <2>1. reply' \in Nat
      BY <1>4, <1>5, <1>6 DEF Expected, Sent, LinkTypes
    <2> QED BY <1>2, <1>3, <1>4, <1>5, <1>8, <1>9, <2>1 DEF LinkTypes, Connected
  <1>11. PhaseInv'
    <2>1. InLoop(link)' = InLoop(link) /\ pc' = pc /\ toServer' = toServer
      BY <1>2, <1>3, <1>5, <1>9 DEF LinkTypes
    <2>2. CASE clientPc = "notification"
      <3>1. Tail(toClient) = <<>> /\ pc[link] # "outside" /\ clientPc' = "configure"
        <4>1. toClient = <<[kind |-> "notification"]>>
          BY <1>6, <2>2
        <4>2. Tail(toClient) = <<>>
          BY ONLY <4>1
        <4>3. pc[link] # "outside" /\ clientPc' = "configure"
          BY <1>2, <1>5, <1>7, <2>2 DEF PhaseInv
        <4> QED BY <4>2, <4>3
      <3> QED BY <1>5, <1>9, <2>1, <2>2, <3>1 DEF PhaseInv, Client!Serving
    <2>3. CASE clientPc = "response"
      <3>1. /\ Stream(Tail(toClient)) /\ pc[link] \notin {"outside", "handshake"}
            /\ clientPc' = "accepted"
        BY <1>2, <1>5, <1>7, <2>3 DEF PhaseInv
      <3> QED BY <1>9, <2>1, <3>1 DEF PhaseInv, Client!Serving
    <2>4. CASE clientPc = "read"
      <3>1. Stream(toClient) /\ pc[link] \notin {"outside", "handshake"} /\ clientPc' \in {"ack", "hand"}
        BY <1>5, <1>7, <2>4 DEF PhaseInv, Client!Serving
      <3> QED BY <1>4, <1>9, <2>1, <3>1 DEF PhaseInv, Client!Serving
    <2> QED BY <1>7, <2>2, <2>3, <2>4
  <1>12. ASSUME NEW c \in Conns PROVE FreshInv(c)' /\ TokenInv(c)'
    <2>1. FreshInv(c)'
      BY <1>2, <1>3 DEF LinkInv, FreshInv
    <2>2. TokenInv(c) /\ InLoop(c)' = InLoop(c)
      BY <1>3 DEF LinkInv
    <2>3. Unmoved(c)
      BY <1>2, <1>3 DEF Unmoved
    <2>4. CASE m.kind # "keepalive" \/ link # c
      <3>1. link = c => /\ KeepalivesOf(toClient') = {} <=> KeepalivesOf(toClient) = {}
                        /\ \A id : Sole(toClient, id) => Sole(toClient', id)
        BY <1>1, <1>2, <1>4, <1>9, <2>4, OtherRead
      <3>2. link = c => (clientPc' = "ack" <=> clientPc = "ack") /\ clientPc # "ack"
        BY <1>7, <2>4
      <3>3. Followed(c)
        BY <1>9, <3>1, <3>2 DEF Followed, KeepalivesOf, KeepalivesSent
      <3> QED BY <2>1, <2>2, <2>3, <3>3, TokenKept
    <2>5. CASE m.kind = "keepalive" /\ link = c
      <3>1. CASE ~InLoop(c)
        BY <2>1, <2>2, <3>1 DEF TokenInv
      <3>2. CASE InLoop(c)
        <4>1. Named(c) /\ Armed(c)
          BY <2>2, <3>2 DEF TokenInv
        <4>2. PICK p \in Whereabouts : Under(c, p) /\ Awaited(c, p)
          BY <2>2, <3>2 DEF TokenInv
        <4>3. /\ KeepalivesOf(toClient) # {} /\ KeepalivesOf(toClient') = {}
              /\ m.id = pending[c]
          BY <1>1, <1>2, <1>4, <1>9, <2>5, <4>1, KeepaliveRead DEF Named
        <4>4. p = "sent"
          BY <2>5, <4>2, <4>3 DEF Under, KeepalivesOf, KeepalivesSent
        <4>5. ack'[c] # "none" /\ report'[c] # "off" /\ keepalive'[c] = "off"
          BY <1>3, <4>1, <4>2, <4>4 DEF Awaited, Armed
        <4>6. clientPc' = "ack" /\ reply' = pending'[c] /\ link' = c
          BY <1>3, <1>6, <1>7, <1>9, <2>5, <4>3 DEF Expected
        <4>7. Sole(toClient', pending'[c])
          BY <4>3 DEF Sole
        <4>8. Named(c)'
          BY <1>2, <1>3, <4>1, <4>6, <4>7 DEF Named
        <4>9. Under(c, "acking")'
          BY <1>2, <1>3, <4>2, <4>3, <4>4, <4>6 DEF Under, KeepalivesOf, KeepalivesSent
        <4> QED BY <2>1, <4>5, <4>8, <4>9, TokenAt DEF Whereabouts
      <3> QED BY <3>1, <3>2
    <2> QED BY <2>4, <2>5
  <1> QED BY <1>7, <1>10, <1>11, <1>12 DEF LinkInv

LEMMA WritesLink ==
    ASSUME LoopTypes, LinkInv, ClientWrites
    PROVE  LinkInv'
  <1>1. /\ UNCHANGED <<pc, report, keepalive, ack, pending, reader, read, input>>
        /\ Stopping' = Stopping /\ \A d \in Conns : InLoop(d)' = InLoop(d)
    BY ClientFrame DEF ClientWrites
  <1>2. PhaseInv /\ LinkTypes
    BY DEF LinkInv
  <1>3. /\ UNCHANGED <<link, dialled, toClient, clientErr, reply>>
        /\ \/ /\ clientPc = "configure" /\ clientPc' = "response"
              /\ toServer' = [toServer EXCEPT ![link] = Append(@, 0)]
           \/ /\ clientPc = "ack" /\ clientPc' = "serve"
              /\ toServer' = [toServer EXCEPT ![link] = Append(@, reply)]
    BY <1>2 DEF ClientWrites, Client!WriteConfig, Client!Ack, Client!AckEarly, Client!Goto, PhaseInv
  <1>4. clientPc \in Connected /\ clientPc' \in Connected
    BY <1>3 DEF Connected, Client!Serving
  <1>5. link \in dialled /\ link \in Conns
    BY <1>2, <1>4 DEF LinkTypes
  <1>6. PICK i \in Nat : toServer' = [toServer EXCEPT ![link] = Append(@, i)]
    BY <1>2, <1>3 DEF LinkTypes
  <1>7. /\ toServer[link] \in Seq(Nat) /\ toServer' \in [Conns -> Seq(Nat)]
        /\ \A d \in Conns : d # link => toServer'[d] = toServer[d]
    <2>1. toServer[link] \in Seq(Nat)
      BY <1>2, <1>5 DEF LinkTypes
    <2>2. Append(toServer[link], i) \in Seq(Nat)
      BY <2>1
    <2> QED BY <1>2, <1>5, <1>6, <2>1, <2>2 DEF LinkTypes
  <1>8. LinkTypes'
    BY <1>1, <1>2, <1>3, <1>4, <1>5, <1>7 DEF LinkTypes, Connected
  <1>9. CASE clientPc = "configure"
    <2>1. /\ toServer'[link] = <<0>> /\ ~InLoop(link) /\ toClient = <<>>
          /\ pc[link] # "outside" /\ clientPc' = "response"
      <3>1. toServer[link] = <<>> /\ ~InLoop(link) /\ toClient = <<>> /\ pc[link] # "outside"
        BY <1>2, <1>9 DEF PhaseInv
      <3>2. toServer'[link] = Append(toServer[link], 0) /\ clientPc' = "response"
        BY <1>2, <1>3, <1>5, <1>9 DEF LinkTypes
      <3> QED BY <3>1, <3>2
    <2>2. PhaseInv'
      BY <1>1, <1>3, <1>5, <2>1 DEF PhaseInv, Client!Serving
    <2>3. ASSUME NEW d \in Conns PROVE FreshInv(d)' /\ TokenInv(d)'
      <3>1. FreshInv(d) /\ TokenInv(d)
        BY DEF LinkInv
      <3>2. FreshInv(d)'
        <4>1. toServer'[d] = toServer[d] \/ toServer'[d] = <<0>>
          BY <1>7, <2>1
        <4> QED BY <1>1, <3>1, <4>1 DEF FreshInv
      <3>3. CASE d = link
        BY <1>1, <2>1, <3>2, <3>3 DEF TokenInv
      <3>4. CASE d # link
        <4>1. Followed(d)
          BY <1>3, <3>4 DEF Followed
        <4>2. Unmoved(d)
          BY <1>1, <1>7, <3>4 DEF Unmoved
        <4> QED BY <3>1, <3>2, <4>1, <4>2, TokenKept
      <3> QED BY <3>3, <3>4
    <2> QED BY <1>3, <1>8, <2>2, <2>3 DEF LinkInv
  <1>10. CASE clientPc = "ack"
    <2>1. /\ pc[link] \notin {"outside", "handshake"} /\ Stream(toClient) /\ clientPc' = "serve"
      BY <1>2, <1>3, <1>10 DEF PhaseInv, Client!Serving
    <2>2. PhaseInv'
      BY <1>1, <1>3, <2>1 DEF PhaseInv, Client!Serving
    <2>3. toServer'[link] = Append(toServer[link], reply)
      BY <1>2, <1>3, <1>5, <1>10 DEF LinkTypes
    <2>4. ASSUME NEW d \in Conns PROVE FreshInv(d)' /\ TokenInv(d)'
      <3>1. FreshInv(d) /\ TokenInv(d)
        BY DEF LinkInv
      <3>2. FreshInv(d)'
        BY <1>1, <1>7, <2>1, <3>1 DEF FreshInv
      <3>3. CASE d # link
        <4>1. Followed(d)
          BY <1>3, <3>3 DEF Followed
        <4>2. Unmoved(d)
          BY <1>1, <1>7, <3>3 DEF Unmoved
        <4> QED BY <3>1, <3>2, <4>1, <4>2, TokenKept
      <3>4. CASE d = link /\ ~InLoop(d)
        BY <1>1, <3>2, <3>4 DEF TokenInv
      <3>5. CASE d = link /\ InLoop(d)
        <4>1. Named(d) /\ Armed(d)
          BY <3>1, <3>5 DEF TokenInv
        <4>2. PICK p \in Whereabouts : Under(d, p) /\ Awaited(d, p)
          BY <3>1, <3>5 DEF TokenInv
        <4>3. p = "acking"
          BY <1>10, <3>5, <4>2 DEF Under
        <4>4. ack'[d] # "none" /\ report'[d] # "off" /\ keepalive'[d] = "off"
          BY <1>1, <4>1, <4>2, <4>3 DEF Awaited, Armed
        <4>5. toServer'[d] = <<pending'[d]>>
          <5>1. toServer[d] = <<>> /\ reply = pending'[d]
            BY <1>1, <1>10, <3>5, <4>1, <4>2, <4>3 DEF Under, Named
          <5>2. toServer'[d] = Append(<<>>, pending'[d])
            BY <2>3, <3>5, <5>1
          <5> QED BY ONLY <5>2
        <4>6. clientPc' # "ack" /\ link' = link /\ toClient' = toClient
          BY <1>3, <2>1
        <4>7. Named(d)'
          BY <1>1, <4>1, <4>5, <4>6 DEF Named
        <4>8. toServer'[d] # <<>>
          BY ONLY <4>5
        <4>9. Under(d, "acked")'
          BY <1>1, <4>2, <4>3, <4>6, <4>8 DEF Under, KeepalivesSent
        <4> QED BY <3>2, <4>4, <4>7, <4>9, TokenAt DEF Whereabouts
      <3> QED BY <3>3, <3>4, <3>5
    <2> QED BY <1>3, <1>8, <2>2, <2>4 DEF LinkInv
  <1> QED BY <1>3, <1>9, <1>10

LEMMA ElseLinks ==
    ASSUME LinkInv, ClientElse
    PROVE  LinkInv'
  <1>1. /\ UNCHANGED <<pc, report, keepalive, ack, pending, reader, read, input>>
        /\ Stopping' = Stopping /\ \A d \in Conns : InLoop(d)' = InLoop(d)
    BY ClientFrame DEF ClientElse
  <1>2. PhaseInv /\ LinkTypes /\ clientErr # "protocol"
    BY DEF LinkInv
  <1>3. Onward /\ Keeps(toClient) /\ UNCHANGED <<dialled, toServer>>
    BY ElseIs DEF ClientElse
  <1>4. clientErr' # "protocol" /\ reply' = reply
    BY <1>2, <1>3 DEF Onward
  <1>5. \/ /\ link' = link /\ toClient' = toClient
           /\ clientPc' = clientPc \/ {clientPc, clientPc'} \subseteq {"accepted", "serve", "read", "hand", "count"}
        \/ clientPc' \notin Connected /\ link' = NoLink /\ toClient' = <<>>
    BY <1>3 DEF Keeps, Onward
  <1>6. LinkTypes'
    <2>1. CASE link' = link /\ (clientPc' \in Connected <=> clientPc \in Connected) /\ toClient' = toClient
      BY <1>1, <1>2, <1>3, <1>4, <2>1 DEF LinkTypes, Connected
    <2>2. CASE clientPc' \notin Connected /\ link' = NoLink /\ toClient' = <<>>
      <3>1. toClient' \in Seq(Sent)
        BY <2>2
      <3>2. clientPc' \in Connected <=> link' # NoLink
        BY <2>2
      <3>3. \A c \in Conns : c \notin dialled' => pc'[c] = "outside" /\ toServer'[c] = <<>>
        BY <1>1, <1>2, <1>3 DEF LinkTypes
      <3>4. dialled' \subseteq Conns /\ toServer' \in [Conns -> Seq(Nat)] /\ reply' \in Nat
        BY <1>2, <1>3, <1>4 DEF LinkTypes
      <3> QED BY <2>2, <3>1, <3>2, <3>3, <3>4 DEF LinkTypes, Connected
    <2>3. {clientPc, clientPc'} \subseteq {"accepted", "serve", "read", "hand", "count"} =>
             clientPc \in Connected /\ clientPc' \in Connected
      BY DEF Connected, Client!Serving
    <2> QED BY <1>5, <2>1, <2>2, <2>3
  <1>7. PhaseInv'
    <2>1. CASE clientPc' \notin Connected
      BY <2>1 DEF PhaseInv, Connected
    <2>2. CASE link' = link /\ toClient' = toClient /\ link \notin Conns
      <3>1. clientPc' \notin Connected
        BY <1>2, <1>6, <2>2 DEF LinkTypes
      <3> QED BY <2>1, <3>1
    <2>3. CASE link' = link /\ toClient' = toClient /\ clientPc' = clientPc /\ link \in Conns
      BY <1>1, <1>2, <1>3, <2>3 DEF PhaseInv
    <2>4. CASE /\ link' = link /\ toClient' = toClient
               /\ {clientPc, clientPc'} \subseteq {"accepted", "serve", "read", "hand", "count"}
      BY <1>1, <1>2, <1>3, <2>4 DEF PhaseInv, Client!Serving
    <2> QED BY <1>5, <2>1, <2>2, <2>3, <2>4
  <1>8. ASSUME NEW c \in Conns PROVE FreshInv(c)' /\ TokenInv(c)'
    <2>1. FreshInv(c) /\ TokenInv(c)
      BY DEF LinkInv
    <2>2. FreshInv(c)'
      BY <1>1, <1>3, <2>1 DEF FreshInv
    <2>3. Followed(c)
      <3>1. link' = c => link = c /\ toClient' = toClient /\ (clientPc' = "ack" <=> clientPc = "ack")
        BY <1>5, LinkAssumption
      <3> QED BY <1>4, <3>1 DEF Followed, KeepalivesSent
    <2>4. Unmoved(c)
      BY <1>1, <1>3 DEF Unmoved
    <2> QED BY <2>1, <2>2, <2>3, <2>4, TokenKept
  <1> QED BY <1>4, <1>6, <1>7, <1>8 DEF LinkInv

-----------------------------------------------------------------------------
(* The emulator's steps in Link                                            *)

LEMMA StoppingStays ==
    ASSUME NEW c \in Conns, StepAt(c)
    PROVE  UNCHANGED <<server, cancelled>> /\ Stopping' = Stopping
  <1> USE DEF serverVars
  <1>1. CASE Accept(c) \/ Reject(c) \/ Timer(c) \/ Read(c)
    BY <1>1 DEF Accept, Reject, Timer, Read, Stopping
  <1>2. CASE Worker(c)
    BY <1>2 DEF Worker, ReadFails, Deliver, Drop, Stopping
  <1>3. CASE Handshake(c) \/ NextCycle(c) \/ Frame(c) \/ FrameFails(c)
    BY <1>3 DEF Handshake, NextCycle, Frame, FrameFails, End, Stopping
  <1>4. CASE Loop(c) \/ Select(c)
    <2>1. UNCHANGED <<server, cancelled>>
      BY <1>4 DEF Loop, Select, Handle, ReportDue, KeepaliveDue, AckDue, End
    <2> QED BY <2>1 DEF Stopping
  <1>5. CASE Closed(c) \/ Release(c) \/ Leave(c)
    BY <1>5 DEF Closed, Release, Leave, Stopping
  <1> QED BY <1>1, <1>2, <1>3, <1>4, <1>5 DEF StepAt, Serve

\* A step at connection c, and what it sends to it.
ServesOnly(c) ==
    /\ OnlyAt(c) /\ Stopping' = Stopping
    /\ UNCHANGED <<clientVars, link, dialled>>
    /\ link # c => toClient' = toClient
    /\ toServer' \in [Conns -> Seq(Nat)] /\ \A d \in Conns : d # c => toServer'[d] = toServer[d]

LEMMA OthersKept ==
    ASSUME LinkInv, NEW c \in Conns, ServesOnly(c), NEW d \in Conns, d # c
    PROVE  FreshInv(d)' /\ TokenInv(d)'
  <1>1. /\ pc'[d] = pc[d] /\ report'[d] = report[d] /\ keepalive'[d] = keepalive[d]
        /\ ack'[d] = ack[d] /\ pending'[d] = pending[d] /\ reader'[d] = reader[d]
        /\ read'[d] = read[d] /\ input'[d] = input[d] /\ toServer'[d] = toServer[d]
    BY DEF ServesOnly, OnlyAt
  <1>2. link' = link /\ clientPc' = clientPc /\ reply' = reply /\ (link = d => toClient' = toClient)
    BY DEF ServesOnly, clientVars
  <1>3. FreshInv(d) /\ TokenInv(d)
    BY DEF LinkInv
  <1>4. FreshInv(d)'
    BY <1>1, <1>3 DEF FreshInv
  <1>5. Followed(d)
    BY <1>2 DEF Followed, KeepalivesSent
  <1>6. Unmoved(d)
    BY <1>1 DEF Unmoved, InLoop, ServesOnly
  <1> QED BY <1>3, <1>4, <1>5, <1>6, TokenKept

\* What is left to show of a step at c.
LEMMA ServerKeeps ==
    ASSUME LinkInv, NEW c \in Conns, ServesOnly(c),
           c \in dialled \/ (pc'[c] = "outside" /\ toServer'[c] = <<>>),
           toClient' \in Seq(Sent), link = c => PhaseInv', FreshInv(c)', TokenInv(c)'
    PROVE  LinkInv'
  <1>1. /\ link' = link /\ dialled' = dialled /\ reply' = reply /\ clientPc' = clientPc
        /\ clientErr' = clientErr
    BY DEF ServesOnly, clientVars
  <1>2. LinkTypes'
    <2>1. ASSUME NEW d \in Conns, d \notin dialled PROVE pc'[d] = "outside" /\ toServer'[d] = <<>>
      <3>1. CASE d = c
        BY <2>1, <3>1
      <3>2. CASE d # c
        BY <2>1, <3>2 DEF LinkInv, LinkTypes, ServesOnly, OnlyAt
      <3> QED BY <3>1, <3>2
    <2>2. toServer' \in [Conns -> Seq(Nat)]
      BY DEF ServesOnly
    <2> QED BY <1>1, <2>1, <2>2 DEF LinkInv, LinkTypes, Connected
  <1>3. PhaseInv'
    <2>1. CASE clientPc \notin Connected
      BY <1>1, <2>1 DEF PhaseInv, Connected
    <2>2. CASE clientPc \in Connected /\ link # c
      <3>1. /\ pc'[link] = pc[link] /\ toServer'[link] = toServer[link] /\ toClient' = toClient
        BY <2>2 DEF LinkInv, LinkTypes, ServesOnly, OnlyAt
      <3> QED BY <1>1, <3>1 DEF LinkInv, PhaseInv, InLoop
    <2> QED BY <2>1, <2>2
  <1>4. clientErr' # "protocol"
    BY <1>1 DEF LinkInv
  <1> QED BY <1>2, <1>3, <1>4, OthersKept DEF LinkInv

LEMMA AcceptsLinks ==
    ASSUME Types, LoopTypes, WorkerInv, LinkInv, NEW c \in Conns, Accepts(c),
           UNCHANGED <<clientVars, link, dialled>>
    PROVE  LinkInv'
  <1>1. /\ c \in dialled /\ Accept(c) /\ toServer' = toServer
        /\ toClient' = IF link = c THEN Append(toClient, [kind |-> "notification"]) ELSE toClient
    BY DEF Accepts, Send
  <1>2. /\ pc[c] = "outside" /\ pc' = [pc EXCEPT ![c] = "handshake"] /\ pc'[c] = "handshake"
        /\ UNCHANGED <<report, keepalive, ack, pending, reader, read, input>>
    BY <1>1 DEF Accept, Types
  <1>3. PhaseInv /\ LinkTypes /\ FreshInv(c)
    BY DEF LinkInv
  <1>4. ServesOnly(c)
    <2>1. OnlyAt(c) /\ Stopping' = Stopping
      BY <1>1, StepAtIs, StoppingStays DEF StepAt
    <2> QED BY <1>1, <1>3, <2>1 DEF ServesOnly, LinkTypes
  <1>5. toClient' \in Seq(Sent)
    <2>1. [kind |-> "notification"] \in Sent
      BY DEF Sent
    <2> QED BY <1>1, <1>3, <2>1, StreamGrows DEF LinkTypes
  <1>6. ASSUME link = c PROVE PhaseInv'
    <2>1. clientPc' = clientPc /\ clientPc \in Connected /\ link' = c
      BY <1>3, <1>6, LinkAssumption DEF LinkTypes, clientVars
    <2>2. clientPc = "notification" /\ toClient = <<>> /\ toServer[c] = <<>>
      BY <1>2, <1>3, <1>6, <2>1 DEF PhaseInv, Connected
    <2>3. toClient' = <<[kind |-> "notification"]>>
      <3>1. toClient' = Append(<<>>, [kind |-> "notification"])
        BY <1>1, <1>6, <2>2
      <3> QED BY ONLY <3>1
    <2>4. toServer'[c] = <<>>
      BY <1>1, <2>2
    <2> QED BY <1>2, <2>1, <2>2, <2>3, <2>4 DEF PhaseInv, InLoop, Client!Serving
  <1>7. FreshInv(c)'
    BY <1>1, <1>2, <1>3 DEF FreshInv
  <1>8. TokenInv(c)'
    BY <1>2 DEF TokenInv, InLoop
  <1> QED BY <1>1, <1>4, <1>5, <1>6, <1>7, <1>8, ServerKeeps

LEMMA AnswersLinks ==
    ASSUME Types, LoopTypes, WorkerInv, LinkInv, NEW c \in Conns, Answers(c),
           UNCHANGED <<clientVars, link, dialled>>
    PROVE  LinkInv'
  <1>1. /\ Handshake(c) /\ pc'[c] = "cycle" /\ toServer[c] # <<>>
        /\ toServer' = [toServer EXCEPT ![c] = Tail(@)]
        /\ toClient' = IF link = c THEN Append(toClient, [kind |-> "response"]) ELSE toClient
    BY DEF Answers, Send
  <1>2. /\ pc[c] = "handshake" /\ pc'[c] = "cycle" /\ reader'[c] = "reading"
        /\ UNCHANGED <<report, keepalive, ack, pending, read, input>>
    BY <1>1 DEF Handshake, End, Types
  <1>3. PhaseInv /\ LinkTypes /\ FreshInv(c)
    BY DEF LinkInv
  <1>4. toServer[c] = <<0>> /\ toServer'[c] = <<>>
    <2>1. toServer[c] = <<0>>
      BY <1>1, <1>2, <1>3 DEF FreshInv
    <2>2. Tail(<<0>>) = <<>>
      OBVIOUS
    <2>3. toServer'[c] = Tail(toServer[c])
      BY <1>1, <1>3 DEF LinkTypes
    <2> QED BY <2>1, <2>2, <2>3
  <1>5. ServesOnly(c)
    <2>1. OnlyAt(c) /\ Stopping' = Stopping
      BY <1>1, StepAtIs, StoppingStays DEF StepAt, Serve
    <2>2. toServer' \in [Conns -> Seq(Nat)]
      <3>1. Tail(toServer[c]) \in Seq(Nat)
        BY <1>1, <1>3 DEF LinkTypes
      <3> QED BY <1>1, <1>3, <3>1 DEF LinkTypes
    <2>3. \A d \in Conns : d # c => toServer'[d] = toServer[d]
      BY <1>1, <1>3 DEF LinkTypes
    <2> QED BY <1>1, <2>1, <2>2, <2>3 DEF ServesOnly
  <1>6. toClient' \in Seq(Sent)
    <2>1. [kind |-> "response"] \in Sent
      BY DEF Sent
    <2> QED BY <1>1, <1>3, <2>1, StreamGrows DEF LinkTypes
  <1>7. ASSUME link = c
        PROVE  /\ clientPc' = "response" /\ link' = c
               /\ toClient' # <<>> /\ Head(toClient').kind = "response" /\ Tail(toClient') = <<>>
    <2>1. clientPc' = clientPc /\ clientPc \in Connected /\ link' = c
      BY <1>3, <1>7, LinkAssumption DEF LinkTypes, clientVars
    <2>2. clientPc = "response" /\ toClient = <<>>
      BY <1>1, <1>2, <1>3, <1>7, <2>1 DEF PhaseInv, Connected
    <2>3. toClient' = Append(<<>>, [kind |-> "response"])
      BY <1>1, <1>7, <2>2
    <2>4. toClient' # <<>> /\ Head(toClient') = [kind |-> "response"] /\ Tail(toClient') = <<>>
      BY ONLY <2>3
    <2> QED BY <2>1, <2>2, <2>4
  <1>8. ASSUME link = c PROVE PhaseInv'
    <2>1. Stream(Tail(toClient'))
      BY <1>7, <1>8 DEF Stream
    <2> QED BY <1>2, <1>7, <1>8, <2>1 DEF PhaseInv, Client!Serving
  <1>9. FreshInv(c)'
    BY <1>2, <1>3 DEF FreshInv
  <1>10. TokenInv(c)'
    <2>1. link' = c => KeepalivesSent' = {} /\ clientPc' # "ack"
      <3>1. ASSUME link' = c PROVE KeepalivesSent' = {} /\ clientPc' # "ack"
        <4>1. link = c
          BY <3>1
        <4>2. toClient \in Seq(Sent) /\ [kind |-> "response"] \in Sent
          BY <1>3 DEF LinkTypes, Sent
        <4>3. toClient = <<>>
          BY <1>1, <1>2, <1>3, <1>7, <4>1 DEF PhaseInv, clientVars
        <4>4. KeepalivesOf(toClient) = {}
          BY <4>3 DEF KeepalivesOf
        <4>5. KeepalivesOf(toClient') = {}
          BY <1>1, <4>1, <4>2, <4>4, OtherSent
        <4> QED BY <1>7, <4>1, <4>5 DEF KeepalivesOf, KeepalivesSent
      <3> QED BY <3>1
    <2>2. /\ Acks(read'[c]) = {} /\ Acks(input'[c]) = {} /\ ack'[c] = "none"
          /\ keepalive'[c] = "off"
      BY <1>2, <1>3 DEF FreshInv
    <2> QED BY <1>4, <2>1, <2>2, TokenNowhere
  <1>11. c \in dialled
    BY <1>2, <1>3 DEF LinkTypes
  <1> QED BY <1>5, <1>6, <1>8, <1>9, <1>10, <1>11, ServerKeeps

\* Once it has answered the handshake the emulator sends reports and keepalives.
LEMMA SentPhase ==
    ASSUME LinkInv, NEW c \in Conns, link = c, NEW m \in Sent, m.kind \in {"report", "keepalive"},
           InLoop(c), pc'[c] \notin {"outside", "handshake"}, toClient' = Append(toClient, m),
           UNCHANGED <<clientPc, link>>
    PROVE  PhaseInv'
  <1>1. clientPc \in Connected /\ toClient \in Seq(Sent) /\ PhaseInv
    BY LinkAssumption DEF LinkInv, LinkTypes
  <1>2. /\ clientPc \in {"response"} \cup Client!Serving
        /\ clientPc = "response" =>
              toClient # <<>> /\ Head(toClient).kind = "response" /\ Stream(Tail(toClient))
        /\ clientPc \in Client!Serving => Stream(toClient)
    BY <1>1 DEF PhaseInv, Connected, InLoop
  <1>3. Stream(toClient) => Stream(toClient')
    BY <1>1, StreamGrows
  <1>4. ASSUME toClient # <<>>, Stream(Tail(toClient))
        PROVE  toClient' # <<>> /\ Head(toClient') = Head(toClient) /\ Stream(Tail(toClient'))
    <2>1. Tail(toClient) \in Seq(Sent)
      BY <1>1, <1>4
    <2>2. /\ toClient' # <<>> /\ Head(toClient') = Head(toClient)
          /\ Tail(toClient') = Append(Tail(toClient), m)
      BY <1>1, <1>4, StreamGrows
    <2>3. Stream(Append(Tail(toClient), m))
      BY <1>4, <2>1, StreamGrows
    <2> QED BY <2>2, <2>3
  <1> QED BY <1>2, <1>3, <1>4 DEF PhaseInv, Client!Serving

LEMMA ReportsLinks ==
    ASSUME Types, LoopTypes, WorkerInv, LinkInv, NEW c \in Conns, Reports(c),
           UNCHANGED <<clientVars, link, dialled>>
    PROVE  LinkInv'
  <1>1. PICK n \in 0..MaxReport : Send(c, [kind |-> "report", n |-> n])
    BY DEF Reports
  <1>2. PICK m : m = [kind |-> "report", n |-> n]
    OBVIOUS
  <1>3. /\ m \in Sent /\ m.kind = "report" /\ Frame(c) /\ toServer' = toServer
        /\ toClient' = IF link = c THEN Append(toClient, m) ELSE toClient
    BY <1>1, <1>2 DEF Reports, Send, Sent
  <1>4. /\ pc[c] = "frame" /\ pc'[c] \in {"frame", "loop"}
        /\ UNCHANGED <<ack, pending, reader, read, input>>
        /\ \/ report' = report /\ keepalive' = keepalive
           \/ /\ report'[c] = "armed"
              /\ keepalive'[c] = IF report[c] = "off" THEN "armed" ELSE keepalive[c]
    BY <1>3 DEF Frame, CycleWritten, Types, LoopTypes
  <1>5. PhaseInv /\ LinkTypes /\ FreshInv(c) /\ TokenInv(c)
    BY DEF LinkInv
  <1>6. ServesOnly(c)
    <2>1. OnlyAt(c) /\ Stopping' = Stopping
      BY <1>3, StepAtIs, StoppingStays DEF StepAt, Serve
    <2> QED BY <1>3, <1>5, <2>1 DEF ServesOnly, LinkTypes
  <1>7. toClient' \in Seq(Sent)
    BY <1>3, <1>5, StreamGrows DEF LinkTypes
  <1>8. clientPc' = clientPc /\ link' = link /\ reply' = reply
    BY DEF clientVars
  <1>9. ASSUME link = c PROVE PhaseInv'
    BY <1>3, <1>4, <1>8, <1>9, SentPhase DEF InLoop
  <1>10. FreshInv(c)'
    BY <1>4, <1>5 DEF FreshInv
  <1>11. TokenInv(c)'
    <2>1. Followed(c)
      <3>1. link = c => /\ KeepalivesOf(toClient') = KeepalivesOf(toClient)
                        /\ \A id : Sole(toClient, id) => Sole(toClient', id)
        BY <1>3, <1>5, OtherSent DEF LinkTypes
      <3> QED BY <1>8, <3>1 DEF Followed, KeepalivesSent, KeepalivesOf
    <2>2. Unmoved(c)
      BY <1>3, <1>4, <1>6 DEF Unmoved, InLoop, ServesOnly
    <2> QED BY <1>5, <2>1, <2>2, TokenKept
  <1>12. c \in dialled
    BY <1>4, <1>5 DEF LinkTypes
  <1> QED BY <1>6, <1>7, <1>9, <1>10, <1>11, <1>12, ServerKeeps

LEMMA ProbesLinks ==
    ASSUME Types, LoopTypes, WorkerInv, LinkInv, NEW c \in Conns, Probes(c),
           UNCHANGED <<clientVars, link, dialled>>
    PROVE  LinkInv'
  <1>1. PICK m : m = [kind |-> "keepalive", id |-> pending'[c]]
    OBVIOUS
  <1>2. /\ Select(c) /\ pending'[c] # pending[c] /\ toServer' = toServer
        /\ toClient' = IF link = c THEN Append(toClient, m) ELSE toClient
    BY <1>1 DEF Probes, Send
  <1>3. OnlyAt(c) /\ LoopTypes' /\ Stopping' = Stopping
    BY <1>2, StepAtIs, StoppingStays DEF StepAt, Serve
  <1>4. m \in Sent /\ m.kind = "keepalive" /\ m.id = pending'[c]
    <2>1. pending'[c] \in Nat
      BY <1>3 DEF LoopTypes
    <2> QED BY <1>1, <2>1 DEF Sent
  <1>5. /\ pc[c] = "select" /\ keepalive[c] = "due"
        /\ pc' = [pc EXCEPT ![c] = "loop"] /\ keepalive' = [keepalive EXCEPT ![c] = "off"]
        /\ ack' = [ack EXCEPT ![c] = "awaited"] /\ UNCHANGED <<report, reader, read, input>>
    BY <1>2 DEF Select, Handle, ReportDue, KeepaliveDue, AckDue, End
  <1>6. pc'[c] = "loop" /\ keepalive'[c] = "off" /\ ack'[c] = "awaited"
    BY <1>5 DEF Types, LoopTypes
  <1>7. PhaseInv /\ LinkTypes /\ FreshInv(c) /\ TokenInv(c)
    BY DEF LinkInv
  <1>8. ServesOnly(c)
    BY <1>2, <1>3, <1>7 DEF ServesOnly, LinkTypes
  <1>9. toClient' \in Seq(Sent)
    BY <1>2, <1>4, <1>7, StreamGrows DEF LinkTypes
  <1>10. clientPc' = clientPc /\ link' = link /\ reply' = reply
    BY DEF clientVars
  <1>11. ASSUME link = c PROVE PhaseInv'
    BY <1>2, <1>4, <1>5, <1>6, <1>10, <1>11, SentPhase DEF InLoop
  <1>12. FreshInv(c)'
    BY <1>5, <1>6, <1>7 DEF FreshInv
  <1>13. TokenInv(c)'
    <2>1. Named(c) /\ report[c] # "off" /\ ack[c] = "none"
      <3>1. Named(c) /\ Armed(c)
        BY <1>5, <1>7 DEF TokenInv, InLoop
      <3>2. report[c] # "off" /\ ack[c] = "none"
        BY <1>5, <3>1 DEF Armed
      <3> QED BY <3>1, <3>2
    <2>2. PICK p \in Whereabouts : Under(c, p) /\ Awaited(c, p)
      BY <1>5, <1>7 DEF TokenInv, InLoop
    <2>3. p = "nowhere"
      BY <2>1, <2>2 DEF Awaited
    <2>4. /\ toServer'[c] = <<>> /\ Acks(read'[c]) = {} /\ Acks(input'[c]) = {}
          /\ link = c => KeepalivesOf(toClient) = {} /\ clientPc # "ack"
      BY <1>2, <1>5, <2>2, <2>3 DEF Under, KeepalivesOf, KeepalivesSent
    <2>5. link = c => KeepalivesOf(toClient') # {} /\ Sole(toClient', pending'[c])
      BY <1>2, <1>4, <1>7, <2>4, KeepaliveSent DEF LinkTypes
    <2>6. Named(c)'
      BY <1>10, <2>4, <2>5 DEF Named
    <2>7. CASE link = c
      <3>1. Under(c, "sent")'
        BY <1>10, <2>4, <2>5, <2>7 DEF Under, KeepalivesOf, KeepalivesSent
      <3> QED BY <1>5, <1>6, <2>1, <2>6, <3>1, TokenAt DEF Whereabouts
    <2>8. CASE link # c
      <3>1. Under(c, "nowhere")'
        BY <1>10, <2>4, <2>8 DEF Under
      <3>2. Awaited(c, "nowhere")'
        BY <1>10, <2>8 DEF Awaited
      <3>3. report'[c] # "off" /\ keepalive'[c] = "off"
        BY <1>5, <1>6, <2>1
      <3> QED BY <2>6, <3>1, <3>2, <3>3 DEF TokenInv, Whereabouts, Armed
    <2> QED BY <2>7, <2>8
  <1>14. c \in dialled
    BY <1>5, <1>7 DEF LinkTypes
  <1> QED BY <1>8, <1>9, <1>11, <1>12, <1>13, <1>14, ServerKeeps

LEMMA ServerReadsLinks ==
    ASSUME Types, LoopTypes, WorkerInv, LinkInv, NEW c \in Conns, ServerReads(c),
           UNCHANGED <<clientVars, link, dialled>>
    PROVE  LinkInv'
  <1>1. /\ Read(c) /\ toServer[c] # <<>> /\ toServer' = [toServer EXCEPT ![c] = Tail(@)]
        /\ toClient' = toClient
        /\ read'[c][1].id = IF Head(toServer[c]) = pending[c] THEN pending[c] ELSE 0
    BY DEF ServerReads
  <1>2. OnlyAt(c) /\ LoopTypes' /\ Stopping' = Stopping
    BY <1>1, StepAtIs, StoppingStays DEF StepAt
  <1>3. PhaseInv /\ LinkTypes /\ FreshInv(c) /\ TokenInv(c)
    BY DEF LinkInv
  <1>4. /\ reader[c] = "reading" /\ reader'[c] = "holding"
        /\ UNCHANGED <<pc, report, keepalive, ack, pending, input>>
        /\ \E i \in {0, pending[c]} : read'[c] = <<[id |-> i, inTime |-> ack[c] # "due"]>>
    BY <1>1 DEF Read, Types, LoopTypes
  <1>5. pc[c] \notin {"outside", "handshake"}
    BY <1>4 DEF WorkerInv
  <1>6. Tail(toServer[c]) \in Seq(Nat) /\ toServer'[c] = Tail(toServer[c])
    BY <1>1, <1>3 DEF LinkTypes
  <1>7. ServesOnly(c)
    <2>1. toServer' \in [Conns -> Seq(Nat)]
      BY <1>1, <1>3, <1>6 DEF LinkTypes
    <2>2. \A d \in Conns : d # c => toServer'[d] = toServer[d]
      BY <1>1, <1>3 DEF LinkTypes
    <2> QED BY <1>1, <1>2, <2>1, <2>2 DEF ServesOnly
  <1>8. clientPc' = clientPc /\ link' = link /\ reply' = reply
    BY DEF clientVars
  <1>9. ASSUME link = c PROVE PhaseInv'
    <2>1. InLoop(c)' = InLoop(c)
      BY <1>4 DEF InLoop
    <2>2. clientPc \notin {"notification", "configure"}
      BY <1>1, <1>3, <1>9 DEF PhaseInv
    <2> QED BY <1>1, <1>3, <1>4, <1>8, <1>9, <2>1, <2>2 DEF PhaseInv
  <1>10. FreshInv(c)'
    BY <1>4, <1>5 DEF FreshInv
  <1>11. CASE ~InLoop(c)
    <2>1. TokenInv(c)'
      BY <1>4, <1>11 DEF TokenInv, InLoop
    <2> QED BY <1>1, <1>3, <1>5, <1>7, <1>9, <1>10, <2>1, ServerKeeps DEF LinkTypes
  <1>12. CASE InLoop(c)
    <2>1. Named(c) /\ Armed(c)
      BY <1>3, <1>12 DEF TokenInv
    <2>2. PICK p \in Whereabouts : Under(c, p) /\ Awaited(c, p)
      BY <1>3, <1>12 DEF TokenInv
    <2>3. p = "acked" /\ toServer[c] = <<pending[c]>>
      BY <1>1, <2>1, <2>2 DEF Under, Named
    <2>4. toServer'[c] = <<>> /\ Head(toServer[c]) = pending[c]
      <3>1. Tail(toServer[c]) = <<>> /\ Head(toServer[c]) = pending[c]
        BY ONLY <2>3
      <3> QED BY <1>6, <3>1
    <2>5. Acks(read'[c]) = {pending[c]}
      <3>1. PICK i \in {0, pending[c]} : read'[c] = <<[id |-> i, inTime |-> ack[c] # "due"]>>
        BY <1>4
      <3>2. read'[c][1].id = i
        BY <3>1
      <3>3. i = pending[c]
        BY <1>1, <2>4, <3>2
      <3> QED BY <3>1, <3>3, AcksAre
    <2>6. Named(c)'
      BY <1>1, <1>4, <1>8, <2>1, <2>4, <2>5 DEF Named
    <2>7. Under(c, "read")'
      BY <1>1, <1>4, <1>8, <2>2, <2>3, <2>4, <2>5 DEF Under, KeepalivesSent
    <2>8. ack'[c] # "none" /\ report'[c] # "off" /\ keepalive'[c] = "off"
      BY <1>4, <2>1, <2>2, <2>3 DEF Awaited, Armed
    <2>9. TokenInv(c)'
      BY <2>6, <2>7, <2>8, TokenAt DEF Whereabouts
    <2> QED BY <1>1, <1>3, <1>5, <1>7, <1>9, <1>10, <2>9, ServerKeeps DEF LinkTypes
  <1> QED BY <1>11, <1>12

-----------------------------------------------------------------------------
(* The emulator's steps that send nothing                                  *)

\* A step at c that sends nothing.
Settles(c) ==
    /\ pc'[c] = pc[c] \/ pc'[c] \notin {"outside", "handshake"}
    /\ pc[c] = "outside" /\ pc'[c] # "outside" => c \in dialled
    /\ InLoop(c)' => InLoop(c)
    /\ pc'[c] \in {"outside", "handshake"} =>
          /\ report'[c] = report[c] /\ keepalive'[c] = keepalive[c] /\ ack'[c] = ack[c]
          /\ Acks(input'[c]) = Acks(input[c]) /\ Acks(read'[c]) = Acks(read[c])
    /\ reader'[c] # "holding" => Acks(read'[c]) = {}

LEMMA SettlesLink ==
    ASSUME LinkInv, NEW c \in Conns, ServesOnly(c), UNCHANGED <<toClient, toServer>>,
           Settles(c), TokenInv(c)'
    PROVE  LinkInv'
  <1>1. PhaseInv /\ LinkTypes /\ FreshInv(c)
    BY DEF LinkInv
  <1>2. clientPc' = clientPc /\ link' = link
    BY DEF ServesOnly, clientVars
  <1>3. c \in dialled \/ (pc'[c] = "outside" /\ toServer'[c] = <<>>)
    BY <1>1 DEF Settles, LinkTypes
  <1>4. toClient' \in Seq(Sent)
    BY <1>1 DEF LinkTypes
  <1>5. ASSUME link = c PROVE PhaseInv'
    <2>1. /\ ~InLoop(link) => ~InLoop(link)'
          /\ pc[link] # "outside" => pc'[link] # "outside"
          /\ pc[link] # "handshake" => pc'[link] # "handshake"
          /\ pc[link] \notin {"outside", "handshake"} => pc'[link] \notin {"outside", "handshake"}
      <3>1. ~InLoop(c) => ~InLoop(c)'
        BY DEF Settles
      <3>2. InLoop(link)' = InLoop(c)'
        BY <1>2, <1>5 DEF InLoop
      <3>3. /\ pc[c] # "outside" => pc'[c] # "outside"
            /\ pc[c] # "handshake" => pc'[c] # "handshake"
            /\ pc[c] \notin {"outside", "handshake"} => pc'[c] \notin {"outside", "handshake"}
        BY DEF Settles
      <3> QED BY <1>5, <3>1, <3>2, <3>3
    <2> QED BY <1>1, <1>2, <2>1 DEF PhaseInv
  <1>6. FreshInv(c)'
    BY <1>1 DEF FreshInv, Settles
  <1> QED BY <1>3, <1>4, <1>5, <1>6, ServerKeeps

LEMMA EndSettles ==
    ASSUME Types, LoopTypes, LinkInv, NEW c \in Conns, NEW e, End(c, e),
           pc[c] \notin {"outside"}
    PROVE  Settles(c) /\ TokenInv(c)'
  <1>1. pc'[c] = "closing" /\ read' = read /\ reader' = reader
    BY EndIs
  <1>2. FreshInv(c)
    BY DEF LinkInv
  <1>3. ~InLoop(c)'
    BY <1>1 DEF InLoop
  <1> QED BY <1>1, <1>2, <1>3 DEF Settles, TokenInv, FreshInv

LEMMA HandleSettles ==
    ASSUME Types, LoopTypes, LinkInv, NEW c \in Conns, Handle(c), pc[c] \in {"loop", "select"},
           UNCHANGED <<clientVars, link, dialled, toClient, toServer>>
    PROVE  Settles(c) /\ TokenInv(c)'
  <1>1. CASE pc'[c] = "closing"
    <2>1. \/ \E e : End(c, e)
          \/ pc' = [pc EXCEPT ![c] = "loop"]
      BY DEF Handle
    <2>2. \E e : End(c, e)
      BY <1>1, <2>1 DEF Types
    <2> QED BY <2>2, EndSettles
  <1>2. CASE pc'[c] # "closing"
    <2>1. /\ ack' = [ack EXCEPT ![c] = "none"] /\ input' = [input EXCEPT ![c] = <<>>]
          /\ pc' = [pc EXCEPT ![c] = "loop"] /\ UNCHANGED <<reader, read>>
          /\ input[c] # <<>> /\ "error" \notin DOMAIN input[c][1]
      BY <1>2, HandleIs
    <2>2. ack'[c] = "none" /\ input'[c] = <<>> /\ pc'[c] = "loop" /\ Acks(input[c]) # {}
      BY <2>1 DEF Types, LoopTypes, Acks
    <2>3. FreshInv(c) /\ TokenInv(c)
      BY DEF LinkInv
    <2>4. PICK p \in Whereabouts : Under(c, p) /\ Awaited(c, p)
      BY <2>3 DEF TokenInv, InLoop
    <2>5. p = "queued"
      BY <2>2, <2>4 DEF Under
    <2>6. /\ toServer[c] = <<>> /\ Acks(read[c]) = {}
          /\ link = c => KeepalivesSent = {} /\ clientPc # "ack"
      BY <2>4, <2>5 DEF Under
    <2>7. report'[c] # "off"
      <3>1. report' = report
        BY <1>2, HandleIs
      <3> QED BY <2>3, <2>4, <2>5, <3>1 DEF TokenInv, InLoop, Armed, Awaited
    <2>8. Settles(c)
      BY <2>1, <2>2, <2>3 DEF Settles, FreshInv, InLoop
    <2>9. link' = link /\ clientPc' = clientPc /\ toClient' = toClient /\ toServer' = toServer
      BY DEF clientVars
    <2>10. Acks(read'[c]) = {} /\ Acks(input'[c]) = {} /\ toServer'[c] = <<>>
      BY <2>1, <2>2, <2>6, <2>9, AcksAre
    <2>11. link' = c => KeepalivesSent' = {} /\ clientPc' # "ack"
      BY <2>6, <2>9 DEF KeepalivesSent
    <2> QED BY <2>2, <2>7, <2>8, <2>10, <2>11, TokenNowhere
  <1> QED BY <1>1, <1>2

LEMMA UnmovedKept ==
    ASSUME LinkInv, NEW c \in Conns, UNCHANGED <<clientVars, link, toClient>>, Unmoved(c)
    PROVE  TokenInv(c)'
  <1>1. link' = link /\ toClient' = toClient /\ clientPc' = clientPc /\ reply' = reply
    BY DEF clientVars
  <1>2. Followed(c)
    BY <1>1 DEF Followed, KeepalivesSent
  <1>3. TokenInv(c)
    BY DEF LinkInv
  <1> QED BY <1>2, <1>3, TokenKept

\* A step of serve from one point of its loop to another that leaves the
\* keepalive, and what has been read, alone.
LEMMA RestSettles ==
    ASSUME LinkInv, NEW c \in Conns, UNCHANGED <<clientVars, link, toClient, toServer>>,
           Stopping' = Stopping, InLoop(c), pc'[c] \in {"cycle", "frame", "loop", "select"},
           reader'[c] = reader[c], read'[c] = read[c], input'[c] = input[c],
           pending'[c] = pending[c], ack'[c] = ack[c],
           \/ report'[c] = report[c] /\ keepalive'[c] = keepalive[c]
           \/ /\ report'[c] = "armed"
              /\ keepalive'[c] = IF report[c] = "off" THEN "armed" ELSE keepalive[c]
    PROVE  Settles(c) /\ TokenInv(c)'
  <1>1. FreshInv(c)
    BY DEF LinkInv
  <1>2. Settles(c)
    BY <1>1 DEF Settles, InLoop, FreshInv
  <1>3. Unmoved(c)
    BY DEF Unmoved
  <1> QED BY <1>2, <1>3, UnmovedKept

\* What serve has left needs no keepalive.
LEMMA OutSettles ==
    ASSUME LinkInv, NEW c \in Conns, pc'[c] \in {"release", "leave", "gone"},
           pc[c] = "outside" => c \in dialled, reader'[c] = reader[c], read'[c] = read[c]
    PROVE  Settles(c) /\ TokenInv(c)'
  <1>1. FreshInv(c) /\ ~InLoop(c)'
    BY DEF LinkInv, InLoop
  <1> QED BY <1>1 DEF Settles, TokenInv, FreshInv

LEMMA WorkerSettles ==
    ASSUME Types, LoopTypes, WorkerInv, LinkInv, NEW c \in Conns, Worker(c),
           UNCHANGED <<clientVars, link, toClient, toServer>>, Stopping' = Stopping
    PROVE  Settles(c) /\ TokenInv(c)'
  <1>1. /\ UNCHANGED <<pc, report, keepalive, ack, pending>> /\ reader[c] # "off"
        /\ pc[c] \notin {"outside", "handshake"}
    <2>1. UNCHANGED <<pc, report, keepalive, ack, pending>> /\ reader[c] # "off"
      BY DEF Worker, ReadFails, Deliver, Drop
    <2> QED BY <2>1 DEF WorkerInv
  <1>2. FreshInv(c) /\ TokenInv(c)
    BY DEF LinkInv
  <1>3. InLoop(c)' = InLoop(c) /\ pc'[c] = pc[c]
    BY <1>1 DEF InLoop
  <1>4. link' = link /\ toClient' = toClient /\ toServer' = toServer /\ clientPc' = clientPc
        /\ reply' = reply
    BY DEF clientVars
  <1>5. CASE ReadFails(c)
    <2>1. PICK e : read'[c] = <<[error |-> e]>>
      BY <1>5 DEF ReadFails, LoopTypes
    <2>2. /\ Acks(read[c]) = {} /\ Acks(read'[c]) = {} /\ input' = input /\ reader'[c] = "holding"
      <3>1. reader[c] = "reading" /\ reader'[c] = "holding" /\ input' = input
        BY <1>5 DEF ReadFails, Types
      <3>2. Acks(read'[c]) = {}
        BY <2>1, AcksAre
      <3> QED BY <1>2, <3>1, <3>2 DEF FreshInv
    <2>3. Settles(c)
      BY <1>1, <1>3, <2>2 DEF Settles
    <2>4. Unmoved(c)
      BY <1>1, <1>3, <1>4, <2>2 DEF Unmoved
    <2> QED BY <2>3, <2>4, UnmovedKept
  <1>6. CASE Deliver(c)
    <2>1. /\ input[c] = <<>> /\ input'[c] = read[c] /\ read'[c] = <<>>
          /\ reader'[c] \in {"off", "reading"}
      BY <1>6 DEF Deliver, Types, LoopTypes
    <2>2. Acks(read'[c]) = {} /\ Acks(input[c]) = {} /\ Acks(input'[c]) = Acks(read[c])
      BY <2>1, AcksAre
    <2>3. Settles(c)
      BY <1>1, <1>3, <2>1, <2>2 DEF Settles
    <2>4. CASE Acks(read[c]) = {}
      <3>1. Unmoved(c)
        BY <1>1, <1>3, <1>4, <2>2, <2>4 DEF Unmoved
      <3> QED BY <2>3, <3>1, UnmovedKept
    <2>5. CASE ~InLoop(c)
      BY <1>3, <2>3, <2>5 DEF TokenInv
    <2>6. CASE Acks(read[c]) # {} /\ InLoop(c)
      <3>1. Named(c) /\ Armed(c)
        BY <1>2, <2>6 DEF TokenInv
      <3>2. PICK p \in Whereabouts : Under(c, p) /\ Awaited(c, p)
        BY <1>2, <2>6 DEF TokenInv
      <3>3. p = "read"
        BY <2>6, <3>2 DEF Under
      <3>4. Named(c)'
        BY <1>1, <1>4, <2>2, <3>1 DEF Named
      <3>5. Under(c, "queued")'
        BY <1>4, <2>2, <2>6, <3>2, <3>3 DEF Under, KeepalivesSent
      <3>6. ack'[c] # "none" /\ report'[c] # "off" /\ keepalive'[c] = "off"
        BY <1>1, <3>1, <3>2, <3>3 DEF Awaited, Armed
      <3> QED BY <2>3, <3>4, <3>5, <3>6, TokenAt DEF Whereabouts
    <2> QED BY <2>4, <2>5, <2>6
  <1>7. CASE Drop(c)
    <2>1. /\ Stopping \/ pc[c] = "closing"
          /\ input' = input /\ read'[c] = <<>> /\ reader'[c] = "off"
      BY <1>7 DEF Drop, Types, LoopTypes
    <2>2. Acks(read'[c]) = {}
      BY <2>1, AcksAre
    <2>3. Settles(c)
      BY <1>1, <1>3, <2>1, <2>2 DEF Settles
    <2>4. CASE Acks(read[c]) = {}
      <3>1. Unmoved(c)
        BY <1>1, <1>3, <1>4, <2>1, <2>2, <2>4 DEF Unmoved
      <3> QED BY <2>3, <3>1, UnmovedKept
    <2>5. CASE ~InLoop(c)
      BY <1>3, <2>3, <2>5 DEF TokenInv
    <2>6. CASE Acks(read[c]) # {} /\ InLoop(c)
      <3>1. Named(c) /\ Armed(c)
        BY <1>2, <2>6 DEF TokenInv
      <3>2. PICK p \in Whereabouts : Under(c, p) /\ Awaited(c, p)
        BY <1>2, <2>6 DEF TokenInv
      <3>3. p = "read"
        BY <2>6, <3>2 DEF Under
      <3>4. Stopping'
        BY <2>1, <2>6 DEF InLoop
      <3>5. Named(c)' /\ Armed(c)'
        <4>1. Named(c)'
          BY <1>1, <1>4, <2>1, <2>2, <3>1 DEF Named
        <4>2. Armed(c)'
          BY <1>1, <3>1 DEF Armed
        <4> QED BY <4>1, <4>2
      <3>6. Under(c, "nowhere")'
        BY <1>4, <2>1, <2>2, <3>2, <3>3 DEF Under, KeepalivesSent
      <3>7. Awaited(c, "nowhere")'
        BY <3>4 DEF Awaited
      <3> QED BY <2>3, <3>5, <3>6, <3>7 DEF TokenInv, Whereabouts
    <2> QED BY <2>4, <2>5, <2>6
  <1> QED BY <1>5, <1>6, <1>7 DEF Worker

LEMMA TimerSettles ==
    ASSUME Types, LoopTypes, LinkInv, NEW c \in Conns, Timer(c),
           UNCHANGED <<clientVars, link, toClient, toServer>>, Stopping' = Stopping
    PROVE  Settles(c) /\ TokenInv(c)'
  <1>1. /\ UNCHANGED <<pc, pending, reader, read, input>>
        /\ \/ report[c] = "armed" /\ report'[c] = "due" /\ keepalive' = keepalive /\ ack' = ack
           \/ keepalive[c] = "armed" /\ keepalive'[c] = "due" /\ report' = report /\ ack' = ack
           \/ ack[c] = "awaited" /\ ack'[c] = "due" /\ report' = report /\ keepalive' = keepalive
    BY DEF Timer, LoopTypes
  <1>2. FreshInv(c)
    BY DEF LinkInv
  <1>3. pc[c] \notin {"outside", "handshake"}
    BY <1>1, <1>2 DEF FreshInv
  <1>4. InLoop(c)' = InLoop(c)
    BY <1>1 DEF InLoop
  <1>5. Settles(c)
    BY <1>1, <1>2, <1>3, <1>4 DEF Settles, FreshInv
  <1>6. CASE ~InLoop(c)
    BY <1>4, <1>5, <1>6 DEF TokenInv
  <1>7. CASE InLoop(c)
    <2>1. report[c] = "off" => keepalive[c] = "off"
      BY <1>7 DEF LinkInv, TokenInv, Armed
    <2>2. toServer'[c] = toServer[c]
      OBVIOUS
    <2>3. /\ report'[c] = "off" => report[c] = "off" /\ keepalive'[c] = keepalive[c]
          /\ keepalive'[c] # "off" => keepalive[c] # "off" \/ report[c] = "off"
          /\ ack'[c] = "none" <=> ack[c] = "none"
      BY <1>1, <2>1
    <2>4. Unmoved(c)
      BY <1>1, <1>4, <2>2, <2>3 DEF Unmoved
    <2> QED BY <1>5, <2>4, UnmovedKept
  <1> QED BY <1>6, <1>7

LEMMA ServeSettles ==
    ASSUME Types, LoopTypes, LinkInv, NEW c \in Conns,
           UNCHANGED <<clientVars, link, dialled, toClient, toServer>>, Stopping' = Stopping,
           \/ Handshake(c) /\ pc'[c] = "closing"
           \/ Select(c) /\ pending'[c] = pending[c]
           \/ NextCycle(c) \/ FrameFails(c) \/ Loop(c) \/ Closed(c) \/ Release(c) \/ Leave(c)
    PROVE  Settles(c) /\ TokenInv(c)'
  <1>1. ASSUME NEW e, End(c, e), pc[c] # "outside" PROVE Settles(c) /\ TokenInv(c)'
    BY <1>1, EndSettles
  <1>2. CASE Handshake(c) /\ pc'[c] = "closing"
    <2>1. pc[c] = "handshake" /\ \E e : End(c, e)
      BY <1>2 DEF Handshake, Types
    <2> QED BY <1>1, <2>1
  <1>3. CASE Select(c) /\ pending'[c] = pending[c]
    <2>0. pc[c] = "select"
      BY <1>3 DEF Select
    <2>1. CASE Handle(c)
      BY <2>0, <2>1, HandleSettles
    <2>2. CASE \E e : End(c, e)
      BY <1>1, <2>0, <2>2
    <2>3. CASE ReportDue(c)
      <3>1. /\ pc'[c] = "cycle"
            /\ UNCHANGED <<report, keepalive, ack, pending, reader, read, input>>
        BY <2>3 DEF ReportDue, Types
      <3> QED BY <2>0, <3>1, RestSettles DEF InLoop
    <2>4. CASE KeepaliveDue(c)
      <3>1. (\E e : End(c, e)) \/ pending' = [pending EXCEPT ![c] = @ + 1]
        BY <2>4 DEF KeepaliveDue
      <3>2. pending[c] \in Nat /\ (pending' = [pending EXCEPT ![c] = @ + 1] => pending'[c] = pending[c] + 1)
        BY DEF LoopTypes
      <3>3. \E e : End(c, e)
        BY <1>3, <3>1, <3>2
      <3> QED BY <2>2, <3>3
    <2> QED BY <1>3, <2>1, <2>2, <2>3, <2>4 DEF Select, AckDue
  <1>4. CASE NextCycle(c)
    <2>1. /\ pc[c] = "cycle" /\ pc'[c] \in {"frame", "loop"}
          /\ UNCHANGED <<ack, pending, reader, read, input>>
          /\ \/ report' = report /\ keepalive' = keepalive
             \/ /\ report'[c] = "armed"
                /\ keepalive'[c] = IF report[c] = "off" THEN "armed" ELSE keepalive[c]
      BY <1>4 DEF NextCycle, CycleWritten, Types, LoopTypes
    <2> QED BY <2>1, RestSettles DEF InLoop
  <1>5. CASE FrameFails(c)
    <2>1. pc[c] = "frame" /\ \E e : End(c, e)
      BY <1>5 DEF FrameFails
    <2> QED BY <1>1, <2>1
  <1>6. CASE Loop(c)
    <2>0. pc[c] = "loop"
      BY <1>6 DEF Loop
    <2>1. CASE Handle(c)
      BY <2>0, <2>1, HandleSettles
    <2>2. CASE \E e : End(c, e)
      BY <1>1, <2>0, <2>2
    <2>3. CASE pc' = [pc EXCEPT ![c] = "select"]
               /\ UNCHANGED <<report, keepalive, ack, pending, reader, read, input>>
      <3>1. pc'[c] = "select"
        BY <2>3 DEF Types
      <3> QED BY <2>0, <2>3, <3>1, RestSettles DEF InLoop
    <2> QED BY <1>6, <2>1, <2>2, <2>3 DEF Loop
  <1>7. CASE Closed(c) \/ Release(c) \/ Leave(c)
    <2>1. /\ pc[c] # "outside" /\ pc'[c] \in {"release", "leave", "gone"}
          /\ UNCHANGED <<reader, read>>
      BY <1>7 DEF Closed, Release, Leave, Types
    <2> QED BY <2>1, OutSettles
  <1> QED BY <1>2, <1>3, <1>4, <1>5, <1>6, <1>7

LEMMA ServerElseLinks ==
    ASSUME Types, LoopTypes, WorkerInv, LinkInv, NEW c \in Conns, ServerElse(c),
           UNCHANGED <<clientVars, link, dialled>>
    PROVE  LinkInv'
  <1>1. StepAt(c) /\ UNCHANGED <<toClient, toServer>>
    BY DEF ServerElse, StepAt, Serve, Worker
  <1>2. OnlyAt(c) /\ Stopping' = Stopping
    BY <1>1, StepAtIs, StoppingStays
  <1>3. ServesOnly(c)
    BY <1>1, <1>2 DEF ServesOnly, LinkInv, LinkTypes
  <1>4. CASE c \in dialled /\ Reject(c)
    <2>1. pc'[c] = "gone" /\ UNCHANGED <<reader, read>>
      BY <1>4 DEF Reject, Types
    <2>2. Settles(c) /\ TokenInv(c)'
      BY <1>4, <2>1, OutSettles
    <2> QED BY <1>1, <1>3, <2>2, SettlesLink
  <1>5. CASE Worker(c)
    <2>1. Settles(c) /\ TokenInv(c)'
      BY <1>1, <1>2, <1>5, WorkerSettles
    <2> QED BY <1>1, <1>3, <2>1, SettlesLink
  <1>6. CASE Timer(c)
    <2>1. Settles(c) /\ TokenInv(c)'
      BY <1>1, <1>2, <1>6, TimerSettles
    <2> QED BY <1>1, <1>3, <2>1, SettlesLink
  <1>7. CASE \/ Handshake(c) /\ pc'[c] = "closing"
             \/ Select(c) /\ pending'[c] = pending[c]
             \/ NextCycle(c) \/ FrameFails(c) \/ Loop(c) \/ Closed(c) \/ Release(c) \/ Leave(c)
    <2>1. Settles(c) /\ TokenInv(c)'
      BY <1>1, <1>2, <1>7, ServeSettles
    <2> QED BY <1>1, <1>3, <2>1, SettlesLink
  <1> QED BY <1>4, <1>5, <1>6, <1>7 DEF ServerElse, Worker

-----------------------------------------------------------------------------
(* The steps of Link                                                       *)

\* Nothing but the server's own state changes.
LEMMA StandsStill ==
    ASSUME LinkInv, Stopping => Stopping',
           UNCHANGED <<pc, report, keepalive, ack, pending, reader, read, input>>,
           UNCHANGED <<clientVars, link, dialled, toClient, toServer>>
    PROVE  LinkInv'
  <1>1. /\ clientPc' = clientPc /\ clientErr' = clientErr /\ reply' = reply /\ link' = link
        /\ dialled' = dialled /\ toClient' = toClient /\ toServer' = toServer
    BY DEF clientVars
  <1>2. LinkTypes'
    BY <1>1 DEF LinkInv, LinkTypes, Connected
  <1>3. PhaseInv'
    BY <1>1 DEF LinkInv, PhaseInv, InLoop
  <1>4. ASSUME NEW c \in Conns PROVE FreshInv(c)' /\ TokenInv(c)'
    <2>1. FreshInv(c)'
      BY <1>1 DEF LinkInv, FreshInv
    <2>2. Unmoved(c)
      BY <1>1 DEF Unmoved, InLoop
    <2> QED BY <2>1, <2>2, UnmovedKept
  <1> QED BY <1>1, <1>2, <1>3, <1>4 DEF LinkInv

LEMMA RunLinks ==
    ASSUME LinkInv, Listen \/ Cancel \/ Run \/ Replace,
           UNCHANGED <<clientVars, link, dialled, toClient, toServer>>
    PROVE  LinkInv'
  <1>1. UNCHANGED <<pc, report, keepalive, ack, pending, reader, read, input>>
    BY DEF Listen, Cancel, Run, AcceptFails, Return, Replace, session
  <1>2. Stopping => Stopping'
    BY DEF Listen, Cancel, Run, AcceptFails, Return, Joined, Replace, serverVars, Stopping
  <1> QED BY <1>1, <1>2, StandsStill

LEMMA ServerLinks ==
    ASSUME Types, LoopTypes, WorkerInv, LinkInv, Server
    PROVE  LinkInv'
  <1>1. UNCHANGED <<clientVars, link, dialled>>
    BY DEF Server
  <1>2. ASSUME NEW c \in Conns, Connection(c) PROVE LinkInv'
    BY <1>1, <1>2, AcceptsLinks, AnswersLinks, ReportsLinks, ProbesLinks, ServerReadsLinks,
       ServerElseLinks DEF Connection
  <1>3. CASE (Listen \/ Cancel \/ Run \/ Replace) /\ UNCHANGED <<toClient, toServer>>
    BY <1>1, <1>3, RunLinks
  <1> QED BY <1>2, <1>3 DEF Server

\* A step of Link is one of Emulator, or leaves it alone.
LEMMA EmulatorSteps ==
    ASSUME [LinkNext]_<<vars, clientVars, linkVars>>
    PROVE  \/ \E c \in Conns : StepAt(c)
           \/ Listen \/ Cancel \/ Run \/ Replace
           \/ UNCHANGED vars
  <1>1. ASSUME NEW c \in Conns, Connection(c) PROVE StepAt(c)
    BY <1>1 DEF Connection, Accepts, Answers, Reports, Probes, ServerReads, ServerElse,
                StepAt, Serve, Worker
  <1>2. CASE Server
    BY <1>1, <1>2 DEF Server
  <1>3. CASE ClientReads \/ ClientWrites \/ ClientElse \/ Over \/ \E c \in Conns : Dial(c)
    BY <1>3 DEF ClientReads, ClientWrites, ClientElse, Over, Dial
  <1> QED BY <1>2, <1>3 DEF LinkNext

LEMMA LoopTypesStep ==
    ASSUME Types, LoopTypes, [LinkNext]_<<vars, clientVars, linkVars>>
    PROVE  LoopTypes'
  <1>1. CASE \E c \in Conns : StepAt(c)
    BY <1>1, StepAtIs
  <1>2. CASE Listen \/ Cancel \/ Run \/ Replace \/ UNCHANGED vars
    <2>1. UNCHANGED <<report, keepalive, ack, pending, read, input>>
      BY <1>2 DEF Listen, Cancel, Run, AcceptFails, Return, Replace, vars, session
    <2> QED BY <2>1 DEF LoopTypes
  <1> QED BY <1>1, <1>2, EmulatorSteps

LEMMA LinkStep ==
    ASSUME Types, LoopTypes, WorkerInv, LinkInv, [LinkNext]_<<vars, clientVars, linkVars>>
    PROVE  LinkInv'
  <1>1. CASE Over \/ UNCHANGED <<vars, clientVars, linkVars>>
    <2>1. UNCHANGED <<vars, clientVars, linkVars>>
      BY <1>1 DEF Over, Client!Terminated, Client!vars, Client!sessionVars, clientVars
    <2>2. UNCHANGED <<link, dialled, toClient, toServer>>
      BY <2>1 DEF linkVars
    <2> QED BY <2>1, <2>2, ClientFrame, StandsStill
  <1> QED BY <1>1, ServerLinks, ReadsLink, WritesLink, ElseLinks, DialLinks DEF LinkNext

-----------------------------------------------------------------------------
(* What follows for Link                                                   *)

LEMMA LinkInvariance == LinkSpec => [](Types /\ WorkerInv /\ CountInv /\ LoopTypes /\ LinkInv)
  <1> DEFINE I == Types /\ WorkerInv /\ CountInv /\ LoopTypes /\ LinkInv
  <1>1. LinkInit => I
    BY TypesStart, WorkerStart, CountStart, LoopTypesStart, LinkStart DEF LinkInit
  <1>2. I /\ [LinkNext]_<<vars, clientVars, linkVars>> => I'
    <2> SUFFICES ASSUME I, [LinkNext]_<<vars, clientVars, linkVars>> PROVE I'
      OBVIOUS
    <2>1. [Next]_vars
      BY EmulatorSteps DEF Next, StepAt
    <2>2. Types' /\ WorkerInv' /\ CountInv'
      BY <2>1, TypesStep, WorkerStep, CountStep
    <2> QED BY <2>2, LoopTypesStep, LinkStep
  <1> QED BY <1>1, <1>2, PTL DEF LinkSpec

\* Neither end sees a message it does not expect: the session reads what it is
\* at the point to read, and what the emulator has read is the acknowledgement of
\* the keepalive that it sent last and awaits.
THEOREM NeitherAtFaultHolds == LinkSpec => []NeitherAtFault
  <1>1. LinkInv => NeitherAtFault
    <2> SUFFICES ASSUME LinkInv, NEW c \in Conns, InLoop(c), NEW id \in Acks(input[c])
                 PROVE  clientErr # "protocol" /\ ack[c] # "none" /\ id = pending[c]
      BY DEF LinkInv, NeitherAtFault
    <2>1. Named(c) /\ \E p \in Whereabouts : Under(c, p) /\ Awaited(c, p)
      BY DEF LinkInv, TokenInv
    <2>2. ack[c] # "none"
      BY <2>1 DEF Under, Awaited
    <2>3. id = pending[c]
      BY <2>1 DEF Named
    <2> QED BY <2>2, <2>3 DEF LinkInv
  <1> QED BY LinkInvariance, <1>1, PTL

LEMMA OneAtMost ==
    ASSUME NEW x, NEW S \in SUBSET {x}
    PROVE  Cardinality(S) = IF S = {} THEN 0 ELSE 1
  <1>1. S = {} \/ S = {x}
    OBVIOUS
  <1> QED BY <1>1, FS_EmptySet, FS_Singleton

\* While both ends have the connection, the emulator awaits an acknowledgement
\* exactly if one keepalive or acknowledgement is on its way.
THEOREM OneUnderWayHolds == LinkSpec => []OneUnderWay
  <1>1. LoopTypes /\ LinkInv => OneUnderWay
    <2> SUFFICES ASSUME LoopTypes, LinkInv, NEW c \in Conns, link = c, InLoop(c), ~Stopping
                 PROVE  UnderWay(c) = IF ack[c] = "none" THEN 0 ELSE 1
      BY DEF OneUnderWay
    <2>1. Named(c)
      BY DEF LinkInv, TokenInv
    <2>2. PICK p \in Whereabouts : Under(c, p) /\ Awaited(c, p)
      BY DEF LinkInv, TokenInv
    <2>3. Cardinality(KeepalivesSent) = IF p = "sent" THEN 1 ELSE 0
      <3>1. \E i : KeepalivesSent \subseteq {i}
        BY <2>1 DEF Named, Sole, KeepalivesOf, KeepalivesSent
      <3> QED BY <2>2, <3>1, OneAtMost DEF Under
    <2>4. Len(toServer[c]) = IF p = "acked" THEN 1 ELSE 0
      <3>1. toServer[c] = <<>> \/ toServer[c] = <<pending[c]>>
        BY <2>1 DEF Named
      <3>2. Len(<<>>) = 0 /\ Len(<<pending[c]>>) = 1 /\ <<pending[c]>> # <<>>
        OBVIOUS
      <3> QED BY <2>2, <3>1, <3>2 DEF Under
    <2>5. Cardinality(Acks(read[c])) = IF p = "read" THEN 1 ELSE 0
      BY <2>1, <2>2, OneAtMost DEF Named, Under
    <2>6. Cardinality(Acks(input[c])) = IF p = "queued" THEN 1 ELSE 0
      BY <2>1, <2>2, OneAtMost DEF Named, Under
    <2>7. clientPc = "ack" <=> p = "acking"
      BY <2>2 DEF Under
    <2>8. ack[c] = "none" <=> p = "nowhere"
      BY <2>2 DEF Awaited
    <2> QED BY <2>3, <2>4, <2>5, <2>6, <2>7, <2>8 DEF UnderWay, Whereabouts
  <1> QED BY LinkInvariance, <1>1, PTL

\* A session that reports itself ready has a connection that the emulator serves
\* in a slot, or has given up since.
THEOREM ReadyIsServedHolds == LinkSpec => []ReadyIsServed
  <1>1. Types /\ CountInv /\ LinkInv => ReadyIsServed
    <2> SUFFICES ASSUME Types, CountInv, LinkInv, clientPc \in Client!Serving
                 PROVE  /\ link \in Conns
                        /\ pc[link] \notin {"outside", "handshake"}
                        /\ link \in slots \/ pc[link] \in {"leave", "gone"}
      BY DEF ReadyIsServed
    <2>1. link \in Conns
      BY DEF LinkInv, LinkTypes, Connected
    <2>2. pc[link] \notin {"outside", "handshake"}
      BY DEF LinkInv, PhaseInv
    <2>3. link \in slots \/ pc[link] \in {"leave", "gone"}
      BY <2>1, <2>2 DEF CountInv, Served, Serving
    <2> QED BY <2>1, <2>2, <2>3
  <1> QED BY LinkInvariance, <1>1, PTL
=============================================================================
