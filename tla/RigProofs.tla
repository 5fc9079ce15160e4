----------------------------- MODULE RigProofs -----------------------------
(***************************************************************************)
(* Proofs about Rig, for every set of control connections, finite or not,  *)
(* every limit of connections and every number of replacements.            *)
(***************************************************************************)
EXTENDS Rig, TLAPS, FiniteSetTheorems

-----------------------------------------------------------------------------
(* What Run returns                                                        *)

RunTypes ==
    /\ pc \in {"new", "direct", "select", "shutdown", "join", "returned"}
    /\ first \in {"none", "context", "data", "control"}
    /\ cancelled \in BOOLEAN /\ expired \in BOOLEAN /\ listening \in BOOLEAN
    /\ dataErr \in {"none", "cancelled", "data failed"}
    /\ serveErr \in {"none", "server closed", "control failed"}

\* Where Run is, and how the goroutines it started have ended.
RunOrder ==
    /\ pc = "new" => serve = "off"
    /\ pc \in {"new", "direct", "select"} => first = "none" /\ ~expired
    /\ serve = "done" => ~listening /\ serveErr # "none"
    /\ first = "data" => data = "done" /\ dataErr \in result
    /\ first = "control" => serve = "done" /\ serveErr \in result

\* Where the errors at hand come from.
RunErrors ==
    /\ ~Shutting /\ dataErr = "cancelled" => cancelled
    /\ Shutting /\ "cancelled" \in result => cancelled
    /\ Shutting /\ expired => "deadline exceeded" \in result

RunResult ==
    pc = "returned" /\ Shutting =>
        /\ Ended
        /\ dataErr = "cancelled" \/ dataErr \in result
        /\ serveErr = "server closed" \/ serveErr \in result

\* ReturnTells is not inductive: what Run returns was put together from errors
\* that were decided earlier, and an error that says cancelled must come from a
\* cancellation, unless Run itself has cancelled and forgets it.
RunInv == RunTypes /\ RunOrder /\ RunErrors /\ RunResult

LEMMA RunInit == Init => RunInv
  BY DEF Init, RunInv, RunTypes, RunOrder, RunErrors, RunResult, Shutting

\* The errors that end a run are told apart by their names.
LEMMA RunStep == RunInv /\ [Next]_vars => RunInv'
  <1> SUFFICES ASSUME RunInv, [Next]_vars PROVE RunInv'
    OBVIOUS
  <1> USE DEF RunInv, RunTypes, RunOrder, RunErrors, RunResult, Shutting, Ended
  <1>1. CASE Data
    <2>1. /\ UNCHANGED <<pc, first, cancelled, expired, result, serve, serveErr, listening>>
          /\ data # "done"
      BY <1>1 DEF Data, DataListens, DataFails, DataLeaves, run, server
    <2>2. \/ dataErr' = dataErr
          \/ dataErr' = "data failed"
          \/ dataErr' = "cancelled" /\ (cancelled \/ Shutting)
      BY <1>1 DEF Data, DataListens, DataFails, DataLeaves, Done
    <2>61. RunTypes'
      BY <2>1, <2>2
    <2>62. RunOrder'
      BY <2>1, <2>2
    <2>63. RunErrors'
      BY <2>1, <2>2
    <2>64. RunResult'
      BY <2>1, <2>2
    <2> QED BY <2>61, <2>62, <2>63, <2>64
  <1>2. CASE ServeBegins \/ ServeEnds
    <2>1. /\ UNCHANGED <<pc, first, cancelled, expired, result, data, dataErr>>
          /\ serve \notin {"off", "done"}
      BY <1>2 DEF ServeBegins, ServeEnds, run, parts
    <2>2. \/ serve' = "done" /\ ~listening' /\ serveErr' \in {"server closed", "control failed"}
          \/ serve' = "accepting" /\ UNCHANGED <<serveErr, listening>>
      BY <1>2 DEF ServeBegins, ServeEnds
    <2>3. \/ serve' = "done" /\ listening' \in BOOLEAN /\ ~listening' /\ serveErr' \in {"server closed", "control failed"}
          \/ serve' = "accepting" /\ UNCHANGED <<serveErr, listening>>
      BY <1>2 DEF ServeBegins, ServeEnds
    <2>61. RunTypes'
      BY <2>1, <2>2, <2>3
    <2>62. RunOrder'
      BY <2>1, <2>2, <2>3
    <2>63. RunErrors'
      BY <2>1, <2>2, <2>3
    <2>64. RunResult'
      BY <2>1, <2>2, <2>3
    <2> QED BY <2>61, <2>62, <2>63, <2>64
  <1>3. ASSUME UNCHANGED <<run, parts, serveErr, listening>>,
               serve' = serve \/ (serve \notin {"off", "done"} /\ serve' \notin {"off", "done"})
        PROVE  RunInv'
    <2>1. UNCHANGED <<pc, first, cancelled, expired, result, data, dataErr, serveErr, listening>>
      BY <1>3 DEF run, parts
    <2>61. RunTypes'
      BY <2>1
    <2>2. (serve' = "done" <=> serve = "done") /\ (serve' = "off" <=> serve = "off")
      BY <1>3
    <2>62. RunOrder'
      BY <2>1, <2>2
    <2>63. RunErrors'
      BY <2>1
    <2>64. RunResult'
      BY <2>1, <2>2
    <2> QED BY <2>61, <2>62, <2>63, <2>64
  <1>4. ASSUME NEW c \in Conns, Connection(c) \/ Reject(c) \/ ServeConn(c) \/ ShutdownCloses(c)
                                \/ Release(c, "run")
        PROVE  RunInv'
    BY <1>3, <1>4
    DEF Connection, Accept, Request, PutRefused, PutReplaces, PutAudited, Leave, Release, Reject,
        ServeConn, ShutdownCloses, server
  <1>5. CASE RunRefused \/ ListenFails \/ RunDirectly \/ DirectReturns
    <2>1. /\ UNCHANGED <<first, cancelled, expired, dataErr, serve, serveErr, listening>>
          /\ pc \in {"new", "direct"} /\ pc' \in {"returned", "direct"}
      BY <1>5 DEF RunRefused, ListenFails, RunDirectly, DirectReturns, parts, server
    <2>2. ~Shutting /\ ~Shutting' /\ first = "none"
      BY <2>1
    <2> QED BY <2>1, <2>2
  <1>6. CASE Start
    BY <1>6 DEF Start
  <1>7. CASE Select
    <2>1. PICK r \in Ready : first' = r.from /\ result' = {r.err}
      BY <1>7 DEF Select
    <2>2. /\ pc = "select" /\ pc' = "shutdown" /\ listening' = (listening /\ serve = "starting")
          /\ UNCHANGED <<cancelled, expired, data, dataErr, serve, serveErr>>
      BY <1>7 DEF Select, parts
    <2>3. \/ cancelled /\ r = [from |-> "context", err |-> "cancelled"]
          \/ data = "done" /\ r = [from |-> "data", err |-> dataErr]
          \/ serve = "done" /\ r = [from |-> "control", err |-> serveErr]
      <3> HIDE DEF RunInv, RunTypes, RunOrder, RunErrors, RunResult
      <3> QED BY DEF Ready
    <2>4. \/ cancelled /\ first' = "context" /\ result' = {"cancelled"}
          \/ data = "done" /\ first' = "data" /\ result' = {dataErr}
          \/ serve = "done" /\ first' = "control" /\ result' = {serveErr}
      <3> HIDE DEF RunInv, RunTypes, RunOrder, RunErrors, RunResult
      <3> QED BY <2>1, <2>3
    <2>5. ~Shutting /\ ~expired
      BY <2>2
    <2> QED BY <2>2, <2>4, <2>5
  <1>8. CASE ShutdownExpires \/ ShutdownEnds \/ Cancel
    <2>1. CASE ShutdownExpires
      <3>1. /\ UNCHANGED <<pc, first, cancelled, data, dataErr, serve, serveErr, listening>>
            /\ expired' = TRUE /\ result' = result \cup {"deadline exceeded"} /\ pc = "shutdown"
        BY <2>1 DEF ShutdownExpires, parts, server
      <3>2. "cancelled" \in result' => "cancelled" \in result
        BY <3>1
      <3> QED BY <3>1, <3>2
    <2>2. CASE ShutdownEnds \/ Cancel
      <3>1. /\ UNCHANGED <<first, expired, result, data, dataErr, serve, serveErr, listening>>
            /\ \/ pc' = pc /\ cancelled' = TRUE
               \/ pc = "shutdown" /\ pc' = "join" /\ cancelled' = cancelled
        BY <2>2 DEF ShutdownEnds, Cancel, parts, server
      <3>2. CASE pc' = pc /\ cancelled' = TRUE
        <4>61. RunTypes'
          BY <3>1, <3>2
        <4>62. RunOrder'
          BY <3>1, <3>2
        <4>63. RunErrors'
          BY <3>1, <3>2
        <4>64. RunResult'
          BY <3>1, <3>2
        <4> QED BY <4>61, <4>62, <4>63, <4>64
      <3>3. CASE pc = "shutdown" /\ pc' = "join" /\ cancelled' = cancelled
        BY <3>1, <3>3
      <3> QED BY <3>1, <3>2, <3>3
    <2> QED BY <1>8, <2>1, <2>2
  <1>9. CASE Join
    BY <1>9 DEF Join, JoinErrors, parts, server
  <1>10. CASE UNCHANGED vars
    BY <1>3, <1>10 DEF vars, server
  <1> QED BY <1>1, <1>2, <1>4, <1>5, <1>6, <1>7, <1>8, <1>9, <1>10 DEF Next, Run, Serve

\* Run returns after both goroutines have ended, and what it returns tells how
\* it ended: the cancellation alone only if nothing else happened.
THEOREM ReturnTellsHolds == Spec => []ReturnTells
  <1>1. RunInv => ReturnTells
    <2> SUFFICES ASSUME RunInv, pc = "returned", Shutting
                 PROVE  /\ Ended
                        /\ result = {"cancelled"} =>
                              /\ cancelled /\ ~expired
                              /\ dataErr = "cancelled" /\ serveErr = "server closed"
      BY DEF ReturnTells
    <2>1. /\ Ended
          /\ dataErr = "cancelled" \/ dataErr \in result
          /\ serveErr = "server closed" \/ serveErr \in result
          /\ expired => "deadline exceeded" \in result
          /\ "cancelled" \in result => cancelled
          /\ expired \in BOOLEAN /\ cancelled \in BOOLEAN
          /\ serveErr \in {"none", "server closed", "control failed"}
      BY DEF RunInv, RunTypes, RunErrors, RunResult
    <2>2. ASSUME result = {"cancelled"}
          PROVE  cancelled /\ ~expired /\ dataErr = "cancelled" /\ serveErr = "server closed"
      <3>1. "deadline exceeded" \notin result /\ "cancelled" \in result
        BY <2>2
      <3>2. dataErr \in result => dataErr = "cancelled"
        BY <2>2
      <3>3. serveErr \notin result
        BY <2>1, <2>2
      <3> QED BY <2>1, <3>1, <3>2, <3>3
    <2> QED BY <2>1, <2>2
  <1> QED BY RunInit, RunStep, <1>1, PTL DEF Spec

-----------------------------------------------------------------------------
(* The slots of the control listener                                       *)

Places == {"outside", "over", "accepted", "idle", "request", "replaced", "closed", "gone"}

SlotTypes ==
    /\ active \in Nat
    /\ serve \in {"off", "starting", "accepting", "serving", "rejecting", "done"}
    /\ place \in [Conns -> Places]
    /\ open \in [Conns -> BOOLEAN] /\ held \in [Conns -> BOOLEAN]
    /\ closing \in [Conns -> SUBSET Closers]

\* Who has a slot, and who has taken one too many.
Holders == {c \in Conns : held[c]}
Over == {c \in Conns : place[c] = "over"}

\* ServedWithinLimit is not inductive: a slot comes back once only because its
\* socket is closed before, and the listener counts one connection too many only
\* while it rejects that one.
ConnSlot(c) ==
    /\ held[c] => place[c] \in {"accepted", "idle", "request", "replaced", "closed"}
    /\ open[c] => held[c] \/ place[c] = "over"
    /\ closing[c] # {} => ~open[c] /\ place[c] \notin {"outside", "over", "accepted"}
    /\ "goroutine" \in closing[c] => place[c] = "closed"
    /\ place[c] = "over" => serve = "rejecting"

SlotInv ==
    /\ SlotTypes
    /\ \A c \in Conns : ConnSlot(c)
    /\ IsFiniteSet(Holders) /\ Cardinality(Holders) <= MaxConns
    /\ \A c, d \in Over : c = d
    /\ serve = "rejecting" => Over # {}
    /\ active = Cardinality(Holders) + (IF serve = "rejecting" THEN 1 ELSE 0)

LEMMA SlotInit == Init => SlotInv
  <1> SUFFICES ASSUME Init PROVE SlotInv
    OBVIOUS
  <1>1. Holders = {} /\ Over = {}
    BY DEF Init, Holders, Over
  <1>2. IsFiniteSet(Holders) /\ Cardinality(Holders) = 0
    BY <1>1, FS_EmptySet
  <1>3. 0 <= MaxConns /\ 0 = 0 + 0
    BY RigAssumption
  <1>4. SlotTypes /\ \A c \in Conns : ConnSlot(c)
    BY DEF Init, SlotTypes, ConnSlot, Places
  <1>5. active = 0 /\ serve = "off"
    BY DEF Init
  <1> QED BY <1>1, <1>2, <1>3, <1>4, <1>5 DEF SlotInv

\* Steps that leave the slots and the listener's turn as they are.
LEMMA SlotKept ==
    ASSUME SlotInv, SlotTypes', UNCHANGED <<active, held>>,
           \A c \in Conns : ConnSlot(c)',
           \A c \in Conns : place'[c] = "over" <=> place[c] = "over",
           serve' = "rejecting" <=> serve = "rejecting"
    PROVE  SlotInv'
  <1>1. Holders' = Holders /\ Over' = Over
    BY DEF Holders, Over
  <1> QED BY <1>1 DEF SlotInv

\* A step of one connection that takes or gives back no slot.
LEMMA ConnStep ==
    ASSUME SlotInv, SlotTypes', UNCHANGED <<active, held>>, NEW c \in Conns, ConnSlot(c)',
           place[c] # "over", place'[c] # "over",
           serve' = serve \/ (serve # "rejecting" /\ serve' # "rejecting"),
           \A d \in Conns \ {c} : /\ place'[d] = place[d] /\ open'[d] = open[d]
                                  /\ closing'[d] = closing[d]
    PROVE  SlotInv'
  <1>1. ASSUME NEW d \in Conns \ {c} PROVE ConnSlot(d)'
    BY DEF SlotInv, ConnSlot
  <1> QED BY <1>1, SlotKept

LEMMA SlotStep == RunInv /\ SlotInv /\ [Next]_vars => SlotInv'
  <1> SUFFICES ASSUME RunInv, SlotInv, [Next]_vars PROVE SlotInv'
    OBVIOUS
  <1>0. SlotTypes /\ \A c \in Conns : ConnSlot(c)
    BY DEF SlotInv
  <1>1. ASSUME UNCHANGED <<slots, place>>,
               serve' = serve \/ (serve # "rejecting" /\ serve' \in {"starting", "accepting", "done"})
        PROVE  SlotInv'
    <2>1. SlotTypes' /\ \A c \in Conns : ConnSlot(c)'
      BY <1>0, <1>1 DEF slots, SlotTypes, ConnSlot
    <2> QED BY <1>1, <2>1, SlotKept DEF slots
  <1>2. ASSUME NEW c \in Conns, Accept(c) PROVE SlotInv'
    <2>1. /\ place[c] = "outside" /\ serve = "accepting" /\ ~held[c] /\ closing' = closing
          /\ active' = active + 1 /\ open' = [open EXCEPT ![c] = TRUE] /\ closing[c] = {}
      BY <1>0, <1>2 DEF Accept, ConnSlot, SlotTypes
    <2>2. active = Cardinality(Holders) /\ Over = {}
      <3>1. Over = {}
        BY <1>0, <2>1 DEF ConnSlot, Over
      <3>2. IsFiniteSet(Holders) /\ active = Cardinality(Holders) + 0
        BY <2>1 DEF SlotInv
      <3> QED BY <3>1, <3>2, FS_CardinalityType
    <2>3. CASE OverLimit
      <3>1. /\ place' = [place EXCEPT ![c] = "over"] /\ serve' = "rejecting" /\ held' = held
        BY <1>2, <2>3 DEF Accept
      <3>2. SlotTypes'
        BY <1>0, <2>1, <3>1 DEF SlotTypes, Places
      <3>3. Holders' = Holders /\ Over' = {c}
        BY <1>0, <2>2, <3>1 DEF Holders, Over, SlotTypes
      <3>4. \A d \in Conns : ConnSlot(d)'
        BY <1>0, <2>1, <3>1 DEF ConnSlot, SlotTypes
      <3> QED BY <2>1, <2>2, <3>1, <3>2, <3>3, <3>4 DEF SlotInv
    <2>4. CASE ~OverLimit
      <3>1. /\ place' = [place EXCEPT ![c] = "accepted"] /\ serve' = "serving"
            /\ held' = [held EXCEPT ![c] = TRUE]
        BY <1>2, <2>4 DEF Accept
      <3>2. SlotTypes'
        BY <1>0, <2>1, <3>1 DEF SlotTypes, Places
      <3>3. Holders' = Holders \cup {c} /\ c \notin Holders /\ Over' = {}
        BY <1>0, <2>1, <2>2, <3>1 DEF Holders, Over, SlotTypes
      <3>4. \A d \in Conns : ConnSlot(d)'
        BY <1>0, <2>1, <3>1 DEF ConnSlot, SlotTypes
      <3>5. IsFiniteSet(Holders') /\ Cardinality(Holders') = active + 1
        BY <2>2, <3>3, FS_AddElement DEF SlotInv
      <3>6. active + 1 <= MaxConns
        BY <1>0, <2>1, <2>4, RigAssumption DEF OverLimit, SlotTypes
      <3>7. active + 1 = (active + 1) + 0
        BY <1>0 DEF SlotTypes
      <3> QED BY <2>1, <3>1, <3>2, <3>3, <3>4, <3>5, <3>6, <3>7 DEF SlotInv
    <2> QED BY <2>3, <2>4
  <1>3. ASSUME NEW c \in Conns, Reject(c) PROVE SlotInv'
    <2>1. /\ place[c] = "over" /\ serve = "rejecting" /\ active' = active - 1 /\ ~held[c]
          /\ open' = [open EXCEPT ![c] = FALSE] /\ place' = [place EXCEPT ![c] = "gone"]
          /\ serve' = "accepting" /\ UNCHANGED <<held, closing>>
      BY <1>0, <1>3 DEF Reject, ConnSlot
    <2>2. Holders' = Holders /\ Over' = {}
      BY <1>0, <2>1 DEF Holders, Over, SlotTypes, SlotInv
    <2>3. IsFiniteSet(Holders) /\ Cardinality(Holders) \in Nat /\ active = Cardinality(Holders) + 1
      BY <2>1, FS_CardinalityType DEF SlotInv
    <2>4. active' = Cardinality(Holders) /\ active' = Cardinality(Holders) + 0 /\ active' \in Nat
      BY <2>1, <2>3
    <2>5. SlotTypes'
      BY <1>0, <2>1, <2>4 DEF SlotTypes, Places
    <2>6. \A d \in Conns : ConnSlot(d)'
      <3>1. \A d \in Conns : place[d] = "over" => d = c
        BY <2>1 DEF SlotInv, Over
      <3> QED BY <1>0, <2>1, <3>1 DEF ConnSlot, SlotTypes
    <2> QED BY <2>1, <2>2, <2>3, <2>4, <2>5, <2>6 DEF SlotInv
  <1>4. ASSUME NEW c \in Conns, NEW who \in Closers, Release(c, who) PROVE SlotInv'
    <2>1. /\ who \in closing[c] /\ UNCHANGED <<open, serve>> /\ ~open[c]
          /\ active' = IF held[c] THEN active - 1 ELSE active
          /\ held' = [held EXCEPT ![c] = FALSE]
          /\ closing' = [closing EXCEPT ![c] = @ \ {who}]
          /\ place' = IF who = "run" THEN place ELSE [place EXCEPT ![c] = "gone"]
          /\ place[c] \notin {"outside", "over", "accepted"}
      BY <1>0, <1>4 DEF Release, server, ConnSlot
    <2>2. Holders' = Holders \ {c} /\ Over' = Over
      BY <1>0, <2>1 DEF Holders, Over, SlotTypes
    <2>3. IsFiniteSet(Holders) /\ Cardinality(Holders) \in Nat
      BY FS_CardinalityType DEF SlotInv
    <2>4. /\ IsFiniteSet(Holders')
          /\ Cardinality(Holders') = IF held[c] THEN Cardinality(Holders) - 1 ELSE Cardinality(Holders)
      <3>1. c \in Holders <=> held[c]
        BY DEF Holders
      <3>2. IsFiniteSet(Holders \ {c})
            /\ Cardinality(Holders \ {c})
                 = IF c \in Holders THEN Cardinality(Holders) - 1 ELSE Cardinality(Holders)
        BY <2>3, FS_RemoveElement
      <3> QED BY <2>2, <3>1, <3>2
    <2>5. Cardinality(Holders') \in Nat
      BY <2>4, FS_CardinalityType
    <2>6. /\ active' = Cardinality(Holders') + (IF serve = "rejecting" THEN 1 ELSE 0)
          /\ active' \in Nat /\ Cardinality(Holders') <= MaxConns
      BY <2>1, <2>3, <2>4, <2>5, RigAssumption DEF SlotInv
    <2>7. SlotTypes'
      BY <1>0, <2>1, <2>6 DEF SlotTypes, Places
    <2>8. ASSUME NEW d \in Conns PROVE ConnSlot(d)'
      <3>1. CASE d # c
        BY <1>0, <2>1, <3>1 DEF ConnSlot, SlotTypes
      <3>2. CASE d = c
        <4>1. ~held'[c] /\ ~open'[c] /\ place'[c] \notin {"outside", "over", "accepted"}
          BY <1>0, <2>1 DEF SlotTypes
        <4>2. "goroutine" \in closing'[c] => place'[c] = "closed"
          BY <1>0, <2>1 DEF SlotTypes, ConnSlot, Closers
        <4> QED BY <3>2, <4>1, <4>2 DEF ConnSlot
      <3> QED BY <3>1, <3>2
    <2> QED BY <2>1, <2>2, <2>4, <2>6, <2>7, <2>8 DEF SlotInv
  <1>5. ASSUME NEW c \in Conns, ServeConn(c) \/ Request(c) \/ PutReplaces(c) PROVE SlotInv'
    <2>1. /\ UNCHANGED slots /\ place[c] \in {"accepted", "idle", "request"}
          /\ \E p \in {"idle", "request", "replaced"} : place' = [place EXCEPT ![c] = p]
          /\ \/ serve' = serve /\ place[c] # "accepted"
             \/ serve = "serving" /\ serve' = "accepting" /\ place[c] = "accepted"
      BY <1>5 DEF ServeConn, Request, PutReplaces, server
    <2>2. SlotTypes' /\ place'[c] \in {"idle", "request", "replaced"}
          /\ \A d \in Conns \ {c} : place'[d] = place[d]
      BY <1>0, <2>1 DEF SlotTypes, Places, slots
    <2>3. ConnSlot(c)'
      BY <1>0, <2>1, <2>2 DEF ConnSlot, slots
    <2> QED BY <2>1, <2>2, <2>3, ConnStep DEF slots
  <1>6. ASSUME NEW c \in Conns, PutRefused(c) \/ PutAudited(c) \/ Leave(c) PROVE SlotInv'
    <2>1. /\ UNCHANGED <<active, held, serve>> /\ place[c] \in {"idle", "request", "replaced"}
          /\ \/ place' = [place EXCEPT ![c] = "idle"] /\ UNCHANGED <<open, closing>>
             \/ CloseSocket(c, "goroutine") /\ place' = [place EXCEPT ![c] = "closed"]
      BY <1>6 DEF PutRefused, PutAudited, Leave, Answered, server
    <2>2. SlotTypes' /\ place'[c] \in {"idle", "closed"}
          /\ \A d \in Conns \ {c} : /\ place'[d] = place[d] /\ open'[d] = open[d]
                                    /\ closing'[d] = closing[d]
      <3>1. CASE place' = [place EXCEPT ![c] = "idle"] /\ UNCHANGED <<open, closing>>
        BY <1>0, <2>1, <3>1 DEF SlotTypes, Places
      <3>2. CASE CloseSocket(c, "goroutine") /\ place' = [place EXCEPT ![c] = "closed"]
        <4>1. /\ open' = [open EXCEPT ![c] = FALSE]
              /\ closing' = [closing EXCEPT ![c] = @ \cup {"goroutine"}]
          BY <3>2 DEF CloseSocket
        <4>2. open' \in [Conns -> BOOLEAN] /\ closing' \in [Conns -> SUBSET Closers]
          BY <1>0, <4>1 DEF SlotTypes, Closers
        <4>3. place' \in [Conns -> Places] /\ place'[c] = "closed"
          BY <1>0, <3>2 DEF SlotTypes, Places
        <4>4. \A d \in Conns \ {c} : /\ place'[d] = place[d] /\ open'[d] = open[d]
                                      /\ closing'[d] = closing[d]
          BY <1>0, <3>2, <4>1 DEF SlotTypes
        <4> QED BY <1>0, <2>1, <4>2, <4>3, <4>4 DEF SlotTypes
      <3> QED BY <2>1, <3>1, <3>2
    <2>3. ConnSlot(c)'
      BY <1>0, <2>1, <2>2 DEF ConnSlot, CloseSocket, SlotTypes
    <2> QED BY <2>1, <2>2, <2>3, ConnStep
  <1>7. ASSUME NEW c \in Conns, ShutdownCloses(c) PROVE SlotInv'
    <2>1. /\ UNCHANGED <<active, held, serve, place>> /\ CloseSocket(c, "run")
          /\ place[c] \in {"idle", "request", "replaced", "closed"}
      BY <1>7 DEF ShutdownCloses, Tracked, server
    <2>2. SlotTypes'
          /\ \A d \in Conns \ {c} : /\ place'[d] = place[d] /\ open'[d] = open[d]
                                    /\ closing'[d] = closing[d]
      BY <1>0, <2>1 DEF SlotTypes, CloseSocket, Closers
    <2>3. ConnSlot(c)'
      BY <1>0, <2>1 DEF ConnSlot, CloseSocket, SlotTypes
    <2> QED BY <2>1, <2>2, <2>3, ConnStep
  <1>8. CASE \/ RunRefused \/ ListenFails \/ RunDirectly \/ DirectReturns \/ Select
             \/ ShutdownEnds \/ Join \/ Data \/ ServeEnds \/ ShutdownExpires \/ Cancel
             \/ ServeBegins \/ UNCHANGED vars
    BY <1>1, <1>8
    DEF RunRefused, ListenFails, RunDirectly, DirectReturns, Select, ShutdownEnds, Join, Data,
        DataListens, DataFails, DataLeaves, ServeBegins, ServeEnds, ShutdownExpires, Cancel,
        server, vars
  <1>9. CASE Start
    <2>1. UNCHANGED <<slots, place>> /\ serve' = "starting" /\ serve # "rejecting"
      BY <1>9 DEF Start, RunInv, RunOrder
    <2> QED BY <1>1, <2>1
  <1> QED BY <1>2, <1>3, <1>4, <1>5, <1>6, <1>7, <1>8, <1>9
          DEF Next, Run, Serve, Connection, Closers

\* The control server serves at most MaxConns connections at once, and each gives
\* its slot back exactly once, whoever closes it.
THEOREM ServedWithinLimitHolds == Spec => []ServedWithinLimit
  <1>1. SlotInv => ServedWithinLimit
    <2> SUFFICES ASSUME SlotInv PROVE ServedWithinLimit
      OBVIOUS
    <2>1. {c \in Conns : open[c] /\ place[c] # "over"} \subseteq Holders
      BY DEF SlotInv, ConnSlot, Holders
    <2>2. IsFiniteSet(Holders) /\ Cardinality(Holders) \in Nat
      BY FS_CardinalityType DEF SlotInv
    <2>3. Cardinality({c \in Conns : open[c] /\ place[c] # "over"}) <= MaxConns
      <3> DEFINE T == {c \in Conns : open[c] /\ place[c] # "over"}
      <3>1. T \in SUBSET Holders
        BY <2>1
      <3> HIDE DEF T
      <3>2. /\ IsFiniteSet(T) /\ Cardinality(T) <= Cardinality(Holders)
        BY <2>2, <3>1, FS_Subset
      <3>3. Cardinality(T) \in Nat
        BY <3>2, FS_CardinalityType
      <3>4. Cardinality(T) <= MaxConns
        BY <2>2, <3>2, <3>3, RigAssumption DEF SlotInv
      <3> QED BY <3>4 DEF T
    <2>4. active = Cardinality(Holders \cup Over)
      <3>1. CASE Over = {}
        BY <2>2, <3>1 DEF SlotInv
      <3>2. CASE Over # {}
        <4>1. PICK c \in Over : TRUE
          BY <3>2
        <4>2. Over = {c} /\ c \notin Holders /\ serve = "rejecting"
          BY <4>1 DEF SlotInv, ConnSlot, Over, Holders
        <4> QED BY <2>2, <4>2, FS_AddElement DEF SlotInv
      <3> QED BY <3>1, <3>2
    <2> QED BY <2>3, <2>4 DEF ServedWithinLimit, Holders, Over, SlotInv, ConnSlot
  <1> QED BY RunInit, RunStep, SlotInit, SlotStep, <1>1, PTL DEF Spec
-----------------------------------------------------------------------------
(* The audit of the replacements                                           *)

Replaced == {c \in Conns : place[c] = "replaced"}

\* The record that revision i + 1, which was the i-th to be published, must leave.
Record(i) == [by |-> publisher[i], before |-> i, after |-> i + 1]

\* AuditsTell is not inductive: a request that has replaced the scenario and not
\* yet recorded it must still know its own revision, and no record of it exists.
AuditInv ==
    /\ after \in [Conns -> Nat] /\ publisher \in Seq(Conns)
    /\ \A a \in audits : \E i \in 1..Len(publisher) : a = Record(i)
    /\ \A c \in Replaced : \E i \in 1..Len(publisher) :
          after[c] = i + 1 /\ publisher[i] = c /\ Record(i) \notin audits
    /\ IsFiniteSet(audits) /\ IsFiniteSet(Replaced)
    /\ Cardinality(audits) + Cardinality(Replaced) = Len(publisher)

LEMMA AuditInit == Init => AuditInv
  <1> SUFFICES ASSUME Init PROVE AuditInv
    OBVIOUS
  <1>1. Replaced = {} /\ audits = {} /\ publisher = <<>> /\ after \in [Conns -> Nat]
    BY DEF Init, Replaced
  <1> QED BY <1>1, FS_EmptySet DEF AuditInv

\* Steps that replace and record nothing.
LEMMA AuditKept == AuditInv /\ UNCHANGED requests /\ Replaced' = Replaced => AuditInv'
  <1> SUFFICES ASSUME AuditInv, UNCHANGED requests, Replaced' = Replaced PROVE AuditInv'
    OBVIOUS
  <1>1. UNCHANGED <<after, publisher, audits>>
    BY DEF requests
  <1>2. \A i : Record(i)' = Record(i)
    BY <1>1 DEF Record
  <1> QED BY <1>1, <1>2 DEF AuditInv

LEMMA AuditStep == SlotInv /\ AuditInv /\ [Next]_vars => AuditInv'
  <1> SUFFICES ASSUME SlotInv, AuditInv, [Next]_vars PROVE AuditInv'
    OBVIOUS
  <1>0. place \in [Conns -> Places] /\ \A c \in Conns : "goroutine" \in closing[c] => place[c] = "closed"
    BY DEF SlotInv, SlotTypes, ConnSlot
  <1>1. CASE UNCHANGED <<place, requests>>
    BY <1>1, AuditKept DEF Replaced
  <1>2. ASSUME NEW c \in Conns,
               Accept(c) \/ Reject(c) \/ ServeConn(c) \/ Request(c) \/ PutRefused(c) \/ Leave(c)
                  \/ (\E who \in Closers : Release(c, who))
        PROVE  AuditInv'
    <2>1. /\ UNCHANGED requests
          /\ \/ place' = place
             \/ /\ place[c] # "replaced"
                /\ \E p \in Places \ {"replaced"} : place' = [place EXCEPT ![c] = p]
      BY <1>0, <1>2
      DEF Accept, Reject, ServeConn, Request, PutRefused, Answered, Leave, Release, Closers, Places
    <2>2. Replaced' = Replaced
      BY <1>0, <2>1 DEF Replaced
    <2> QED BY <2>1, <2>2, AuditKept
  <1>3. ASSUME NEW c \in Conns, PutReplaces(c) PROVE AuditInv'
    <2>0. PICK n \in Nat : n = Len(publisher)
      BY DEF AuditInv
    <2>1. /\ place[c] = "request" /\ publisher' = Append(publisher, c) /\ audits' = audits
          /\ after' = [after EXCEPT ![c] = n + 2] /\ place' = [place EXCEPT ![c] = "replaced"]
      BY <1>3, <2>0 DEF PutReplaces
    <2>2. /\ publisher \in Seq(Conns) /\ after \in [Conns -> Nat] /\ n \in Nat
      BY DEF AuditInv
    <2>3. /\ publisher' \in Seq(Conns) /\ Len(publisher') = n + 1 /\ publisher'[n + 1] = c
          /\ \A i \in 1..n : publisher'[i] = publisher[i]
          /\ after' \in [Conns -> Nat] /\ after'[c] = n + 2
          /\ \A d \in Conns \ {c} : after'[d] = after[d]
      BY <2>0, <2>1, <2>2
    <2>4. \A i \in 1..n : Record(i)' = Record(i)
      BY <2>3 DEF Record
    <2>5. \A a \in audits' : \E i \in 1..n : a = Record(i)'
      BY <2>0, <2>1, <2>4 DEF AuditInv
    <2>6. 1..n \subseteq 1..(n + 1) /\ n + 1 \in 1..(n + 1) /\ n + 1 \notin 1..n /\ n + 2 = (n + 1) + 1
      BY <2>2
    <2>7. Record(n + 1)' \notin audits'
      <3> SUFFICES ASSUME Record(n + 1)' \in audits' PROVE FALSE
        OBVIOUS
      <3>1. PICK i \in 1..n : Record(n + 1)' = Record(i)'
        BY <2>5
      <3>2. Record(n + 1)'.before = n + 1 /\ Record(i)'.before = i
        BY DEF Record
      <3>3. n + 1 = i
        BY <3>1, <3>2
      <3> QED BY <2>6, <3>3
    <2>8. Replaced' = Replaced \cup {c} /\ c \notin Replaced
      BY <1>0, <2>1 DEF Replaced
    <2>9. ASSUME NEW d \in Replaced'
          PROVE  \E i \in 1..(n + 1) :
                    after'[d] = i + 1 /\ publisher'[i] = d /\ Record(i)' \notin audits'
      <3>1. CASE d = c
        <4>1. after'[d] = (n + 1) + 1 /\ publisher'[n + 1] = d /\ Record(n + 1)' \notin audits'
          BY <2>3, <2>6, <2>7, <3>1
        <4> QED BY <2>6, <4>1
      <3>2. CASE d # c
        <4>1. d \in Replaced /\ d \in Conns \ {c}
          BY <2>8, <3>2 DEF Replaced
        <4>2. PICK i \in 1..n : after[d] = i + 1 /\ publisher[i] = d /\ Record(i) \notin audits
          BY <2>0, <4>1 DEF AuditInv
        <4> QED BY <2>1, <2>3, <2>4, <2>6, <4>1, <4>2
      <3> QED BY <3>1, <3>2
    <2>10. /\ IsFiniteSet(audits') /\ IsFiniteSet(Replaced')
           /\ Cardinality(audits') + Cardinality(Replaced') = n + 1
      <3>1. IsFiniteSet(Replaced') /\ Cardinality(Replaced') = Cardinality(Replaced) + 1
        BY <2>8, FS_AddElement DEF AuditInv
      <3>2. Cardinality(audits) \in Nat /\ Cardinality(Replaced) \in Nat
        BY FS_CardinalityType DEF AuditInv
      <3>3. Cardinality(audits) + Cardinality(Replaced) = n /\ IsFiniteSet(audits)
        BY <2>0 DEF AuditInv
      <3>4. audits' = audits
        BY <2>1
      <3>5. Cardinality(audits') = Cardinality(audits)
        BY <3>4
      <3> QED BY <2>2, <3>1, <3>2, <3>3, <3>4, <3>5
    <2> QED BY <2>3, <2>5, <2>6, <2>9, <2>10 DEF AuditInv
  <1>4. ASSUME NEW c \in Conns, PutAudited(c) PROVE AuditInv'
    <2>1. /\ place[c] = "replaced" /\ audits' = audits \cup {Audit(c)} /\ publisher' = publisher
          /\ after' = [after EXCEPT ![c] = 0]
          /\ \E p \in {"idle", "closed"} : place' = [place EXCEPT ![c] = p]
      BY <1>4 DEF PutAudited, Answered
    <2>2. PICK i \in 1..Len(publisher) :
             after[c] = i + 1 /\ publisher[i] = c /\ Record(i) \notin audits
      BY <2>1 DEF AuditInv, Replaced
    <2>3. Audit(c) = Record(i)
      BY <2>2 DEF Audit, Record, AuditInv
    <2>4. \A j : Record(j)' = Record(j)
      BY <2>1 DEF Record
    <2>5. Replaced' = Replaced \ {c} /\ c \in Replaced
      BY <1>0, <2>1 DEF Replaced
    <2>6. \A a \in audits' : \E j \in 1..Len(publisher) : a = Record(j)'
      BY <2>1, <2>2, <2>3, <2>4 DEF AuditInv
    <2>7. ASSUME NEW d \in Replaced'
          PROVE  \E j \in 1..Len(publisher) :
                    after'[d] = j + 1 /\ publisher[j] = d /\ Record(j)' \notin audits'
      <3>1. d \in Replaced /\ d # c /\ d \in Conns
        BY <2>5 DEF Replaced
      <3>2. PICK j \in 1..Len(publisher) :
               after[d] = j + 1 /\ publisher[j] = d /\ Record(j) \notin audits
        BY <3>1 DEF AuditInv
      <3>3. Record(j) # Record(i)
        BY <2>2, <3>1, <3>2 DEF Record
      <3>4. after'[d] = after[d]
        BY <2>1, <3>1 DEF AuditInv
      <3> QED BY <2>1, <2>3, <2>4, <3>2, <3>3, <3>4
    <2>8. /\ IsFiniteSet(audits') /\ IsFiniteSet(Replaced')
          /\ Cardinality(audits') + Cardinality(Replaced') = Len(publisher)
      <3>1. IsFiniteSet(Replaced') /\ Cardinality(Replaced') = Cardinality(Replaced) - 1
        BY <2>5, FS_RemoveElement DEF AuditInv
      <3>2. IsFiniteSet(audits') /\ Cardinality(audits') = Cardinality(audits) + 1
        <4>1. IsFiniteSet(audits) /\ Record(i) \notin audits /\ audits' = audits \cup {Record(i)}
          BY <2>1, <2>2, <2>3 DEF AuditInv
        <4> QED BY <4>1, FS_AddElement
      <3>3. Cardinality(audits) \in Nat /\ Cardinality(Replaced) \in Nat
        BY FS_CardinalityType DEF AuditInv
      <3>4. Cardinality(audits) + Cardinality(Replaced) = Len(publisher)
        BY DEF AuditInv
      <3> QED BY <3>1, <3>2, <3>3, <3>4
    <2>9. after' \in [Conns -> Nat] /\ publisher \in Seq(Conns)
      BY <2>1 DEF AuditInv
    <2> QED BY <2>1, <2>6, <2>7, <2>8, <2>9 DEF AuditInv
  <1>5. ASSUME NEW c \in Conns, ShutdownCloses(c) PROVE AuditInv'
    BY <1>1, <1>5 DEF ShutdownCloses
  <1>6. CASE \/ RunRefused \/ ListenFails \/ RunDirectly \/ DirectReturns \/ Start \/ Select
             \/ ShutdownEnds \/ Join \/ Data \/ ServeBegins \/ ServeEnds \/ ShutdownExpires
             \/ Cancel \/ UNCHANGED vars
    BY <1>1, <1>6
    DEF RunRefused, ListenFails, RunDirectly, DirectReturns, Start, Select, ShutdownEnds, Join,
        Data, DataListens, DataFails, DataLeaves, ServeBegins, ServeEnds, ShutdownExpires,
        Cancel, vars
  <1> QED BY <1>2, <1>3, <1>4, <1>5, <1>6 DEF Next, Run, Serve, Connection, Closers

\* The audit tells whose request led from which revision to which, and every
\* revision but those between their replacement and their record.
THEOREM AuditsTellHolds == Spec => []AuditsTell
  <1>1. AuditInv => AuditsTell
    <2> SUFFICES ASSUME AuditInv PROVE AuditsTell
      OBVIOUS
    <2>1. ASSUME NEW a \in audits PROVE a.before = a.after - 1 /\ publisher[a.after - 1] = a.by
      <3>1. PICK i \in 1..Len(publisher) : a = Record(i)
        BY DEF AuditInv
      <3>2. a.after - 1 = i /\ a.before = i /\ a.by = publisher[i]
        BY <3>1 DEF Record
      <3> QED BY <3>2
    <2> QED BY <2>1 DEF AuditsTell, AuditInv, Replaced
  <1> QED BY RunInit, RunStep, SlotInit, SlotStep, AuditInit, AuditStep, <1>1, PTL DEF Spec
=============================================================================
