-------------------------- MODULE RpcClientProofs --------------------------
(***************************************************************************)
(* Proofs about RpcClient, for any number of calls, sessions, broken       *)
(* pipes, closes and answers.                                              *)
(***************************************************************************)
EXTENDS RpcClient, SequenceTheorems, TLAPS

-----------------------------------------------------------------------------
(* Types.                                                                  *)

LEMMA InitType == Init => TypeOK
  <1> SUFFICES ASSUME Init PROVE TypeOK
    OBVIOUS
  <1> USE DEF Init
  <1>1. ConnOK
    <2>1. 0 \in 0..MaxSessions
      BY ClientAssumption
    <2>2. pipe \in [Sessions -> [rx : PipeStates, tx : PipeStates]]
      BY DEF NoPipes, PipeStates
    <2> QED
      BY <2>1, <2>2 DEF ConnOK
  <1>2. LoopOK
    BY DEF LoopOK, Done, LoopSteps
  <1>3. QueueOK
    BY DEF QueueOK
  <1>4. CallOK
    BY ClientAssumption DEF CallOK, CallSteps
  <1>5. HubOK
    BY ClientAssumption, EmptySeq DEF HubOK
  <1>6. CloserOK
    BY ClientAssumption DEF CloserOK
  <1> QED
    BY <1>1, <1>2, <1>3, <1>4, <1>5, <1>6 DEF TypeOK

\* What the helpers of the actions preserve.
LEMMA GoType ==
  ASSUME CallOK, NEW r \in Calls, NEW at \in CallSteps \ {"sending"}, Go(r, at)
  PROVE  CallOK'
  BY DEF Go, CallOK

LEMMA GoLoopType ==
  ASSUME LoopOK, NEW s \in Sessions, NEW at \in LoopSteps, GoLoop(s, at)
  PROVE  LoopOK' /\ loop' = [loop EXCEPT ![s] = [at |-> at, call |-> loop[s].call]]
  BY DEF GoLoop, LoopOK

LEMMA ClosedType ==
  ASSUME ConnOK
  PROVE  Closed \in [Sessions -> [rx : PipeStates, tx : PipeStates]]
  BY DEF ConnOK, Closed, PipeStates

LEMMA DisconnectType ==
  ASSUME ConnOK, Disconnect
  PROVE  ConnOK'
  <1>1. 0 \in 0..MaxSessions
    BY ClientAssumption
  <1>2. pipe' \in [Sessions -> [rx : PipeStates, tx : PipeStates]]
    BY ClosedType DEF Disconnect
  <1> QED
    BY <1>1, <1>2 DEF ConnOK, Disconnect

LEMMA FailType ==
  ASSUME QueueOK, FailPending
  PROVE  QueueOK'
  BY DEF QueueOK, FailPending

LEMMA KeptType ==
  ASSUME ConnOK
  PROVE  Kept \in [Sessions -> [rx : PipeStates, tx : PipeStates]]
  BY ClosedType DEF ConnOK, Kept

LEMMA NextType == TypeOK /\ [Next]_vars => TypeOK'
  <1> SUFFICES ASSUME TypeOK, [Next]_vars PROVE TypeOK'
    OBVIOUS
  <1> USE DEF TypeOK
  <1>u. /\ UNCHANGED conns => ConnOK'
        /\ UNCHANGED loop => LoopOK'
        /\ UNCHANGED exchange => QueueOK'
        /\ UNCHANGED call => CallOK'
        /\ UNCHANGED hub => HubOK'
        /\ UNCHANGED closer => CloserOK'
    BY DEF conns, exchange, hub, ConnOK, LoopOK, QueueOK, CallOK, HubOK, CloserOK
  <1>1. ASSUME NEW r \in Calls, Reuse(r) PROVE TypeOK'
    BY <1>1, <1>u, GoType DEF Reuse, CallSteps
  <1>2. ASSUME NEW r \in Calls, Open(r) PROVE TypeOK'
    <2>1. opened + 1 \in Sessions
      BY <1>2, ClientAssumption DEF Open, ConnOK, Sessions
    <2>2. pipe' \in [Sessions -> [rx : PipeStates, tx : PipeStates]]
      BY <1>2, <2>1, KeptType DEF Open, PipeStates
    <2>3. ConnOK'
      BY <1>2, <2>1, <2>2, ClientAssumption DEF Open, ConnOK, Sessions
    <2>4. LoopOK'
      BY <1>2, <2>1, GoLoopType DEF Open, LoopSteps
    <2> QED
      BY <1>2, <1>u, <2>3, <2>4, GoType DEF Open, CallSteps
  <1>3. ASSUME NEW r \in Calls, OpenFails(r) PROVE TypeOK'
    <2>1. opened + 1 \in Sessions
      BY <1>3, ClientAssumption DEF OpenFails, ConnOK, Sessions
    <2>2. PICK p \in HalfOpen \union {NoPipes} :
            /\ opened' = opened + 1
            /\ rx' = IF p # NoPipes THEN opened + 1 ELSE IF started THEN 0 ELSE rx
            /\ tx' = IF p.tx = "broken" THEN opened + 1 ELSE IF started THEN 0 ELSE tx
            /\ pipe' = [Kept EXCEPT ![opened + 1] = p]
      BY <1>3 DEF OpenFails
    <2>3. p \in [rx : PipeStates, tx : PipeStates]
      BY DEF HalfOpen, NoPipes, PipeStates
    <2>4. pipe' \in [Sessions -> [rx : PipeStates, tx : PipeStates]]
      BY <2>1, <2>2, <2>3, KeptType
    <2>5. opened' \in 0..MaxSessions /\ rx' \in 0..MaxSessions /\ tx' \in 0..MaxSessions
      BY <2>1, <2>2, ClientAssumption DEF ConnOK, Sessions
    <2>6. ConnOK'
      BY <1>3, <2>4, <2>5 DEF OpenFails, StartedAtFail, ConnOK
    <2> QED
      BY <1>3, <1>u, <2>6, GoType DEF OpenFails, CallSteps
  <1>4. ASSUME NEW r \in Calls, Register(r) PROVE TypeOK'
    <2>1. QueueOK'
      BY <1>4 DEF Register, QueueOK
    <2> QED
      BY <1>4, <1>u, <2>1, GoType DEF Register, CallSteps
  <1>5. ASSUME NEW r \in Calls, Capture(r) PROVE TypeOK'
    <2>1. CallOK'
      <3>1. tx \in 0..MaxSessions /\ (SomeConn(tx) => tx \in Sessions)
        BY ClientAssumption DEF ConnOK, SomeConn, Sessions
      <3> QED
        BY <1>5, <3>1 DEF Capture, CallOK, CallSteps
    <2> QED
      BY <1>5, <1>u, <2>1 DEF Capture
  <1>6. ASSUME NEW r \in Calls, Send(r) PROVE TypeOK'
    <2>1. CallOK'
      BY <1>6, GoType DEF Send, CallSteps
    <2>2. \/ UNCHANGED asked
          \/ asked' = [asked EXCEPT ![r] = [session |-> call[r].conn, replies |-> asked[r].replies]]
      BY <1>6 DEF Send, HubOK
    <2>3. call[r].conn \in 0..MaxSessions /\ asked[r].replies \in 0..MaxReplies
      BY DEF CallOK, HubOK
    <2>4. asked' \in [Calls -> [session : 0..MaxSessions, replies : 0..MaxReplies]]
      BY <2>2, <2>3 DEF HubOK
    <2>5. HubOK'
      BY <1>6, <2>4 DEF Send, HubOK
    <2> QED
      BY <1>6, <1>u, <2>1, <2>5 DEF Send
  <1>7. ASSUME NEW r \in Calls, CloseAfterSend(r) PROVE TypeOK'
    BY <1>7, <1>u, DisconnectType, GoType DEF CloseAfterSend, CallSteps
  <1>8. ASSUME NEW r \in Calls, FailAfterSend(r) PROVE TypeOK'
    BY <1>8, <1>u, FailType, GoType DEF FailAfterSend, CallSteps
  <1>9. ASSUME NEW r \in Calls, Return(r) \/ Timeout(r) PROVE TypeOK'
    <2>1. QueueOK'
      BY <1>9 DEF Return, Timeout, QueueOK
    <2> QED
      BY <1>9, <1>u, <2>1, GoType DEF Return, Timeout, CallSteps
  <1>10. ASSUME NEW s \in Sessions, CheckCurrent(s) PROVE TypeOK'
    BY <1>10, <1>u, GoLoopType DEF CheckCurrent, LoopSteps
  <1>11. ASSUME NEW s \in Sessions, Read(s) PROVE TypeOK'
    <2>1. Head(inbox[s]) \in Calls /\ Tail(inbox[s]) \in Seq(Calls)
      BY <1>11, HeadTailProperties DEF Read, HubOK
    <2>2. LoopOK'
      BY <1>11, <2>1 DEF Read, LoopOK, LoopSteps
    <2>3. HubOK'
      BY <1>11, <2>1 DEF Read, HubOK
    <2> QED
      BY <1>11, <1>u, <2>2, <2>3 DEF Read
  <1>12. ASSUME NEW s \in Sessions, ReadFails(s) PROVE TypeOK'
    BY <1>12, <1>u, GoLoopType DEF ReadFails, LoopSteps
  <1>13. ASSUME NEW s \in Sessions, Pop(s) PROVE TypeOK'
    <2>1. QueueOK'
      BY <1>13 DEF Pop, TakeEntry, QueueOK
    <2> QED
      BY <1>13, <1>u, <2>1, GoLoopType DEF Pop, LoopSteps
  <1>14. ASSUME NEW s \in Sessions, Put(s) PROVE TypeOK'
    <2>1. QueueOK'
      BY <1>14 DEF Put, QueueOK
    <2> QED
      BY <1>14, <1>u, <2>1, GoLoopType DEF Put, LoopSteps
  <1>15. ASSUME NEW s \in Sessions, Mark(s) PROVE TypeOK'
    BY <1>15, <1>u, DisconnectType, GoLoopType DEF Mark, LoopSteps
  <1>16. ASSUME NEW s \in Sessions, FailAfterMark(s) PROVE TypeOK'
    BY <1>16, <1>u, FailType, GoLoopType DEF FailAfterMark, LoopSteps
  <1>17. CASE Close
    <2>1. CloserOK'
      BY <1>17, ClientAssumption DEF Close, CloserOK
    <2> QED
      BY <1>17, <1>u, <2>1, DisconnectType DEF Close
  <1>18. CASE FailAfterClose
    <2>1. CloserOK'
      BY <1>18 DEF FailAfterClose, CloserOK
    <2> QED
      BY <1>18, <1>u, <2>1, FailType DEF FailAfterClose
  <1>19. ASSUME NEW r \in Calls, Reply(r) PROVE TypeOK'
    <2>1. asked[r].session \in 0..MaxSessions /\ asked[r].replies \in 0..MaxReplies
      BY DEF HubOK
    <2>2. asked[r].session \in Sessions /\ asked[r].replies + 1 \in 0..MaxReplies
      BY <1>19, <2>1, ClientAssumption DEF Reply, Sessions
    <2>3. Append(inbox[asked[r].session], r) \in Seq(Calls)
      BY <2>2, AppendProperties DEF HubOK
    <2>4. HubOK'
      BY <1>19, <2>2, <2>3, <2>1 DEF Reply, HubOK
    <2> QED
      BY <1>19, <1>u, <2>4 DEF Reply
  <1>20. ASSUME NEW s \in Sessions, Break(s) PROVE TypeOK'
    <2>1. pipe' \in [Sessions -> [rx : PipeStates, tx : PipeStates]]
      BY <1>20 DEF Break, ConnOK, PipeStates
    <2>2. ConnOK'
      BY <1>20, <2>1 DEF Break, ConnOK
    <2> QED
      BY <1>20, <1>u, <2>2 DEF Break
  <1>21. CASE UNCHANGED vars
    BY <1>21, <1>u DEF vars, conns, exchange, hub
  <1> QED
    BY <1>1, <1>2, <1>3, <1>4, <1>5, <1>6, <1>7, <1>8, <1>9, <1>10, <1>11, <1>12, <1>13,
       <1>14, <1>15, <1>16, <1>17, <1>18, <1>19, <1>20, <1>21
    DEF Next, Start, Request, Receive

\* The types of the client's state, for any number of calls and sessions.
THEOREM ClientTypeCorrect == Spec => []TypeOK
  BY InitType, NextType, PTL DEF Spec

-----------------------------------------------------------------------------
(* A started client has a reader.                                          *)

LEMMA NextReader == TypeOK /\ StartedHasReader /\ [Next]_vars => StartedHasReader'
  <1> SUFFICES ASSUME TypeOK, StartedHasReader, [Next]_vars PROVE StartedHasReader'
    OBVIOUS
  <1> USE DEF StartedHasReader, TypeOK
  <1>1. CASE UNCHANGED <<conns, loop>>
    BY <1>1 DEF conns
  <1>2. CASE Disconnect
    BY <1>2 DEF Disconnect
  <1>3. ASSUME NEW r \in Calls, Open(r) PROVE StartedHasReader'
    BY <1>3, ClientAssumption, GoLoopType DEF Open, ConnOK, LoopOK, LoopSteps, Sessions
  <1>4. ASSUME NEW r \in Calls, OpenFails(r) PROVE StartedHasReader'
    BY <1>4 DEF OpenFails, StartedAtFail
  \* A receive loop goes on, or ends because its session is not the current one.
  <1>5. ASSUME NEW s \in Sessions, UNCHANGED conns, UNCHANGED <<loop>> \/
          \E at \in LoopSteps, c \in Calls \union {"none"} :
             /\ loop' = [loop EXCEPT ![s] = [at |-> at, call |-> c]]
             /\ at \in {"done", "failing"} => ~ (started /\ rx = s)
        PROVE StartedHasReader'
    BY <1>5 DEF conns, LoopOK
  <1>6. ASSUME NEW s \in Sessions, Receive(s) PROVE StartedHasReader'
    <2>1. loop[s].call \in Calls \union {"none"}
      BY DEF LoopOK
    <2>2. CASE CheckCurrent(s)
      BY <2>2, <2>1, <1>5 DEF CheckCurrent, GoLoop, LoopSteps
    <2>3. CASE Read(s)
      <3>1. Head(inbox[s]) \in Calls
        BY <2>3, HeadTailProperties DEF Read, HubOK
      <3> QED
        BY <2>3, <3>1, <1>5 DEF Read, LoopSteps
    <2>4. CASE ReadFails(s)
      BY <2>4, <2>1, <1>5 DEF ReadFails, GoLoop, LoopSteps
    <2>5. CASE Pop(s)
      BY <2>5, <2>1, <1>5 DEF Pop, GoLoop, LoopSteps
    <2>6. CASE Put(s)
      BY <2>6, <2>1, <1>5 DEF Put, GoLoop, LoopSteps
    <2>7. CASE Mark(s)
      BY <2>7, <2>1, <1>2, <1>5 DEF Mark, OwnSession, GoLoop, LoopSteps
    <2>8. CASE FailAfterMark(s)
      BY <2>8, <2>1, <1>5 DEF FailAfterMark, GoLoop, LoopSteps
    <2> QED
      BY <1>6, <2>2, <2>3, <2>4, <2>5, <2>6, <2>7, <2>8 DEF Receive
  <1>7. ASSUME NEW s \in Sessions, Break(s) PROVE StartedHasReader'
    BY <1>7 DEF Break
  <1> QED
    BY <1>1, <1>2, <1>3, <1>4, <1>6, <1>7
    DEF Next, Start, Request, Reuse, Register, Capture, Send, CloseAfterSend, FailAfterSend,
        Return, Timeout, Reply, Close, FailAfterClose, vars, conns

\* Whatever fails while a session is opened, closed or replaced, a client that
\* counts as started has a live receive loop for its current pipe.
THEOREM ReaderOfStartedClient == Spec => []StartedHasReader
  <1>1. Init => StartedHasReader
    BY DEF Init, StartedHasReader
  <1> QED
    BY <1>1, NextReader, ClientTypeCorrect, PTL DEF Spec

-----------------------------------------------------------------------------
(* A receive loop never waits for room.                                    *)

Before == {"idle", "ready"}

Answering(s) == loop[s].at = "answering"

\* A call with an entry has an empty queue: who takes the entry may fill it.
EntriesEmpty ==
  /\ \A r \in pending : box[r] = "empty" /\ call[r].at \notin Before
  /\ \A r \in Calls : call[r].at \in Before => box[r] = "empty"

\* Who took an entry is the only one who did.
HoldersAlone ==
  /\ \A s \in Sessions : Answering(s) =>
       /\ loop[s].call \in Calls \ pending
       /\ box[loop[s].call] = "empty"
       /\ call[loop[s].call].at \notin Before
  /\ \A s, t \in Sessions :
       Answering(s) /\ Answering(t) /\ loop[s].call = loop[t].call => s = t

RoomInv == EntriesEmpty /\ HoldersAlone

\* What a step must not do to calls and loops: start a call again, or let a
\* loop hold an answer it did not hold.
CallsForward == \A r \in Calls : call'[r].at \in Before => call[r].at \in Before
NoNewHolder  == \A s \in Sessions : Answering(s)' => Answering(s) /\ loop'[s].call = loop[s].call

LEMMA FewerEntries ==
  ASSUME TypeOK, RoomInv, pending' \subseteq pending, UNCHANGED box, CallsForward, NoNewHolder
  PROVE  RoomInv'
  BY DEF TypeOK, QueueOK, RoomInv, EntriesEmpty, HoldersAlone, CallsForward, NoNewHolder, Answering

LEMMA AllFailed ==
  ASSUME TypeOK, RoomInv, FailPending, CallsForward, NoNewHolder
  PROVE  RoomInv'
  <1>1. EntriesEmpty'
    BY DEF TypeOK, QueueOK, RoomInv, EntriesEmpty, CallsForward, FailPending
  <1>2. ASSUME NEW s \in Sessions, Answering(s)'
        PROVE  /\ loop'[s].call \in Calls \ pending'
               /\ box'[loop'[s].call] = "empty"
               /\ call'[loop'[s].call].at \notin Before
    BY <1>2 DEF TypeOK, QueueOK, RoomInv, HoldersAlone, CallsForward, NoNewHolder, FailPending
  <1>3. HoldersAlone'
    BY <1>2 DEF RoomInv, HoldersAlone, NoNewHolder, Answering
  <1> QED
    BY <1>1, <1>3 DEF RoomInv

LEMMA GoForward ==
  ASSUME CallOK, NEW r \in Calls, NEW at, Go(r, at), at \in Before => call[r].at \in Before
  PROVE  CallsForward
  BY DEF CallOK, Go, CallsForward

LEMMA GoLoopHoldsNothing ==
  ASSUME LoopOK, NEW s \in Sessions, NEW at, GoLoop(s, at), at # "answering"
  PROVE  NoNewHolder
  BY DEF LoopOK, GoLoop, NoNewHolder, Answering

LEMMA NextRoom == TypeOK /\ RoomInv /\ [Next]_vars => RoomInv'
  <1> SUFFICES ASSUME TypeOK, RoomInv, [Next]_vars PROVE RoomInv'
    OBVIOUS
  <1> USE DEF TypeOK
  <1>c. UNCHANGED call => CallsForward
    BY DEF CallsForward
  <1>l. UNCHANGED loop => NoNewHolder
    BY DEF NoNewHolder, Answering
  <1>e. UNCHANGED exchange => pending' \subseteq pending /\ UNCHANGED box
    BY DEF exchange
  <1>1. ASSUME NEW r \in Calls, Start(r) PROVE RoomInv'
    <2>1. CallsForward
      BY <1>1, GoForward DEF Start, Reuse, Open, OpenFails, Before
    <2>2. NoNewHolder
      <3>1. CASE Open(r)
        <4>1. opened + 1 \in Sessions
          BY <3>1, ClientAssumption DEF Open, ConnOK, Sessions
        <4> QED
          BY <3>1, <4>1, GoLoopHoldsNothing DEF Open
      <3> QED
        BY <1>1, <1>l, <3>1 DEF Start, Reuse, OpenFails
    <2>3. UNCHANGED exchange
      BY <1>1 DEF Start, Reuse, Open, OpenFails
    <2> QED
      BY <2>1, <2>2, <2>3, <1>e, FewerEntries
  <1>2. ASSUME NEW r \in Calls, Register(r) PROVE RoomInv'
    <2>1. /\ call' = [call EXCEPT ![r] = [at |-> "registered", conn |-> call[r].conn]]
          /\ call[r].at = "ready" /\ pending' = pending \union {r}
          /\ UNCHANGED <<loop, box>>
      BY <1>2 DEF Register, Go
    <2>2. EntriesEmpty'
      BY <2>1 DEF RoomInv, EntriesEmpty, CallOK, QueueOK, Before
    <2>3. HoldersAlone'
      BY <2>1 DEF RoomInv, HoldersAlone, CallOK, Answering, Before
    <2> QED
      BY <2>2, <2>3 DEF RoomInv
  <1>3. ASSUME NEW r \in Calls, Capture(r) PROVE RoomInv'
    <2>1. CallsForward
      BY <1>3 DEF Capture, CallOK, CallsForward, Before
    <2> QED
      BY <1>3, <2>1, <1>l, <1>e, FewerEntries DEF Capture
  <1>4. ASSUME NEW r \in Calls, Send(r) \/ CloseAfterSend(r) PROVE RoomInv'
    <2>1. CallsForward
      BY <1>4, GoForward DEF Send, CloseAfterSend, Before
    <2> QED
      BY <1>4, <2>1, <1>l, <1>e, FewerEntries DEF Send, CloseAfterSend
  <1>5. ASSUME NEW r \in Calls, FailAfterSend(r) PROVE RoomInv'
    BY <1>5, <1>l, GoForward, AllFailed DEF FailAfterSend, Before
  <1>6. ASSUME NEW r \in Calls, Return(r) \/ Timeout(r) PROVE RoomInv'
    <2>1. CallsForward
      BY <1>6, GoForward DEF Return, Timeout, Before
    <2> QED
      BY <1>6, <2>1, <1>l, FewerEntries DEF Return, Timeout
  <1>7. ASSUME NEW s \in Sessions, CheckCurrent(s) \/ Read(s) \/ ReadFails(s) \/ Mark(s)
        PROVE RoomInv'
    <2>1. NoNewHolder
      <3>1. CASE Read(s)
        BY <3>1 DEF Read, LoopOK, NoNewHolder, Answering
      <3> QED
        BY <1>7, <3>1, GoLoopHoldsNothing DEF CheckCurrent, ReadFails, Mark
    <2> QED
      BY <1>7, <2>1, <1>c, <1>e, FewerEntries DEF CheckCurrent, Read, ReadFails, Mark
  <1>8. ASSUME NEW s \in Sessions, Pop(s) PROVE RoomInv'
    <2> DEFINE c == loop[s].call
    <2>1. CASE c \notin pending
      <3>1. pending' \subseteq pending /\ NoNewHolder
        BY <1>8, <2>1, GoLoopHoldsNothing DEF Pop, TakeEntry
      <3> QED
        BY <1>8, <3>1, <1>c, FewerEntries DEF Pop
    <2>2. CASE c \in pending
      <3>1. /\ loop' = [loop EXCEPT ![s] = [at |-> "answering", call |-> c]]
            /\ pending' = pending \ {c}
            /\ loop[s].at = "got"
            /\ UNCHANGED <<box, call>>
        BY <1>8, <2>2 DEF Pop, TakeEntry, GoLoop
      <3>2. EntriesEmpty'
        BY <3>1 DEF RoomInv, EntriesEmpty
      <3>3. HoldersAlone'
        BY <2>2, <3>1 DEF RoomInv, EntriesEmpty, HoldersAlone, LoopOK, QueueOK, Answering
      <3> QED
        BY <3>2, <3>3 DEF RoomInv
    <2> QED
      BY <2>1, <2>2
  <1>9. ASSUME NEW s \in Sessions, Put(s) PROVE RoomInv'
    <2> DEFINE c == loop[s].call
    <2>1. /\ Answering(s)
          /\ box' = [box EXCEPT ![c] = "answer"]
          /\ loop' = [loop EXCEPT ![s] = [at |-> "check", call |-> c]]
          /\ UNCHANGED <<pending, call>>
      BY <1>9 DEF Put, GoLoop, Answering
    <2>2. c \in Calls \ pending /\ call[c].at \notin Before
      BY <2>1 DEF RoomInv, HoldersAlone
    <2>3. EntriesEmpty'
      BY <2>1, <2>2 DEF RoomInv, EntriesEmpty, QueueOK
    <2>4. HoldersAlone'
      BY <2>1, <2>2 DEF RoomInv, HoldersAlone, LoopOK, QueueOK, Answering
    <2> QED
      BY <2>3, <2>4 DEF RoomInv
  <1>10. ASSUME NEW s \in Sessions, FailAfterMark(s) PROVE RoomInv'
    BY <1>10, <1>c, GoLoopHoldsNothing, AllFailed DEF FailAfterMark
  <1>11. CASE FailAfterClose
    BY <1>11, <1>c, <1>l, AllFailed DEF FailAfterClose
  <1>12. CASE UNCHANGED <<loop, exchange, call>>
    BY <1>12, <1>c, <1>l, <1>e, FewerEntries
  <1> QED
    BY <1>1, <1>2, <1>3, <1>4, <1>5, <1>6, <1>7, <1>8, <1>9, <1>10, <1>11, <1>12
    DEF Next, Request, Receive, Reply, Break, Close, vars, exchange

\* However often the hub answers, whatever breaks and whoever fails the calls,
\* a receive loop finds the queue of the call it answers empty.
THEOREM ReceiveLoopNeverBlocks == Spec => []QueueHasRoom
  <1>1. Init => RoomInv
    BY DEF Init, RoomInv, EntriesEmpty, HoldersAlone, Answering, Done
  <1>2. RoomInv => QueueHasRoom
    BY DEF RoomInv, HoldersAlone, Answering, QueueHasRoom
  <1> QED
    BY <1>1, <1>2, NextRoom, ClientTypeCorrect, PTL DEF Spec

-----------------------------------------------------------------------------
(* Nobody but close() ends a sound session.                                *)

\* A loop that gives up has found its own pipe gone, and a session that is not opened has no loop.
LoopsOfOpened ==
  \A s \in Sessions : /\ s > opened => loop[s].at = "done"
                      /\ loop[s].at = "broken" => pipe[s].rx # "open"

\* What a step of a loop may do: a session stays opened, a pipe is not opened again.
LEMMA LoopMoves ==
  ASSUME TypeOK, LoopsOfOpened, NEW s \in Sessions, loop[s].at # "done", NEW l, loop' = [loop EXCEPT ![s] = l],
         l.at = "broken" => pipe'[s].rx # "open", UNCHANGED opened,
         \A t \in Sessions : pipe'[t].rx = "open" => pipe[t].rx = "open"
  PROVE  LoopsOfOpened'
  BY DEF TypeOK, LoopOK, LoopsOfOpened

LEMMA PipesClose ==
  ASSUME TypeOK, LoopsOfOpened, UNCHANGED <<opened, loop>>,
         \A t \in Sessions : pipe'[t].rx = "open" => pipe[t].rx = "open"
  PROVE  LoopsOfOpened'
  BY DEF LoopsOfOpened

LEMMA ClosedOpensNone ==
  ASSUME ConnOK
  PROVE  /\ \A t \in Sessions : Closed[t].rx = "open" => pipe[t].rx = "open"
         /\ \A t \in Sessions : Kept[t].rx = "open" => pipe[t].rx = "open"
  BY DEF ConnOK, Closed, Kept

LEMMA NextLoops == TypeOK /\ LoopsOfOpened /\ [Next]_vars => LoopsOfOpened'
  <1> SUFFICES ASSUME TypeOK, LoopsOfOpened, [Next]_vars PROVE LoopsOfOpened'
    OBVIOUS
  <1>0. ConnOK /\ LoopOK
    BY DEF TypeOK
  <1>1. CASE UNCHANGED <<conns, loop>>
    BY <1>1, PipesClose DEF conns
  <1>2. ASSUME Disconnect PROVE UNCHANGED opened /\ \A t \in Sessions : pipe'[t].rx = "open" => pipe[t].rx = "open"
    BY <1>0, <1>2, ClosedOpensNone DEF Disconnect
  <1>3. ASSUME NEW r \in Calls, Open(r) \/ OpenFails(r) PROVE LoopsOfOpened'
    <2> DEFINE n == opened + 1
    <2>1. n \in Sessions /\ opened' = n /\ opened \in Nat /\ loop[n].at = "done"
      BY <1>0, <1>3, ClientAssumption DEF Open, OpenFails, ConnOK, Sessions, LoopsOfOpened
    <2>2. PICK p : pipe' = [Kept EXCEPT ![n] = p]
      BY <1>3 DEF Open, OpenFails
    <2>3. \A t \in Sessions : t # n /\ pipe'[t].rx = "open" => pipe[t].rx = "open"
      BY <1>0, <2>1, <2>2, KeptType, ClosedOpensNone
    <2>4. /\ \A t \in Sessions : t # n => loop'[t] = loop[t]
          /\ loop'[n].at \in {"check", "done"}
      BY <1>0, <1>3, <2>1, GoLoopType DEF Open, OpenFails, LoopOK, LoopSteps
    <2> HIDE DEF n
    <2>5. ASSUME NEW t \in Sessions, t # n
          PROVE  (t > n => loop'[t].at = "done") /\ (loop'[t].at = "broken" => pipe'[t].rx # "open")
      BY <2>1, <2>3, <2>4, <2>5 DEF LoopsOfOpened, Sessions, n
    <2> QED
      BY <2>1, <2>4, <2>5 DEF LoopsOfOpened, Sessions
  <1>4. ASSUME NEW r \in Calls, CloseAfterSend(r) PROVE LoopsOfOpened'
    BY <1>2, <1>4, PipesClose DEF CloseAfterSend
  <1>5. CASE Close
    BY <1>2, <1>5, PipesClose DEF Close
  <1>6. ASSUME NEW s \in Sessions, Receive(s) PROVE LoopsOfOpened'
    <2>1. CASE Mark(s)
      <3>1. CASE OwnSession(s)
        BY <1>0, <1>2, <2>1, <3>1, GoLoopType, LoopMoves DEF Mark, LoopSteps
      <3>2. CASE ~ OwnSession(s)
        <4>1. loop[s].at # "done" /\ UNCHANGED <<opened, pipe>> /\ "done" \in LoopSteps /\ GoLoop(s, "done")
          BY <2>1, <3>2 DEF Mark, LoopSteps, conns
        <4>2. loop' = [loop EXCEPT ![s] = [at |-> "done", call |-> loop[s].call]]
          BY <1>0, <4>1, GoLoopType
        <4> QED
          BY <4>1, <4>2, LoopMoves
      <3> QED
        BY <3>1, <3>2
    <2>2. CASE ReadFails(s)
      BY <1>0, <2>2, GoLoopType, LoopMoves DEF ReadFails, LoopSteps, conns
    <2>3. CASE Read(s)
      BY <2>3, LoopMoves DEF Read, conns
    <2>4. CASE CheckCurrent(s) \/ Pop(s) \/ Put(s) \/ FailAfterMark(s)
      BY <1>0, <2>4, GoLoopType, LoopMoves DEF CheckCurrent, Pop, Put, FailAfterMark, LoopSteps, conns
    <2> QED
      BY <1>6, <2>1, <2>2, <2>3, <2>4 DEF Receive
  <1>7. ASSUME NEW s \in Sessions, Break(s) PROVE LoopsOfOpened'
    BY <1>0, <1>7, PipesClose DEF Break, ConnOK
  <1> QED
    BY <1>1, <1>3, <1>4, <1>5, <1>6, <1>7
    DEF Next, Start, Request, Reuse, Register, Capture, Send, FailAfterSend, Return, Timeout, Reply,
        FailAfterClose, vars, conns

\* The session of a started client with sound pipes stays current until close() is called or a write has
\* failed, however late the loops of earlier sessions find their pipes gone (pipe_client.py
\* _mark_disconnected).
THEOREM SessionsAreKept == Spec => SoundSessionKept
  <1>1. Init => LoopsOfOpened
    BY DEF Init, LoopsOfOpened, Done
  <1>2. TypeOK /\ StartedHasReader /\ LoopsOfOpened /\ [Next]_vars =>
          [(started /\ pipe[rx] = [rx |-> "open", tx |-> "open"] /\ rx' # rx) =>
             \/ closer'.closes > closer.closes
             \/ \E r \in Calls : call[r].at = "closing" /\ call'[r].at = "failing"]_vars
    <2> SUFFICES ASSUME TypeOK, StartedHasReader, LoopsOfOpened, Next,
                        started, pipe[rx] = [rx |-> "open", tx |-> "open"], rx' # rx
                 PROVE  \/ closer'.closes > closer.closes
                        \/ \E r \in Calls : call[r].at = "closing" /\ call'[r].at = "failing"
      BY DEF vars
    <2>1. Running /\ rx \in Sessions
      BY DEF Running, StartedHasReader
    <2>2. CASE Close
      BY <2>2 DEF Close, TypeOK, CloserOK
    <2>3. ASSUME NEW r \in Calls, CloseAfterSend(r)
          PROVE  call[r].at = "closing" /\ call'[r].at = "failing"
      BY <2>3 DEF CloseAfterSend, Go, TypeOK, CallOK
    <2>4. ASSUME NEW s \in Sessions, Receive(s) PROVE FALSE
      <3>1. Mark(s) /\ OwnSession(s)
        BY <2>4 DEF Receive, CheckCurrent, Read, ReadFails, Pop, Put, Mark, FailAfterMark, conns
      <3> QED
        BY <3>1 DEF Mark, OwnSession, LoopsOfOpened
    <2> QED
      BY <2>1, <2>2, <2>3, <2>4
      DEF Next, Start, Open, OpenFails, Request, Reuse, Register, Capture, Send, FailAfterSend, Return,
          Timeout, Reply, FailAfterClose, Break, conns
  <1> QED
    BY <1>1, <1>2, NextLoops, ClientTypeCorrect, ReaderOfStartedClient, PTL DEF Spec, SoundSessionKept

=============================================================================
