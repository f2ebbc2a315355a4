----------------------------- MODULE RpcClient -----------------------------
(***************************************************************************)
(* The client end of the market pipe (pipe_client.py PipeRpcClient).       *)
(*                                                                         *)
(* All threads of the service share one client: the lanes and the request  *)
(* threads of the console call it concurrently.  A session is a pair of    *)
(* pipes, one to write requests and one to read answers, with a receive    *)
(* loop of its own.  Pipes break; a session is then closed, the calls in   *)
(* progress fail, and the next call opens another session, while the old   *)
(* receive loop may still be on its way out.                               *)
(***************************************************************************)
EXTENDS Integers, Sequences, FiniteSets

CONSTANTS
  Calls,        \* calls of request(), one per request id
  MaxSessions,  \* bound: sessions opened
  MaxBreaks,    \* bound: pipes broken at one time
  MaxCloses,    \* bound: configure() closes the client
  MaxReplies    \* bound: answers to one request; the hub may send an error twice

ASSUME ClientAssumption ==
  /\ IsFiniteSet(Calls)
  /\ MaxSessions \in Nat /\ MaxBreaks \in Nat /\ MaxCloses \in Nat /\ MaxReplies \in Nat

Sessions == 1..MaxSessions

VARIABLES
  started,  \* _started
  rx, tx,   \* _rx_conn, _tx_conn: the session of the pipe, 0 for None
  opened,   \* sessions opened
  pipe,     \* session -> its two pipes: open, broken by the other end, or closed
  inbox,    \* session -> answers written to its receive pipe and not yet read
  loop,     \* session -> its receive loop, and the call whose answer it holds
  pending,  \* _pending: the calls with an entry
  box,      \* call -> its queue of size one
  call,     \* call -> its thread, and the session of the pipe it writes to
  asked,    \* call -> the session the hub received it on, and its answers
  closer    \* the thread of configure(): its step, and how often it closed

vars == <<started, rx, tx, opened, pipe, inbox, loop, pending, box, call, asked, closer>>

conns    == <<started, rx, tx, opened, pipe>>
exchange == <<pending, box>>
hub      == <<inbox, asked>>

NoPipes == [rx |-> "closed", tx |-> "closed"]
Done    == [at |-> "done", call |-> "none"]

Init ==
  /\ started = FALSE /\ rx = 0 /\ tx = 0 /\ opened = 0
  /\ pipe = [s \in Sessions |-> NoPipes]
  /\ inbox = [s \in Sessions |-> << >>]
  /\ loop = [s \in Sessions |-> Done]
  /\ pending = {}
  /\ box = [r \in Calls |-> "empty"]
  /\ call = [r \in Calls |-> [at |-> "idle", conn |-> 0]]
  /\ asked = [r \in Calls |-> [session |-> 0, replies |-> 0]]
  /\ closer = [at |-> "idle", closes |-> 0]

Go(r, at)     == call' = [call EXCEPT ![r] = [at |-> at, conn |-> @.conn]]
GoLoop(s, at) == loop' = [loop EXCEPT ![s] = [at |-> at, call |-> @.call]]

-----------------------------------------------------------------------------
(* The connection, under _lock.                                            *)

\* _close_conns_locked
Closed ==
  [s \in Sessions |-> [rx |-> IF s = rx THEN "closed" ELSE pipe[s].rx,
                       tx |-> IF s = tx THEN "closed" ELSE pipe[s].tx]]

Disconnect ==
  /\ started' = FALSE /\ rx' = 0 /\ tx' = 0
  /\ pipe' = Closed
  /\ UNCHANGED opened

\* _fail_pending takes every entry there is, whichever session it belongs to;
\* the faulty variant only forgets them.
ForgetPending == pending' = {} /\ UNCHANGED box
FailPending ==
  /\ pending' = {}
  /\ box' = [r \in Calls |-> IF r \in pending /\ box[r] = "empty" THEN "failure" ELSE box[r]]

Running == started /\ loop[rx].at # "done"

-----------------------------------------------------------------------------
(* request().                                                              *)

\* start() finds a session, or opens one: pipe, hello, pipe, hello.
Reuse(r) ==
  /\ call[r].at = "idle" /\ Running
  /\ Go(r, "ready")
  /\ UNCHANGED <<conns, loop, exchange, hub, closer>>

\* What a session whose receive loop is gone leaves is closed first.
Kept == IF started THEN Closed ELSE pipe

Open(r) ==
  /\ call[r].at = "idle" /\ ~ Running
  /\ opened < MaxSessions
  /\ LET s == opened + 1
     IN /\ opened' = s /\ rx' = s /\ tx' = s /\ started' = TRUE
        /\ pipe' = [Kept EXCEPT ![s] = [rx |-> "open", tx |-> "open"]]
        /\ GoLoop(s, "check")
  /\ Go(r, "ready")
  /\ UNCHANGED <<exchange, hub, closer>>

\* Any of the four steps may fail: what was assigned stays, and the call ends.
\* The faulty variant says that the client has started before it has.
StartedEarly  == TRUE
StartedAtFail == FALSE
HalfOpen == {[rx |-> "broken", tx |-> "closed"],
             [rx |-> "open",   tx |-> "closed"],
             [rx |-> "open",   tx |-> "broken"]}

OpenFails(r) ==
  /\ call[r].at = "idle" /\ ~ Running
  /\ opened < MaxSessions
  /\ LET s    == opened + 1
         left == IF started THEN 0 ELSE tx
     IN \E p \in HalfOpen \union {NoPipes} :
          /\ opened' = s
          /\ rx' = IF p # NoPipes THEN s ELSE IF started THEN 0 ELSE rx
          /\ tx' = IF p.tx = "broken" THEN s ELSE left
          /\ pipe' = [Kept EXCEPT ![s] = p]
  /\ started' = StartedAtFail
  /\ Go(r, "ended")
  /\ UNCHANGED <<loop, exchange, hub, closer>>

Register(r) ==
  /\ call[r].at = "ready"
  /\ pending' = pending \union {r}
  /\ Go(r, "registered")
  /\ UNCHANGED <<conns, loop, box, hub, closer>>

\* _send_request reads _tx_conn without the lock and then writes to that pipe.
SomeConn(s) == s # 0

Capture(r) ==
  /\ call[r].at = "registered"
  /\ call' = [call EXCEPT ![r] = [at |-> IF SomeConn(tx) THEN "sending" ELSE "closing", conn |-> tx]]
  /\ UNCHANGED <<conns, loop, exchange, hub, closer>>

Send(r) ==
  /\ call[r].at = "sending"
  /\ IF pipe[call[r].conn].tx = "open"
       THEN Go(r, "waiting") /\ asked' = [asked EXCEPT ![r] = [session |-> call[r].conn, replies |-> @.replies]]
       ELSE Go(r, "closing") /\ UNCHANGED asked
  /\ UNCHANGED <<conns, loop, exchange, inbox, closer>>

\* The write failed: close(), whichever session is current by now.
CloseAfterSend(r) ==
  /\ call[r].at = "closing"
  /\ Disconnect
  /\ Go(r, "failing")
  /\ UNCHANGED <<loop, exchange, hub, closer>>

FailAfterSend(r) ==
  /\ call[r].at = "failing"
  /\ FailPending
  /\ Go(r, "ended")
  /\ UNCHANGED <<conns, loop, hub, closer>>

\* The queue has an answer or a failure, or the deadline passes.
Return(r) ==
  /\ call[r].at = "waiting" /\ box[r] # "empty"
  /\ pending' = pending \ {r}
  /\ Go(r, "ended")
  /\ UNCHANGED <<conns, loop, box, hub, closer>>

Timeout(r) ==
  /\ call[r].at = "waiting" /\ box[r] = "empty"
  /\ pending' = pending \ {r}
  /\ Go(r, "ended")
  /\ UNCHANGED <<conns, loop, box, hub, closer>>

-----------------------------------------------------------------------------
(* _recv_loop of a session.                                                *)

CheckCurrent(s) ==
  /\ loop[s].at = "check"
  /\ GoLoop(s, IF started /\ rx = s THEN "reading" ELSE "done")
  /\ UNCHANGED <<conns, exchange, hub, call, closer>>

\* What was written before the other end broke may still be read.
Read(s) ==
  /\ loop[s].at = "reading"
  /\ inbox[s] # << >> /\ pipe[s].rx # "closed"
  /\ loop' = [loop EXCEPT ![s] = [at |-> "got", call |-> Head(inbox[s])]]
  /\ inbox' = [inbox EXCEPT ![s] = Tail(@)]
  /\ UNCHANGED <<conns, exchange, call, asked, closer>>

ReadFails(s) ==
  /\ loop[s].at = "reading"
  /\ pipe[s].rx # "open"
  /\ GoLoop(s, "broken")
  /\ UNCHANGED <<conns, exchange, hub, call, closer>>

\* Whoever takes the entry out answers the call; the faulty variant leaves it.
LeaveEntry(r) == pending
TakeEntry(r)  == pending \ {r}

Pop(s) ==
  /\ loop[s].at = "got"
  /\ GoLoop(s, IF loop[s].call \in pending THEN "answering" ELSE "check")
  /\ pending' = TakeEntry(loop[s].call)
  /\ UNCHANGED <<conns, box, hub, call, closer>>

\* put() waits for room in the queue.
Put(s) ==
  /\ loop[s].at = "answering"
  /\ box[loop[s].call] = "empty"
  /\ box' = [box EXCEPT ![loop[s].call] = "answer"]
  /\ GoLoop(s, "check")
  /\ UNCHANGED <<conns, pending, hub, call, closer>>

\* _mark_disconnected leaves another session alone; the faulty variant does not
\* look whose pipe it was.
AnySession(s) == rx # 0
OwnSession(s) == rx = s

Mark(s) ==
  /\ loop[s].at = "broken"
  /\ IF OwnSession(s) THEN Disconnect /\ GoLoop(s, "failing")
                      ELSE GoLoop(s, "done") /\ UNCHANGED conns
  /\ UNCHANGED <<exchange, hub, call, closer>>

FailAfterMark(s) ==
  /\ loop[s].at = "failing"
  /\ FailPending
  /\ GoLoop(s, "done")
  /\ UNCHANGED <<conns, hub, call, closer>>

-----------------------------------------------------------------------------
(* configure(), the hub and the pipes.                                     *)

Close ==
  /\ closer.at = "idle" /\ closer.closes < MaxCloses
  /\ Disconnect
  /\ closer' = [at |-> "failing", closes |-> closer.closes + 1]
  /\ UNCHANGED <<loop, exchange, hub, call>>

FailAfterClose ==
  /\ closer.at = "failing"
  /\ FailPending
  /\ closer' = [at |-> "idle", closes |-> closer.closes]
  /\ UNCHANGED <<conns, loop, hub, call>>

\* The hub answers on the receive pipe of the session; an answer is lost when
\* that pipe is gone.
Reply(r) ==
  LET s == asked[r].session
  IN /\ s # 0 /\ asked[r].replies < MaxReplies
     /\ asked' = [asked EXCEPT ![r] = [session |-> s, replies |-> @.replies + 1]]
     /\ inbox' = IF pipe[s].rx = "open" THEN [inbox EXCEPT ![s] = Append(@, r)] ELSE inbox
     /\ UNCHANGED <<conns, loop, exchange, call, closer>>

Broken == Cardinality({s \in Sessions : pipe[s].rx = "broken"})
            + Cardinality({s \in Sessions : pipe[s].tx = "broken"})

Break(s) ==
  /\ Broken < MaxBreaks
  /\ \/ pipe[s].rx = "open" /\ pipe' = [pipe EXCEPT ![s] = [rx |-> "broken", tx |-> @.tx]]
     \/ pipe[s].tx = "open" /\ pipe' = [pipe EXCEPT ![s] = [rx |-> @.rx, tx |-> "broken"]]
  /\ UNCHANGED <<started, rx, tx, opened, loop, exchange, hub, call, closer>>

-----------------------------------------------------------------------------
Start(r)    == Reuse(r) \/ Open(r) \/ OpenFails(r)
Request(r)  == Register(r) \/ Capture(r) \/ Send(r) \/ CloseAfterSend(r)
                 \/ FailAfterSend(r) \/ Return(r)
Receive(s)  == CheckCurrent(s) \/ Read(s) \/ ReadFails(s) \/ Pop(s) \/ Put(s)
                 \/ Mark(s) \/ FailAfterMark(s)

Next ==
  \/ \E r \in Calls : Start(r) \/ Request(r) \/ Timeout(r) \/ Reply(r)
  \/ \E s \in Sessions : Receive(s) \/ Break(s)
  \/ Close \/ FailAfterClose

Spec == Init /\ [][Next]_vars

\* The threads of the client run and the hub answers; no deadline need pass,
\* nobody need call or close, and no pipe need break.
FairSpec ==
  /\ Spec
  /\ \A r \in Calls : WF_vars(Request(r)) /\ WF_vars(asked[r].replies = 0 /\ Reply(r))
  /\ \A s \in Sessions : WF_vars(Receive(s))
  /\ WF_vars(FailAfterClose)

-----------------------------------------------------------------------------
(* Properties.                                                             *)

PipeStates == {"open", "broken", "closed"}
LoopSteps  == {"done", "check", "reading", "got", "answering", "broken", "failing"}
CallSteps  == {"idle", "ready", "registered", "sending", "waiting", "closing", "failing", "ended"}

ConnOK ==
  /\ started \in BOOLEAN
  /\ rx \in 0..MaxSessions /\ tx \in 0..MaxSessions /\ opened \in 0..MaxSessions
  /\ pipe \in [Sessions -> [rx : PipeStates, tx : PipeStates]]

LoopOK == loop \in [Sessions -> [at : LoopSteps, call : Calls \union {"none"}]]

QueueOK ==
  /\ pending \subseteq Calls
  /\ box \in [Calls -> {"empty", "answer", "failure"}]

CallOK ==
  /\ call \in [Calls -> [at : CallSteps, conn : 0..MaxSessions]]
  /\ \A r \in Calls : call[r].at = "sending" => call[r].conn \in Sessions

HubOK ==
  /\ inbox \in [Sessions -> Seq(Calls)]
  /\ asked \in [Calls -> [session : 0..MaxSessions, replies : 0..MaxReplies]]

CloserOK == closer \in [at : {"idle", "failing"}, closes : 0..MaxCloses]

TypeOK == ConnOK /\ LoopOK /\ QueueOK /\ CallOK /\ HubOK /\ CloserOK

\* A receive loop never waits for room in a queue, even when the hub answers
\* twice or a failure reached the call first: a loop that waits reads nothing
\* for any other call.
QueueHasRoom ==
  \A s \in Sessions : loop[s].at = "answering" => box[loop[s].call] = "empty"

\* A client that has started has a receive loop for its current pipe; without
\* one the calls would write requests whose answers nobody reads.
StartedHasReader ==
  started => rx \in Sessions /\ tx = rx /\ loop[rx].at \notin {"done", "failing"}

\* Only close() ends a session whose pipes are sound: the receive loop of an
\* earlier session, however late it finds its own pipe gone, never does.
SoundSessionKept ==
  [][(started /\ pipe[rx] = [rx |-> "open", tx |-> "open"] /\ rx' # rx) =>
       \/ closer'.closes > closer.closes
       \/ \E r \in Calls : call[r].at = "closing" /\ call'[r].at = "failing"]_vars

\* A call that has registered returns or fails without the help of its
\* deadline, whatever breaks and whoever closes the session it uses.
EveryCallEnds ==
  \A r \in Calls : call[r].at = "registered" ~> call[r].at = "ended"

=============================================================================
