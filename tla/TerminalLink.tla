---------------------------- MODULE TerminalLink ----------------------------
(***************************************************************************)
(* The connection between the terminal and the hub: the threads that keep  *)
(* two pipes open at the terminal (pipe_transport.py PipeTxClient) and the *)
(* hub's registration of them (pipe_hub.py).  Each side finds out in its   *)
(* own time that a connection is over, and the hub drops the two pipes of  *)
(* an instance together.                                                   *)
(*                                                                         *)
(* One request channel.  What the pipes carry is in MarketBridge and       *)
(* HubRequests.                                                            *)
(***************************************************************************)
EXTENDS Naturals

CONSTANTS
  TPairs,       \* pairs of pipes, used again when nobody has a handle of one
  MaxLosses,   \* bound: pipes lost, hearts not heard, restarts of a process
  MaxBehind      \* bound: times the terminal's next pipe is there before the hub has dropped what the last ones leave

TRx == [pair : TPairs, end : {"rx"}]
TTx == [pair : TPairs, end : {"tx"}]
TPipes == TRx \union TTx
TEnds(k) == {p \in TPipes : p.pair = k}
None == [pair |-> "none", end |-> "none"]
HubThread == [pair |-> "none", end |-> "hub"]  \* threads of clients, the maintenance thread
TThreads == TPipes \union {HubThread}

VARIABLES
  losses, behind,  \* what the bounds count
  instance,   \* of the strategy that runs: instance_id
  of,         \* pair -> instance that opened it
  loop,       \* the connect loop: what it does, and with which pair
  link,       \* the pair rx_conn and tx_conn are of
  mine,       \* pipes whose handle the terminal has not closed
  hubOpen,    \* pipes whose handle the hub has not closed
  hello,      \* pipes whose hello the hub has not read
  thread,     \* pipe -> the hub's thread
  dropping, hubClosing,  \* thread -> pipes it has to drop, to close
  hubRx, hubTx, hubKnown \* qmt_rx_by_channel, qmt_tx_by_channel, qmt_conn_meta_by_conn

hubVars == <<hello, thread, dropping, hubClosing, hubRx, hubTx, hubKnown>>
linkVars == <<losses, behind, instance, of, loop, link, mine, hubOpen, hubVars>>

LinkInit ==
  /\ losses = 0 /\ behind = 0
  /\ instance = 1 /\ of = [k \in TPairs |-> 0]
  /\ loop = [at |-> "waiting", pair |-> "none"] /\ link = "none" /\ mine = {}
  /\ hubOpen = {} /\ hello = {}
  /\ thread = [p \in TPipes |-> "ended"]
  /\ dropping = [t \in TThreads |-> {}] /\ hubClosing = [t \in TThreads |-> {}]
  /\ hubRx = None /\ hubTx = None /\ hubKnown = {}

-----------------------------------------------------------------------------
(* The connection, at the terminal.                                        *)

Unused(k) == \A p \in TEnds(k) : thread[p] = "ended" /\ p \notin mine \union hubOpen
                /\ \A t \in TThreads : p \notin dropping[t] \union hubClosing[t]

\* A pipe is opened and hello written to it.
Opens(p) ==
  /\ mine' = mine \union {p} /\ hubOpen' = hubOpen \union {p} /\ hello' = hello \union {p}
  /\ thread' = [thread EXCEPT ![p] = "reading"]
  /\ UNCHANGED <<dropping, hubClosing, hubRx, hubTx, hubKnown>>

Behind(late) == behind' = behind + (IF late THEN 1 ELSE 0) /\ behind' <= MaxBehind

HubIsBehind ==
  \/ \E p \in TPipes : thread[p] \in {"reading", "registered"} \/ (thread[p] = "passive" /\ p \notin hubKnown)
  \/ \E t \in TThreads : dropping[t] \union hubClosing[t] # {}

OpenRx ==
  /\ loop.at = "waiting" /\ \E k \in TPairs : Unused(k)
  /\ Behind(HubIsBehind)
  /\ LET k == CHOOSE k \in TPairs : Unused(k) IN
       /\ loop' = [at |-> "half", pair |-> k] /\ of' = [of EXCEPT ![k] = instance]
       /\ Opens([pair |-> k, end |-> "rx"])
  /\ UNCHANGED <<losses, instance, link>>

\* The connection is there, with a new generation.
OpenTx ==
  /\ loop.at = "half"
  /\ Opens([pair |-> loop.pair, end |-> "tx"])
  /\ loop' = [loop EXCEPT !.at = "reading"] /\ link' = loop.pair
  /\ UNCHANGED <<losses, behind, instance, of>>

DropPair(k) ==
  /\ link' = IF link = k THEN "none" ELSE link
  /\ mine' = mine \ TEnds(k)

\* read_loop: the pipe's end, or a pipe that another thread has closed.
ReadEnds ==
  /\ loop.at = "reading"
  /\ link # loop.pair \/ [pair |-> loop.pair, end |-> "rx"] \notin hubOpen
  /\ loop' = [at |-> "waiting", pair |-> "none"]
  /\ DropPair(loop.pair)
  /\ UNCHANGED <<losses, behind, instance, of, hubOpen, hubVars>>

\* A heartbeat, an answer or an event cannot be written.
WriteFails ==
  /\ link # "none" /\ [pair |-> link, end |-> "tx"] \notin hubOpen
  /\ DropPair(link)
  /\ UNCHANGED <<losses, behind, instance, of, loop, hubOpen, hubVars>>

\* The second pipe cannot be opened, or reading fails.
PipeFails ==
  /\ loop.at # "waiting" /\ losses < MaxLosses /\ losses' = losses + 1
  /\ loop' = [at |-> "waiting", pair |-> "none"]
  /\ DropPair(loop.pair)
  /\ UNCHANGED <<behind, instance, of, hubOpen, hubVars>>

\* The strategy is stopped and started, or the terminal with it: a bridge with another instance id.
StopAndInit ==
  /\ losses < MaxLosses /\ losses' = losses + 1
  /\ instance' = instance + 1
  /\ loop' = [at |-> "waiting", pair |-> "none"] /\ link' = "none" /\ mine' = {}
  /\ UNCHANGED <<behind, of, hubOpen, hubVars>>

-----------------------------------------------------------------------------
(* The hub.  An action is what a thread does under qmt_lock, or its closes.*)

NotReplaced(old) == {}  \* mutant of Replaced
Replaced(old) == {old} \ {None}

\* _handle_hello: what was registered before is dropped after the lock is left.
HelloQmt(p) ==
  LET old == IF p \in TRx THEN hubRx ELSE hubTx IN
  /\ thread[p] = "reading" /\ p \in hello /\ p \in hubOpen
  /\ Behind(\E q \in TEnds(p.pair) \ {p} : dropping[q] # {} \/ (p \in TTx /\ q \in hello))
  /\ hello' = hello \ {p}
  /\ hubRx' = IF p \in TRx THEN p ELSE hubRx
  /\ hubTx' = IF p \in TTx THEN p ELSE hubTx
  /\ hubKnown' = hubKnown \union {p}
  /\ dropping' = [dropping EXCEPT ![p] = Replaced(old)]
  /\ thread' = [thread EXCEPT ![p] = IF p \in TRx THEN "passive" ELSE "registered"]
  /\ UNCHANGED <<losses, instance, of, loop, link, mine, hubOpen, hubClosing>>

SameInstance(p, q) == of[p.pair] = of[q.pair]

\* _qmt_pair_peers_locked: the other end that is registered, if it is of the same instance.
PairPeers(p) ==
  IF p \notin hubKnown THEN {}
  ELSE {q \in {IF p \in TRx THEN hubTx ELSE hubRx} \ {None} : SameInstance(p, q)}

DetachQmt(gone) ==
  /\ hubRx' = IF hubRx \in gone THEN None ELSE hubRx
  /\ hubTx' = IF hubTx \in gone THEN None ELSE hubTx
  /\ hubKnown' = hubKnown \ gone

DropConn(t) ==
  /\ hubClosing[t] = {}
  /\ \E p \in dropping[t] :
       LET gone == {p} \union PairPeers(p) IN
       /\ DetachQmt(gone)
       /\ dropping' = [dropping EXCEPT ![t] = @ \ {p}]
       /\ hubClosing' = [hubClosing EXCEPT ![t] = (gone \intersect hubKnown) \union (IF t = p THEN {p} ELSE {})]
  /\ UNCHANGED <<losses, behind, instance, of, loop, link, mine, hubOpen, hello, thread>>

CloseConns(t) ==
  /\ hubClosing[t] # {}
  /\ hubOpen' = hubOpen \ hubClosing[t]
  /\ hubClosing' = [hubClosing EXCEPT ![t] = {}]
  /\ UNCHANGED <<losses, behind, instance, of, loop, link, mine, hello, thread, dropping, hubRx, hubTx, hubKnown>>

\* The pipe's end is read, or it was closed here; a receive pipe is not read but asked for in the table.
ThreadEnds(p) ==
  /\ dropping[p] = {} /\ hubClosing[p] = {}
  /\ \/ thread[p] \in {"reading", "registered"} /\ (p \notin hubOpen \/ (p \notin hello /\ p \notin mine))
     \/ thread[p] = "passive" /\ p \notin hubKnown
  /\ thread' = [thread EXCEPT ![p] = "ended"] /\ hello' = hello \ {p}
  /\ dropping' = [dropping EXCEPT ![p] = {p}]
  /\ UNCHANGED <<losses, behind, instance, of, loop, link, mine, hubOpen, hubClosing, hubRx, hubTx, hubKnown>>

\* A client's request cannot be written: the terminal is dropped.
ForwardFails ==
  /\ hubRx # None /\ ~(hubRx \in hubOpen /\ hubRx \in mine)
  /\ dropping[HubThread] = {}
  /\ dropping' = [dropping EXCEPT ![HubThread] = {hubRx}]
  /\ UNCHANGED <<losses, behind, instance, of, loop, link, mine, hubOpen, hello, thread, hubClosing, hubRx, hubTx, hubKnown>>

\* cleanup_stale_qmt: no heartbeat for long enough, on the pipe that carries them.
Stale ==
  /\ losses < MaxLosses /\ losses' = losses + 1
  /\ hubTx # None /\ dropping[HubThread] = {}
  /\ dropping' = [dropping EXCEPT ![HubThread] = {hubTx}]
  /\ UNCHANGED <<behind, instance, of, loop, link, mine, hubOpen, hello, thread, hubClosing, hubRx, hubTx, hubKnown>>

HubRestarts ==
  /\ losses < MaxLosses /\ losses' = losses + 1
  /\ hubOpen' = {} /\ hello' = {} /\ hubRx' = None /\ hubTx' = None /\ hubKnown' = {}
  /\ thread' = [p \in TPipes |-> "ended"]
  /\ dropping' = [t \in TThreads |-> {}] /\ hubClosing' = [t \in TThreads |-> {}]
  /\ UNCHANGED <<behind, instance, of, loop, link, mine>>

LinkNext ==
  \/ OpenRx \/ OpenTx \/ ReadEnds \/ WriteFails \/ PipeFails \/ StopAndInit
  \/ \E p \in TPipes : HelloQmt(p) \/ ThreadEnds(p)
  \/ \E t \in TThreads : DropConn(t) \/ CloseConns(t)
  \/ ForwardFails \/ Stale \/ HubRestarts

\* Heartbeats are written again and again, and no thread stops.
LinkFairness ==
  /\ WF_linkVars(OpenRx) /\ WF_linkVars(OpenTx) /\ WF_linkVars(ReadEnds) /\ WF_linkVars(WriteFails)
  /\ \A p \in TPipes : WF_linkVars(HelloQmt(p)) /\ WF_linkVars(ThreadEnds(p))
  /\ \A t \in TThreads : WF_linkVars(DropConn(t)) /\ WF_linkVars(CloseConns(t))

LinkSpec == LinkInit /\ [][LinkNext]_linkVars /\ LinkFairness

(***************************************************************************)
(* Whatever pipes were lost, replaced or dropped as the peer of another    *)
(* one, whichever process was restarted: in the end the terminal has one   *)
(* connection, open at both ends, whose two pipes are the ones the hub has *)
(* registered, and the hub is left with their threads only.                *)
(***************************************************************************)
LinkSettles ==
  <>[](/\ link # "none" /\ TEnds(link) \subseteq hubOpen
       /\ hubRx \in TEnds(link) /\ hubTx \in TEnds(link)
       /\ \A p \in TPipes : thread[p] # "ended" => p.pair = link)
=============================================================================
