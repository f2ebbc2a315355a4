----------------------------- MODULE HubClients -----------------------------
(***************************************************************************)
(* Which pipes of a client the hub answers on (pipe_hub.py): a client has  *)
(* two, it opens new ones when a call fails, and the hub reads every pipe  *)
(* in a thread of its own, so that it may learn of the new ones before it  *)
(* has read the old ones to their end.                                     *)
(*                                                                         *)
(* One client; what it asks for is in HubRequests and RpcClient.  A        *)
(* generation is only compared with the client's current one, which is     *)
(* that of its receive pipe: "paired" says that its send pipe has it too.  *)
(***************************************************************************)
EXTENDS Naturals, Sequences

CONSTANTS
  Pairs,       \* pairs of pipes, used again when nobody has a handle of one
  MaxBreaks,   \* bound: sessions that the client ends itself
  MaxLate      \* bound: times the hub is late to read the end of an old pipe, or a receive pipe's hello

Rx == [pair : Pairs, end : {"rx"}]
Tx == [pair : Pairs, end : {"tx"}]
Pipes == Rx \union Tx
Ends(k) == {p \in Pipes : p.pair = k}
NoPipe == [pair |-> "none", end |-> "none"]
Terminal == [pair |-> "none", end |-> "terminal"]
Threads == Pipes \union {Terminal}

VARIABLES
  session,    \* the pair the client uses, "none" when it has to connect
  breaks, late,
  held, open, \* pipes whose handle the client, the hub has not closed
  frames,     \* what the hub has not read of a pipe
  reader,     \* pipe -> what the hub's thread of it does
  closing,    \* thread -> pipes it has taken off the tables and is going to close
  rx, tx,     \* client_by_id, client_tx_by_id
  paired,     \* the generations of rx and tx are equal
  known,      \* client_ids_by_conn
  owed        \* pipes on which a pending request will be answered

clientVars == <<session, breaks, late, held, open, frames, reader, closing, rx, tx, paired, known, owed>>

ClientsInit ==
  /\ session = "none" /\ breaks = 0 /\ late = 0
  /\ held = {} /\ open = {} /\ known = {} /\ owed = {}
  /\ frames = [p \in Pipes |-> <<>>]
  /\ reader = [p \in Pipes |-> "ended"]
  /\ closing = [t \in Threads |-> {}]
  /\ rx = NoPipe /\ tx = NoPipe /\ paired = FALSE

(***************************************************************************)
(* The client (pipe_client.py; module RpcClient has its threads).          *)
(***************************************************************************)
Free(k) == \A p \in Ends(k) : reader[p] = "ended" /\ p \notin held \union open \union owed \union UNION {closing[t] : t \in Threads}

Late(behind) == late' = late + (IF behind THEN 1 ELSE 0) /\ late' <= MaxLate

\* Any free pair will do: pipes are alike.
Connect ==
  /\ session = "none"
  /\ \E k \in Pairs : Free(k)
  /\ Late(\E p \in Pipes : reader[p] = "reading")
  /\ LET k == CHOOSE k \in Pairs : Free(k) IN
       /\ session' = k
       /\ held' = held \union Ends(k) /\ open' = open \union Ends(k)
       /\ frames' = [p \in Pipes |-> IF p \in Ends(k) THEN <<"hello">> ELSE frames[p]]
       /\ reader' = [p \in Pipes |-> IF p \in Ends(k) THEN "reading" ELSE reader[p]]
  /\ UNCHANGED <<breaks, closing, rx, tx, paired, known, owed>>

Disconnected ==
  /\ held' = held \ Ends(session)
  /\ session' = "none"
  /\ UNCHANGED <<open, frames, reader, closing, rx, tx, paired, known, owed>>

Call ==
  /\ session # "none"
  /\ \E p \in Ends(session) \intersect Tx :
       /\ p \in open /\ Len(frames[p]) < 2
       /\ frames' = [frames EXCEPT ![p] = Append(@, "request")]
  /\ UNCHANGED <<session, breaks, late, held, open, reader, closing, rx, tx, paired, known, owed>>

\* A call cannot be written, or the receive loop finds the pipe closed.
ClientNotices == session # "none" /\ ~(Ends(session) \subseteq open) /\ Disconnected /\ UNCHANGED <<breaks, late>>

ClientBreaks == session # "none" /\ breaks < MaxBreaks /\ breaks' = breaks + 1 /\ UNCHANGED late /\ Disconnected

(***************************************************************************)
(* The hub.  An action is what a thread does under the hub's lock.         *)
(***************************************************************************)
Detach(p) == known \ {p}

FirstOne(old, p) == IF old = NoPipe THEN p ELSE old  \* mutant of Replacing

Replacing(old, p) == p

\* _remember_client: the pipe takes the place of the one registered before.
Remember(p, receive) ==
  LET old == IF receive THEN rx ELSE tx IN
  /\ rx' = IF receive THEN Replacing(rx, p) ELSE rx
  /\ tx' = IF receive THEN tx ELSE Replacing(tx, p)
  /\ paired' = ~receive
  /\ known' = (IF old = p THEN known ELSE Detach(old)) \union {p}
  /\ closing' = [closing EXCEPT ![p] = {old} \ {p, NoPipe}]

Reads(p) ==
  /\ reader[p] = "reading" /\ closing[p] = {} /\ p \in open /\ frames[p] # <<>>
  /\ frames' = [frames EXCEPT ![p] = Tail(@)]

Hello(p) ==
  /\ Reads(p) /\ Head(frames[p]) = "hello"
  /\ Remember(p, p \in Rx)
  /\ reader' = [reader EXCEPT ![p] = IF p \in Rx THEN "passive" ELSE "reading"]
  /\ UNCHANGED <<session, breaks, late, held, open, owed>>

\* Every request registers its pipe; the answer goes to the receive pipe of now.
Request(p) ==
  /\ Reads(p) /\ Head(frames[p]) = "request"
  /\ Remember(p, FALSE)
  /\ owed' = owed \union {IF rx = NoPipe THEN p ELSE rx}
  /\ Late(\E q \in Ends(p.pair) \intersect Rx : q \in open /\ frames[q] # <<>>)
  /\ UNCHANGED <<session, breaks, held, open, reader>>

\* The other pipe of the same generation.
Peers(p) == IF p \in {rx, tx} /\ paired THEN {rx, tx} \ {p, NoPipe} ELSE {}

\* _drop_conn by a thread: it closes the peers, and its own pipe if it has one.
Drop(t, p) ==
  LET gone == {p} \union (IF p \in known THEN Peers(p) ELSE {}) IN
  /\ rx' = IF rx \in gone THEN NoPipe ELSE rx
  /\ tx' = IF tx \in gone THEN NoPipe ELSE tx
  /\ paired' = (paired /\ {rx, tx} \intersect gone = {})
  /\ known' = known \ gone
  /\ owed' = owed \ gone
  /\ closing' = [closing EXCEPT ![t] = IF t = p THEN gone ELSE gone \ {p}]

\* The pipe is at its end, or closed here; a passive thread asks whether its pipe is still known.
Ended(p) ==
  /\ closing[p] = {}
  /\ \/ reader[p] = "reading" /\ (p \notin open \/ (frames[p] = <<>> /\ p \notin held))
     \/ reader[p] = "passive" /\ p \notin known
  /\ reader' = [reader EXCEPT ![p] = "ended"]
  /\ frames' = [frames EXCEPT ![p] = <<>>]
  /\ Drop(p, p)
  /\ UNCHANGED <<session, breaks, late, held, open>>

Close(t) ==
  /\ closing[t] # {}
  /\ open' = open \ closing[t]
  /\ closing' = [closing EXCEPT ![t] = {}]
  /\ UNCHANGED <<session, breaks, late, held, frames, reader, rx, tx, paired, known, owed>>

\* The thread of the terminal answers; when it cannot, it drops the pipe.
Answer ==
  /\ closing[Terminal] = {}
  /\ \E p \in owed :
       \/ /\ p \in open /\ p \in held
          /\ owed' = owed \ {p}
          /\ UNCHANGED <<closing, rx, tx, paired, known>>
       \/ ~(p \in open /\ p \in held) /\ Drop(Terminal, p)
  /\ UNCHANGED <<session, breaks, late, held, open, frames, reader>>

ClientsNext ==
  \/ Connect \/ Call \/ ClientNotices \/ ClientBreaks
  \/ \E p \in Pipes : Hello(p) \/ Request(p) \/ Ended(p)
  \/ \E t \in Threads : Close(t)
  \/ Answer

\* The client goes on calling; no thread of the hub stops.
ClientsFairness ==
  /\ WF_clientVars(Connect) /\ WF_clientVars(ClientNotices) /\ WF_clientVars(Answer)
  /\ \A p \in Pipes : WF_clientVars(Hello(p) \/ Request(p)) /\ WF_clientVars(Ended(p))
  /\ \A t \in Threads : WF_clientVars(Close(t))

ClientsSpec == ClientsInit /\ [][ClientsNext]_clientVars /\ ClientsFairness

(***************************************************************************)
(* However late the hub reads what is left in the pipes of earlier         *)
(* sessions, whichever pipe it takes for the client's, and whatever it     *)
(* closes for that: in the end a client that goes on calling has a session *)
(* whose two pipes are open and are the ones the hub knows; and the hub is *)
(* left with their threads, not with one that waits on a pipe which has    *)
(* been replaced, dropped or left.                                         *)
(***************************************************************************)
ClientSettles ==
  <>[](/\ session # "none" /\ Ends(session) \subseteq open
       /\ rx \in Ends(session) /\ tx \in Ends(session)
       /\ \A p \in Pipes : reader[p] # "ended" => p \in Ends(session))
=============================================================================
