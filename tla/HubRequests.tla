---------------------------- MODULE HubRequests ----------------------------
(***************************************************************************)
(* Requests in the market hub (pipe_hub.py, hub.py): taken from a client's *)
(* pipe by the thread of that pipe, entered as pending, forwarded to the   *)
(* terminal, and answered by whoever takes the entry out: the thread that  *)
(* reads the terminal's answer, the one that drops the terminal, or the    *)
(* maintenance thread when the deadline has passed.  The hub's two locks   *)
(* are never held together; an action is what happens under one of them,   *)
(* or one write to a pipe.                                                 *)
(*                                                                         *)
(* A session, of a client or of the terminal, is its pair of pipes, and    *)
(* there is one request channel.                                           *)
(***************************************************************************)
EXTENDS Integers, FiniteSets

CONSTANTS
  Requests,     \* request ids
  Clients,      \* client sessions
  MaxSessions,  \* bound: sessions of the terminal
  MaxGone       \* bound: clients that go away

ASSUME HubAssumption ==
  /\ IsFiniteSet(Requests) /\ IsFiniteSet(Clients)
  /\ "none" \notin Requests \union Clients
  /\ MaxSessions \in Nat /\ MaxGone \in Nat

Sessions == 1..MaxSessions

VARIABLES
  terminal,  \* the session registered for the channel, 0 for none
  link,      \* session -> its pipes: new, up, lost (the terminal closed), closed
  drop,      \* session -> _drop_conn of it: how far it is, and whom it must tell
  work,      \* session -> requests written to its pipe and not answered
  reply,     \* session -> the request whose answer its thread is writing
  client,    \* client -> its pipes: up, gone (the client closed) or closed
  thread,    \* client -> what the thread of its request pipe does
  owner,     \* request -> the client it came from
  pending,   \* requests with an entry in pending
  sentTo,    \* request -> the session noted in its entry
  expired,   \* expired requests the maintenance thread has to tell
  told       \* request -> how many results and errors its client got

vars == <<terminal, link, drop, work, reply, client, thread, owner, pending, sentTo, expired, told>>

Resting == [at |-> "idle", req |-> "none", qmt |-> 0]

Init ==
  /\ terminal = 0
  /\ link = [q \in Sessions |-> "new"]
  /\ drop = [q \in Sessions |-> [at |-> "none", tell |-> {}]]
  /\ work = [q \in Sessions |-> {}]
  /\ reply = [q \in Sessions |-> "none"]
  /\ client = [c \in Clients |-> "up"]
  /\ thread = [c \in Clients |-> Resting]
  /\ owner = [r \in Requests |-> "none"]
  /\ pending = {}
  /\ sentTo = [r \in Requests |-> 0]
  /\ expired = {}
  /\ told = [r \in Requests |-> [result |-> 0, error |-> 0]]

-----------------------------------------------------------------------------
(* Writing to a client.  A failed write drops the client with the entries  *)
(* of its requests, and nobody is told.                                    *)

OwnedBy(c) == {r \in Requests : owner[r] = c}

DropClient(c) ==
  /\ client' = [client EXCEPT ![c] = "closed"]
  /\ pending' = pending \ OwnedBy(c)

Result(r) == [result |-> told[r].result + 1, error |-> told[r].error]
Error(r)  == [result |-> told[r].result, error |-> told[r].error + 1]

Tell(r, answer) ==
  IF client[owner[r]] = "up"
    THEN told' = [told EXCEPT ![r] = answer] /\ UNCHANGED <<client, pending>>
    ELSE DropClient(owner[r]) /\ UNCHANGED told

-----------------------------------------------------------------------------
(* The thread of a client's request pipe.                                  *)

Go(c, at, q) == thread' = [thread EXCEPT ![c] = [at |-> at, req |-> @.req, qmt |-> q]]

\* A frame is read; the receive pipe to answer on is looked up.
Take(c, r) ==
  /\ thread[c].at = "idle" /\ client[c] # "closed" /\ owner[r] = "none"
  /\ owner' = [owner EXCEPT ![r] = c]
  /\ \E at \in {"taken", "unsent"} :   \* unsent: the policy refuses the action
       thread' = [thread EXCEPT ![c] = [at |-> at, req |-> r, qmt |-> 0]]
  /\ UNCHANGED <<terminal, link, drop, work, reply, client, pending, sentTo, expired, told>>

Enter(c) ==
  /\ thread[c].at = "taken"
  /\ pending' = pending \union {thread[c].req}
  /\ Go(c, "entered", 0)
  /\ UNCHANGED <<terminal, link, drop, work, reply, client, owner, sentTo, expired, told>>

\* Whether there is a terminal.
HasTerminal(q)  == q # 0

Lookup(c) ==
  /\ thread[c].at = "entered"
  /\ Go(c, IF HasTerminal(terminal) THEN "looked" ELSE "popping", terminal)
  /\ UNCHANGED <<terminal, link, drop, work, reply, client, owner, pending, sentTo, expired, told>>

Note(c) ==
  /\ thread[c].at = "looked"
  /\ sentTo' = IF thread[c].req \in pending
                 THEN [sentTo EXCEPT ![thread[c].req] = thread[c].qmt] ELSE sentTo
  /\ Go(c, "noted", thread[c].qmt)
  /\ UNCHANGED <<terminal, link, drop, work, reply, client, owner, pending, expired, told>>

\* A pipe that was dropped and is not yet closed still takes the request.
Forward(c) ==
  /\ thread[c].at = "noted"
  /\ link[thread[c].qmt] = "up"
  /\ work' = [work EXCEPT ![thread[c].qmt] = @ \union {thread[c].req}]
  /\ thread' = [thread EXCEPT ![c] = Resting]
  /\ UNCHANGED <<terminal, link, drop, reply, client, owner, pending, sentTo, expired, told>>

\* The write fails: the terminal is dropped, by this thread if it is the first.
ForwardFails(c) ==
  LET q == thread[c].qmt
  IN /\ thread[c].at = "noted" /\ link[q] # "up"
     /\ IF drop[q].at = "none"
          THEN /\ Go(c, "dropping", q)
               /\ drop' = [drop EXCEPT ![q] = [at |-> "detached", tell |-> {}]]
               /\ terminal' = IF terminal = q THEN 0 ELSE terminal
          ELSE Go(c, "popping", q) /\ UNCHANGED <<drop, terminal>>
     /\ UNCHANGED <<link, work, reply, client, owner, pending, sentTo, expired, told>>

Dropped(c) ==
  /\ thread[c].at = "dropping" /\ drop[thread[c].qmt].at = "done"
  /\ Go(c, "popping", thread[c].qmt)
  /\ UNCHANGED <<terminal, link, drop, work, reply, client, owner, pending, sentTo, expired, told>>

\* The entry is removed, if it is still there, and the client is told in any
\* case; the faulty variant has nothing more to do.
ThenNothing == Resting.at
ThenTell    == "unsent"

PopUnsent(c) ==
  /\ thread[c].at = "popping"
  /\ pending' = pending \ {thread[c].req}
  /\ Go(c, ThenTell, 0)
  /\ UNCHANGED <<terminal, link, drop, work, reply, client, owner, sentTo, expired, told>>

TellUnsent(c) ==
  /\ thread[c].at = "unsent"
  /\ Tell(thread[c].req, Error(thread[c].req))
  /\ thread' = [thread EXCEPT ![c] = Resting]
  /\ UNCHANGED <<terminal, link, drop, work, reply, owner, sentTo, expired>>

\* The client closed its pipes and the thread has read everything.
ClientEnds(c) ==
  /\ thread[c].at = "idle" /\ client[c] = "gone"
  /\ DropClient(c)
  /\ UNCHANGED <<terminal, link, drop, work, reply, thread, owner, sentTo, expired, told>>

-----------------------------------------------------------------------------
(* The terminal.                                                           *)

\* A session takes the place of the one before it, whose drop follows.
Register(q) ==
  /\ link[q] = "new" /\ \A p \in Sessions : p < q => link[p] # "new"
  /\ link' = [link EXCEPT ![q] = "up"]
  /\ terminal' = q
  /\ UNCHANGED <<drop, work, reply, client, thread, owner, pending, sentTo, expired, told>>

\* _drop_conn: detached under one lock, its requests taken out under the
\* other, then its pipes are closed and the clients are told.  The heartbeat
\* of a session that is up may be late enough at any time.
Detach(q) ==
  /\ link[q] \in {"up", "lost"} /\ drop[q].at = "none"
  /\ drop' = [drop EXCEPT ![q] = [at |-> "detached", tell |-> {}]]
  /\ terminal' = IF terminal = q THEN 0 ELSE terminal
  /\ UNCHANGED <<link, work, reply, client, thread, owner, pending, sentTo, expired, told>>

\* The faulty variants leave the entries.
TakeNone(taken) == pending
TakeOut(taken)  == pending \ taken

TakeDropped(q) ==
  LET waiting == {r \in pending : sentTo[r] = q}
  IN /\ drop[q].at = "detached"
     /\ drop' = [drop EXCEPT ![q] = [at |-> "closing", tell |-> waiting]]
     /\ pending' = TakeOut(waiting)
     /\ UNCHANGED <<terminal, link, work, reply, client, thread, owner, sentTo, expired, told>>

CloseLink(q) ==
  /\ drop[q].at = "closing"
  /\ link' = [link EXCEPT ![q] = "closed"]
  /\ drop' = [drop EXCEPT ![q] = [at |-> "telling", tell |-> @.tell]]
  /\ UNCHANGED <<terminal, work, reply, client, thread, owner, pending, sentTo, expired, told>>

TellDropped(q) ==
  /\ drop[q].at = "telling"
  /\ \E r \in drop[q].tell :
       /\ Tell(r, Error(r))
       /\ drop' = [drop EXCEPT ![q] = [at |-> "telling", tell |-> @.tell \ {r}]]
  /\ UNCHANGED <<terminal, link, work, reply, thread, owner, sentTo, expired>>

DropDone(q) ==
  /\ drop[q].at = "telling" /\ drop[q].tell = {}
  /\ drop' = [drop EXCEPT ![q] = [at |-> "done", tell |-> {}]]
  /\ UNCHANGED <<terminal, link, work, reply, client, thread, owner, pending, sentTo, expired, told>>

\* An answer is read from the terminal's pipe; without an entry it is ignored.
Answer(q, r) ==
  /\ link[q] \in {"up", "lost"} /\ reply[q] = "none" /\ r \in work[q]
  /\ work' = [work EXCEPT ![q] = @ \ {r}]
  /\ reply' = [reply EXCEPT ![q] = IF r \in pending THEN r ELSE "none"]
  /\ pending' = pending \ {r}
  /\ UNCHANGED <<terminal, link, drop, client, thread, owner, sentTo, expired, told>>

Deliver(q) ==
  /\ reply[q] # "none"
  /\ Tell(reply[q], Result(reply[q]))
  /\ reply' = [reply EXCEPT ![q] = "none"]
  /\ UNCHANGED <<terminal, link, drop, work, thread, owner, sentTo, expired>>

-----------------------------------------------------------------------------
(* Maintenance, and the other ends of the pipes.                           *)

\* The deadline of any request may pass; the faulty variant leaves those of a
\* dropped terminal to its drop.
LateUnlessDropped(r) == sentTo[r] # 0 => drop[sentTo[r]].at = "none"
MayBeLate(r)         == TRUE

Expire ==
  /\ expired = {}
  /\ \E late \in SUBSET {r \in pending : MayBeLate(r)} \ {{}} :
       expired' = late /\ pending' = TakeOut(late)
  /\ UNCHANGED <<terminal, link, drop, work, reply, client, thread, owner, sentTo, told>>

TellExpired(r) ==
  /\ r \in expired
  /\ Tell(r, Error(r))
  /\ expired' = expired \ {r}
  /\ UNCHANGED <<terminal, link, drop, work, reply, thread, owner, sentTo>>

Lose(q) ==
  /\ link[q] = "up"
  /\ link' = [link EXCEPT ![q] = "lost"]
  /\ UNCHANGED <<terminal, drop, work, reply, client, thread, owner, pending, sentTo, expired, told>>

Leave(c) ==
  /\ client[c] = "up"
  /\ Cardinality({d \in Clients : client[d] # "up"}) < MaxGone
  /\ client' = [client EXCEPT ![c] = "gone"]
  /\ UNCHANGED <<terminal, link, drop, work, reply, thread, owner, pending, sentTo, expired, told>>

-----------------------------------------------------------------------------
Handle(c) == Enter(c) \/ Lookup(c) \/ Note(c) \/ Forward(c) \/ ForwardFails(c) \/ Dropped(c)
               \/ PopUnsent(c) \/ TellUnsent(c) \/ ClientEnds(c)
Drop(q)   == TakeDropped(q) \/ CloseLink(q) \/ TellDropped(q) \/ DropDone(q)
Tells     == \E r \in Requests : TellExpired(r)

Next ==
  \/ \E c \in Clients : Handle(c) \/ Leave(c) \/ \E r \in Requests : Take(c, r)
  \/ \E q \in Sessions : Register(q) \/ Detach(q) \/ Drop(q) \/ Deliver(q) \/ Lose(q)
                           \/ \E r \in Requests : Answer(q, r)
  \/ Expire \/ Tells

Spec == Init /\ [][Next]_vars

\* The threads of the hub run, and deadlines pass.  The terminal need not
\* answer, no client need ask or go, and no session need connect or end.
FairSpec ==
  /\ Spec
  /\ \A c \in Clients : WF_vars(Handle(c))
  /\ \A q \in Sessions : WF_vars(Drop(q)) /\ WF_vars(Deliver(q))
  /\ WF_vars(Expire) /\ WF_vars(Tells)

-----------------------------------------------------------------------------
(* Properties.                                                             *)

Steps == {"idle", "taken", "entered", "looked", "noted", "dropping", "popping", "unsent"}

TerminalOK ==
  /\ terminal \in 0..MaxSessions
  /\ link \in [Sessions -> {"new", "up", "lost", "closed"}]
  /\ drop \in [Sessions -> [at : {"none", "detached", "closing", "telling", "done"},
                            tell : SUBSET Requests]]
  /\ work \in [Sessions -> SUBSET Requests]
  /\ reply \in [Sessions -> Requests \union {"none"}]

ClientsOK ==
  /\ client \in [Clients -> {"up", "gone", "closed"}]
  /\ thread \in [Clients -> [at : Steps, req : Requests \union {"none"}, qmt : 0..MaxSessions]]
  /\ owner \in [Requests -> Clients \union {"none"}]
  /\ \A c \in Clients :
       /\ thread[c].at # "idle" => thread[c].req \in OwnedBy(c)
       /\ thread[c].at \in {"looked", "noted", "dropping"} => thread[c].qmt \in Sessions

EntriesOK ==
  /\ pending \subseteq Requests /\ expired \subseteq Requests
  /\ sentTo \in [Requests -> 0..MaxSessions]
  /\ told \in [Requests -> [result : Nat, error : Nat]]

TypeOK == TerminalOK /\ ClientsOK /\ EntriesOK

\* A client that got the result of a request got it once and no error for it,
\* however the answer, the deadline and the drop of the terminal interleave.
ResultIsFinal ==
  \A r \in Requests : told[r].result > 0 => told[r] = [result |-> 1, error |-> 0]

\* A request gets at most two answers, which is what the client must bear.
TwoAnswersAtMost == \A r \in Requests : told[r].result + told[r].error <= 2

Holding(r) ==
  \/ r \in pending \union expired
  \/ \E q \in Sessions : reply[q] = r \/ r \in drop[q].tell
  \/ \E c \in Clients : thread[c].at # "idle" /\ thread[c].req = r

\* A request of a client that is there is answered or some thread has yet to
\* deal with it: no interleaving drops it between two of them.
NoRequestForgotten ==
  \A r \in Requests :
    owner[r] # "none" => \/ Holding(r)
                         \/ told[r].result + told[r].error > 0
                         \/ client[owner[r]] # "up"

\* Every request is answered, unless its client has gone.
EveryRequestAnswered ==
  \A r \in Requests :
    owner[r] # "none" ~> \/ told[r].result + told[r].error > 0
                         \/ owner[r] \in Clients /\ client[owner[r]] # "up"

=============================================================================
