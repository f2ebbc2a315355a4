------------------------- MODULE HubRequestsProofs -------------------------
(***************************************************************************)
(* Proofs about HubRequests for any number of requests, clients and        *)
(* sessions: a result is final, a request gets at most two answers, and    *)
(* none is forgotten.                                                      *)
(***************************************************************************)
EXTENDS HubRequests, TLAPS

\* Who has yet to deal with a request.
Handled(r) == \E c \in Clients : thread[c].at # "idle" /\ thread[c].req = r
Taken(r)   == \E c \in Clients : thread[c].at = "taken" /\ thread[c].req = r
Unsent(r)  == \E c \in Clients : thread[c].at = "unsent" /\ thread[c].req = r
Replied(r) == \E q \in Sessions : reply[q] = r
Failed(r)  == r \in expired \/ \E q \in Sessions : r \in drop[q].tell
AtWork(r)  == \E q \in Sessions : r \in work[q]

Zero == [result |-> 0, error |-> 0]

\* A request that is not yet entered is nowhere.
Fresh(r) == r \notin pending /\ ~ Failed(r) /\ ~ Replied(r) /\ ~ AtWork(r) /\ told[r] = Zero

\* A result may come while there is an entry, or while the thread that took it
\* out writes; an error may come otherwise; never both.
OneSource(r) ==
  /\ owner[r] = "none" => Fresh(r) /\ ~ Handled(r)
  /\ Taken(r) => Fresh(r)
  /\ r \in pending => told[r] = Zero /\ ~ Failed(r) /\ ~ Replied(r) /\ ~ Unsent(r)
  /\ Replied(r) => told[r] = Zero /\ ~ Failed(r) /\ ~ Handled(r)
  /\ AtWork(r) => ~ Handled(r)
  /\ Failed(r) \/ Handled(r) => told[r].result = 0
  /\ told[r].result > 0 => told[r] = [result |-> 1, error |-> 0]

OneWriter == \A p, q \in Sessions : reply[p] = reply[q] /\ reply[p] # "none" => p = q

HubInv == TypeOK /\ OneWriter /\ \A r \in Requests : OneSource(r)

-----------------------------------------------------------------------------
(* Types.                                                                  *)

LEMMA GoType ==
  ASSUME ClientsOK, NEW c \in Clients, NEW at \in Steps, NEW q \in 0..MaxSessions,
         Go(c, at, q), UNCHANGED <<client, owner>>,
         at # "idle" => thread[c].at # "idle",
         at \in {"looked", "noted", "dropping"} => q \in Sessions
  PROVE  ClientsOK'
  <1>1. thread' = [thread EXCEPT ![c] = [at |-> at, req |-> thread[c].req, qmt |-> q]]
    BY DEF Go
  <1>2. thread[c].req \in Requests \union {"none"}
    BY DEF ClientsOK
  <1> QED
    BY <1>1, <1>2 DEF ClientsOK, OwnedBy

LEMMA RestType ==
  ASSUME ClientsOK, NEW c \in Clients, thread' = [thread EXCEPT ![c] = Resting],
         UNCHANGED owner, client' \in [Clients -> {"up", "gone", "closed"}]
  PROVE  ClientsOK'
  <1>1. Resting \in [at : Steps, req : Requests \union {"none"}, qmt : 0..MaxSessions]
    BY HubAssumption DEF Resting, Steps
  <1> QED
    BY <1>1 DEF ClientsOK, OwnedBy, Resting

LEMMA ClientOnly ==
  ASSUME ClientsOK, UNCHANGED <<thread, owner>>, client' \in [Clients -> {"up", "gone", "closed"}]
  PROVE  ClientsOK'
  BY DEF ClientsOK, OwnedBy

\* What telling a client does to clients, entries and answers.
LEMMA TellEffect ==
  ASSUME TypeOK, NEW r \in Requests, NEW a \in [result : Nat, error : Nat], Tell(r, a)
  PROVE  /\ client' \in [Clients -> {"up", "gone", "closed"}]
         /\ pending' \subseteq pending
         /\ told' \in [Requests -> [result : Nat, error : Nat]]
         /\ \A x \in Requests : told'[x] = told[x] \/ (x = r /\ told'[x] = a)
  BY DEF TypeOK, ClientsOK, EntriesOK, Tell, DropClient

LEMMA AnswerTypes ==
  ASSUME EntriesOK, NEW r \in Requests
  PROVE  Error(r) \in [result : Nat, error : Nat] /\ Result(r) \in [result : Nat, error : Nat]
  BY DEF EntriesOK, Error, Result

LEMMA InitType == Init => TypeOK
  <1> SUFFICES ASSUME Init PROVE TypeOK
    OBVIOUS
  <1>1. 0 \in 0..MaxSessions
    BY HubAssumption
  <1>2. TerminalOK
    BY <1>1 DEF Init, TerminalOK
  <1>3. ClientsOK
    BY <1>1 DEF Init, ClientsOK, Resting, Steps
  <1>4. EntriesOK
    BY <1>1 DEF Init, EntriesOK
  <1> QED
    BY <1>2, <1>3, <1>4 DEF TypeOK

LEMMA NextType == TypeOK /\ [Next]_vars => TypeOK'
  <1> SUFFICES ASSUME TypeOK, [Next]_vars PROVE TypeOK'
    OBVIOUS
  <1> USE DEF TypeOK
  <1>z. 0 \in 0..MaxSessions /\ Sessions \subseteq 0..MaxSessions
    BY HubAssumption DEF Sessions
  <1>u. /\ UNCHANGED <<terminal, link, drop, work, reply>> => TerminalOK'
        /\ UNCHANGED <<client, thread, owner>> => ClientsOK'
        /\ UNCHANGED <<pending, sentTo, expired, told>> => EntriesOK'
    BY DEF TerminalOK, ClientsOK, OwnedBy, EntriesOK
  <1>1. ASSUME NEW c \in Clients, NEW r \in Requests, Take(c, r) PROVE TypeOK'
    <2>1. PICK at \in {"taken", "unsent"} :
            thread' = [thread EXCEPT ![c] = [at |-> at, req |-> r, qmt |-> 0]]
      BY <1>1 DEF Take
    <2>2. ClientsOK'
      BY <1>1, <1>z, <2>1, HubAssumption DEF Take, ClientsOK, OwnedBy, Steps
    <2> QED
      BY <1>1, <1>u, <2>2 DEF Take
  <1>2. ASSUME NEW c \in Clients, Enter(c) PROVE TypeOK'
    <2>1. ClientsOK'
      BY <1>2, <1>z, GoType DEF Enter, Steps
    <2>2. EntriesOK'
      BY <1>2 DEF Enter, EntriesOK, ClientsOK, OwnedBy
    <2> QED
      BY <1>2, <1>u, <2>1, <2>2 DEF Enter
  <1>3. ASSUME NEW c \in Clients, Lookup(c) PROVE TypeOK'
    <2>1. terminal \in 0..MaxSessions /\ (terminal # 0 => terminal \in Sessions)
      BY HubAssumption DEF TerminalOK, Sessions
    <2>2. ClientsOK'
      BY <1>3, <2>1, GoType DEF Lookup, HasTerminal, Steps
    <2> QED
      BY <1>3, <1>u, <2>2 DEF Lookup
  <1>4. ASSUME NEW c \in Clients, Note(c) PROVE TypeOK'
    <2>1. thread[c].qmt \in Sessions
      BY <1>4 DEF Note, ClientsOK
    <2>2. ClientsOK'
      BY <1>4, <2>1, <1>z, GoType DEF Note, Steps
    <2>3. EntriesOK'
      BY <1>4, <2>1, <1>z DEF Note, EntriesOK
    <2> QED
      BY <1>4, <1>u, <2>2, <2>3 DEF Note
  <1>5. ASSUME NEW c \in Clients, Forward(c) PROVE TypeOK'
    <2>1. ClientsOK'
      BY <1>5, RestType DEF Forward, ClientsOK
    <2>2. TerminalOK'
      BY <1>5 DEF Forward, TerminalOK, ClientsOK, OwnedBy
    <2> QED
      BY <1>5, <1>u, <2>1, <2>2 DEF Forward
  <1>6. ASSUME NEW c \in Clients, ForwardFails(c) PROVE TypeOK'
    <2>1. thread[c].qmt \in Sessions
      BY <1>6 DEF ForwardFails, ClientsOK
    <2>2. ClientsOK'
      BY <1>6, <2>1, <1>z, GoType DEF ForwardFails, Steps
    <2>3. TerminalOK'
      BY <1>6, <2>1, <1>z DEF ForwardFails, TerminalOK
    <2> QED
      BY <1>6, <1>u, <2>2, <2>3 DEF ForwardFails
  <1>7. ASSUME NEW c \in Clients, Dropped(c) PROVE TypeOK'
    <2>1. ClientsOK'
      BY <1>7, <1>z, GoType DEF Dropped, ClientsOK, Steps
    <2> QED
      BY <1>7, <1>u, <2>1 DEF Dropped
  <1>8. ASSUME NEW c \in Clients, PopUnsent(c) PROVE TypeOK'
    <2>1. ClientsOK'
      BY <1>8, <1>z, GoType DEF PopUnsent, ThenTell, Steps
    <2>2. EntriesOK'
      BY <1>8 DEF PopUnsent, EntriesOK
    <2> QED
      BY <1>8, <1>u, <2>1, <2>2 DEF PopUnsent
  <1>9. ASSUME NEW c \in Clients, TellUnsent(c) PROVE TypeOK'
    <2>1. thread[c].req \in Requests
      BY <1>9 DEF TellUnsent, ClientsOK, OwnedBy
    <2>2. Error(thread[c].req) \in [result : Nat, error : Nat]
      BY <2>1, AnswerTypes
    <2>3. /\ client' \in [Clients -> {"up", "gone", "closed"}]
          /\ pending' \subseteq pending
          /\ told' \in [Requests -> [result : Nat, error : Nat]]
      BY <1>9, <2>1, <2>2, TellEffect DEF TellUnsent
    <2>4. ClientsOK'
      BY <1>9, <2>3, RestType DEF TellUnsent
    <2>5. EntriesOK'
      BY <1>9, <2>3 DEF TellUnsent, EntriesOK
    <2> QED
      BY <1>9, <1>u, <2>4, <2>5 DEF TellUnsent
  <1>10. ASSUME NEW c \in Clients, ClientEnds(c) \/ Leave(c) PROVE TypeOK'
    <2>1. ClientsOK'
      BY <1>10, ClientOnly DEF ClientEnds, Leave, DropClient, ClientsOK
    <2>2. EntriesOK'
      BY <1>10 DEF ClientEnds, Leave, DropClient, EntriesOK
    <2> QED
      BY <1>10, <1>u, <2>1, <2>2 DEF ClientEnds, Leave
  <1>11. ASSUME NEW q \in Sessions, Register(q) \/ Detach(q) \/ CloseLink(q) \/ DropDone(q) \/ Lose(q)
         PROVE TypeOK'
    <2>1. TerminalOK'
      BY <1>11, <1>z DEF Register, Detach, CloseLink, DropDone, Lose, TerminalOK
    <2> QED
      BY <1>11, <1>u, <2>1 DEF Register, Detach, CloseLink, DropDone, Lose
  <1>12. ASSUME NEW q \in Sessions, TakeDropped(q) PROVE TypeOK'
    <2>1. TerminalOK'
      BY <1>12 DEF TakeDropped, TerminalOK, EntriesOK
    <2>2. EntriesOK'
      BY <1>12 DEF TakeDropped, TakeOut, EntriesOK
    <2> QED
      BY <1>12, <1>u, <2>1, <2>2 DEF TakeDropped
  <1>13. ASSUME NEW q \in Sessions, TellDropped(q) PROVE TypeOK'
    <2>1. PICK r \in drop[q].tell :
            /\ Tell(r, Error(r))
            /\ drop' = [drop EXCEPT ![q] = [at |-> "telling", tell |-> drop[q].tell \ {r}]]
      BY <1>13 DEF TellDropped
    <2>2. r \in Requests
      BY <2>1 DEF TerminalOK
    <2>3. /\ client' \in [Clients -> {"up", "gone", "closed"}]
          /\ pending' \subseteq pending
          /\ told' \in [Requests -> [result : Nat, error : Nat]]
      BY <2>1, <2>2, AnswerTypes, TellEffect
    <2>4. ClientsOK'
      BY <1>13, <2>3, ClientOnly DEF TellDropped
    <2>5. EntriesOK'
      BY <1>13, <2>3 DEF TellDropped, EntriesOK
    <2>6. TerminalOK'
      BY <1>13, <2>1 DEF TellDropped, TerminalOK
    <2> QED
      BY <2>4, <2>5, <2>6
  <1>14. ASSUME NEW q \in Sessions, NEW r \in Requests, Answer(q, r) PROVE TypeOK'
    <2>1. TerminalOK'
      BY <1>14 DEF Answer, TerminalOK
    <2>2. EntriesOK'
      BY <1>14 DEF Answer, EntriesOK
    <2> QED
      BY <1>14, <1>u, <2>1, <2>2 DEF Answer
  <1>15. ASSUME NEW q \in Sessions, Deliver(q) PROVE TypeOK'
    <2>1. reply[q] \in Requests
      BY <1>15 DEF Deliver, TerminalOK
    <2>2. /\ client' \in [Clients -> {"up", "gone", "closed"}]
          /\ pending' \subseteq pending
          /\ told' \in [Requests -> [result : Nat, error : Nat]]
      BY <1>15, <2>1, AnswerTypes, TellEffect DEF Deliver
    <2>3. ClientsOK'
      BY <1>15, <2>2, ClientOnly DEF Deliver
    <2>4. EntriesOK'
      BY <1>15, <2>2 DEF Deliver, EntriesOK
    <2>5. TerminalOK'
      BY <1>15 DEF Deliver, TerminalOK
    <2> QED
      BY <2>3, <2>4, <2>5
  <1>16. CASE Expire
    <2>1. EntriesOK'
      BY <1>16 DEF Expire, TakeOut, EntriesOK
    <2> QED
      BY <1>16, <1>u, <2>1 DEF Expire
  <1>17. ASSUME NEW r \in Requests, TellExpired(r) PROVE TypeOK'
    <2>1. /\ client' \in [Clients -> {"up", "gone", "closed"}]
          /\ pending' \subseteq pending
          /\ told' \in [Requests -> [result : Nat, error : Nat]]
      BY <1>17, AnswerTypes, TellEffect DEF TellExpired
    <2>2. ClientsOK'
      BY <1>17, <2>1, ClientOnly DEF TellExpired
    <2>3. EntriesOK'
      BY <1>17, <2>1 DEF TellExpired, EntriesOK
    <2> QED
      BY <1>17, <1>u, <2>2, <2>3 DEF TellExpired
  <1>18. CASE UNCHANGED vars
    BY <1>18, <1>u DEF vars
  <1> QED
    BY <1>1, <1>2, <1>3, <1>4, <1>5, <1>6, <1>7, <1>8, <1>9, <1>10, <1>11, <1>12, <1>13,
       <1>14, <1>15, <1>16, <1>17, <1>18
    DEF Next, Handle, Drop, Tells

\* The types of the hub's state, for any number of requests, clients and
\* sessions; a request is only ever forwarded to a session there is.
THEOREM HubTypeCorrect == Spec => []TypeOK
  BY InitType, NextType, PTL DEF Spec

-----------------------------------------------------------------------------
(* The invariant.                                                          *)

\* A step that brings a request no further, and only drops it here and there.
Quiet(x) ==
  /\ owner'[x] = owner[x] /\ told'[x] = told[x]
  /\ x \in pending' => x \in pending
  /\ Handled(x)' => Handled(x)
  /\ Taken(x)' => Taken(x)
  /\ Unsent(x)' => Unsent(x)
  /\ Replied(x)' => Replied(x)
  /\ Failed(x)' => Failed(x)
  /\ AtWork(x)' => AtWork(x)

LEMMA QuietKeeps ==
  ASSUME NEW x \in Requests, OneSource(x), Quiet(x)
  PROVE  OneSource(x)'
  BY DEF OneSource, Quiet, Fresh

\* One thread at a time handles a request.
LEMMA OneHandler ==
  ASSUME ClientsOK, NEW c \in Clients, thread[c].at # "idle",
         NEW d \in Clients, thread[d].at # "idle", thread[d].req = thread[c].req
  PROVE  d = c
  BY DEF ClientsOK, OwnedBy

\* A step of one thread, that goes on with its request or ends with it.
LEMMA ThreadStep ==
  ASSUME ClientsOK, NEW c \in Clients, thread[c].at # "idle", NEW t,
         thread' = [thread EXCEPT ![c] = t],
         t.at = "idle" \/ t.req = thread[c].req, t.at # "taken",
         NEW x \in Requests
  PROVE  /\ Handled(x)' => Handled(x)
         /\ Taken(x)' => Taken(x)
         /\ Unsent(x)' => Unsent(x) \/ (x = thread[c].req /\ t.at = "unsent")
         /\ x = thread[c].req => ~ Taken(x)'
         /\ x = thread[c].req /\ Unsent(x)' => t.at = "unsent"
         /\ x = thread[c].req /\ t.at = "idle" => ~ Handled(x)'
  <1>1. \A d \in Clients : thread'[d] = IF d = c THEN t ELSE thread[d]
    BY DEF ClientsOK
  <1> QED
    BY <1>1, OneHandler DEF Handled, Taken, Unsent

LEMMA ThreadsRest ==
  ASSUME UNCHANGED thread, NEW x \in Requests
  PROVE  Handled(x)' = Handled(x) /\ Taken(x)' = Taken(x) /\ Unsent(x)' = Unsent(x)
  BY DEF Handled, Taken, Unsent

LEMMA TerminalRests ==
  ASSUME NEW x \in Requests
  PROVE  /\ UNCHANGED reply => Replied(x)' = Replied(x)
         /\ UNCHANGED work => AtWork(x)' = AtWork(x)
         /\ UNCHANGED <<drop, expired>> => Failed(x)' = Failed(x)
  BY DEF Replied, AtWork, Failed

\* Steps of a thread that read or note what is there.
LEMMA LookingStep ==
  ASSUME HubInv, NEW c \in Clients,
         Lookup(c) \/ Note(c) \/ Dropped(c) \/ ForwardFails(c) \/ PopUnsent(c),
         NEW x \in Requests
  PROVE  OneSource(x)'
  <1> USE DEF HubInv, TypeOK
  <1>0. PICK at \in Steps \ {"idle", "taken"} :
          (\E q : Go(c, at, q)) /\ (at = "unsent" => PopUnsent(c))
    BY DEF Lookup, Note, Dropped, ForwardFails, PopUnsent, HasTerminal, ThenTell, Steps
  <1>1. PICK q : Go(c, at, q) /\ (at = "unsent" => PopUnsent(c))
    BY <1>0
  <1>2. thread[c].at # "idle"
    BY DEF Lookup, Note, Dropped, ForwardFails, PopUnsent
  <1> DEFINE t == [at |-> at, req |-> thread[c].req, qmt |-> q]
  <1>3. thread' = [thread EXCEPT ![c] = t] /\ t.at = at /\ t.req = thread[c].req
    BY <1>1 DEF Go
  <1> HIDE DEF t
  <1>4. /\ Handled(x)' => Handled(x)
        /\ Taken(x)' => Taken(x)
        /\ Unsent(x)' => Unsent(x) \/ (x = thread[c].req /\ at = "unsent")
    BY <1>2, <1>3, ThreadStep
  <1>5. x = thread[c].req => Handled(x) /\ ~ Taken(x)'
    BY <1>2, <1>3, ThreadStep DEF Handled
  <1>6. Failed(x)' => Failed(x)
    BY DEF Lookup, Note, Dropped, ForwardFails, PopUnsent, Failed, TerminalOK
  <1>7. /\ UNCHANGED <<owner, told, reply, work>>
        /\ x \in pending' => x \in pending /\ (PopUnsent(c) => x # thread[c].req)
    BY DEF Lookup, Note, Dropped, ForwardFails, PopUnsent
  <1>8. Replied(x)' = Replied(x) /\ AtWork(x)' = AtWork(x)
    BY <1>7, TerminalRests
  <1>9. OneSource(x)
    OBVIOUS
  <1>10. CASE ~ (x = thread[c].req /\ at = "unsent")
    BY <1>4, <1>6, <1>7, <1>8, <1>9, <1>10, QuietKeeps DEF Quiet
  <1>11. CASE x = thread[c].req /\ at = "unsent"
    <2>1. x \notin pending'
      BY <1>1, <1>7, <1>11
    <2> QED
      BY <1>4, <1>5, <1>6, <1>7, <1>8, <1>9, <1>11, <2>1 DEF OneSource, Fresh
  <1> QED
    BY <1>10, <1>11

LEMMA TakeStep ==
  ASSUME HubInv, NEW c \in Clients, NEW r \in Requests, Take(c, r), NEW x \in Requests
  PROVE  OneSource(x)'
  <1> USE DEF HubInv, TypeOK
  <1>1. PICK at \in {"taken", "unsent"} :
          thread' = [thread EXCEPT ![c] = [at |-> at, req |-> r, qmt |-> 0]]
    BY DEF Take
  <1>2. /\ thread[c].at = "idle" /\ owner[r] = "none"
        /\ owner' = [owner EXCEPT ![r] = c]
        /\ UNCHANGED <<drop, work, reply, pending, expired, told>>
    BY DEF Take
  <1>3. \A d \in Clients : d # c => thread'[d] = thread[d]
    BY <1>1 DEF ClientsOK
  <1>4. thread'[c].req = r
    BY <1>1 DEF ClientsOK
  <1>5. Replied(x)' = Replied(x) /\ AtWork(x)' = AtWork(x) /\ Failed(x)' = Failed(x)
    BY <1>2, TerminalRests
  <1>6. OneSource(x)
    OBVIOUS
  <1>7. CASE x # r
    <2>1. /\ Handled(x)' => Handled(x)
          /\ Taken(x)' => Taken(x)
          /\ Unsent(x)' => Unsent(x)
      BY <1>3, <1>4, <1>7 DEF Handled, Taken, Unsent
    <2>2. owner'[x] = owner[x]
      BY <1>2, <1>7 DEF ClientsOK
    <2> QED
      BY <1>2, <1>5, <1>6, <2>1, <2>2, QuietKeeps DEF Quiet
  <1>8. CASE x = r
    <2>1. Fresh(x)
      BY <1>2, <1>6, <1>8 DEF OneSource
    <2>2. Fresh(x)'
      BY <1>2, <1>5, <2>1 DEF Fresh
    <2>3. owner'[x] = c
      BY <1>2, <1>8 DEF ClientsOK
    <2> QED
      BY <2>2, <2>3, HubAssumption DEF OneSource, Fresh, Zero
  <1> QED
    BY <1>7, <1>8

LEMMA EnterStep ==
  ASSUME HubInv, NEW c \in Clients, Enter(c), NEW x \in Requests
  PROVE  OneSource(x)'
  <1> USE DEF HubInv, TypeOK
  <1> DEFINE t == [at |-> "entered", req |-> thread[c].req, qmt |-> 0]
  <1>1. /\ thread' = [thread EXCEPT ![c] = t] /\ t.at = "entered" /\ t.req = thread[c].req
        /\ thread[c].at = "taken"
        /\ pending' = pending \union {thread[c].req}
        /\ UNCHANGED <<drop, work, reply, owner, expired, told>>
    BY DEF Enter, Go
  <1> HIDE DEF t
  <1>2. /\ Handled(x)' => Handled(x)
        /\ Taken(x)' => Taken(x)
        /\ Unsent(x)' => Unsent(x)
        /\ x = thread[c].req => ~ Taken(x)' /\ ~ Unsent(x)'
    BY <1>1, ThreadStep
  <1>3. Replied(x)' = Replied(x) /\ AtWork(x)' = AtWork(x) /\ Failed(x)' = Failed(x)
    BY <1>1, TerminalRests
  <1>4. OneSource(x)
    OBVIOUS
  <1>5. CASE x # thread[c].req
    BY <1>1, <1>2, <1>3, <1>4, <1>5, QuietKeeps DEF Quiet
  <1>6. CASE x = thread[c].req
    <2>1. Taken(x) /\ Handled(x)
      BY <1>1, <1>6 DEF Taken, Handled
    <2>2. Fresh(x) /\ owner[x] # "none"
      BY <1>4, <2>1 DEF OneSource
    <2> QED
      BY <1>1, <1>2, <1>3, <1>4, <1>6, <2>2 DEF OneSource, Fresh
  <1> QED
    BY <1>5, <1>6

LEMMA ForwardStep ==
  ASSUME HubInv, NEW c \in Clients, Forward(c), NEW x \in Requests
  PROVE  OneSource(x)'
  <1> USE DEF HubInv, TypeOK
  <1>1. /\ thread' = [thread EXCEPT ![c] = Resting] /\ Resting.at = "idle"
        /\ thread[c].at = "noted" /\ thread[c].qmt \in Sessions
        /\ work' = [work EXCEPT ![thread[c].qmt] = @ \union {thread[c].req}]
        /\ UNCHANGED <<drop, reply, owner, pending, expired, told>>
    BY DEF Forward, Resting, ClientsOK
  <1>2. /\ Handled(x)' => Handled(x)
        /\ Taken(x)' => Taken(x)
        /\ Unsent(x)' => Unsent(x)
        /\ x = thread[c].req => ~ Handled(x)' /\ ~ Taken(x)' /\ ~ Unsent(x)'
    BY <1>1, ThreadStep
  <1>3. Replied(x)' = Replied(x) /\ Failed(x)' = Failed(x)
    BY <1>1, TerminalRests
  <1>4. OneSource(x)
    OBVIOUS
  <1>5. CASE x # thread[c].req
    <2>1. AtWork(x)' => AtWork(x)
      BY <1>1, <1>5 DEF AtWork, TerminalOK
    <2> QED
      BY <1>1, <1>2, <1>3, <1>4, <1>5, <2>1, QuietKeeps DEF Quiet
  <1>6. CASE x = thread[c].req
    <2>1. Handled(x)
      BY <1>1, <1>6 DEF Handled
    <2> QED
      BY <1>1, <1>2, <1>3, <1>4, <1>6, <2>1 DEF OneSource, Fresh
  <1> QED
    BY <1>5, <1>6


\* A client is told of an error: no result came before, none can come after.
LEMMA ErrorTold ==
  ASSUME HubInv, NEW r \in Requests, Tell(r, Error(r)),
         UNCHANGED <<owner, work, reply>>,
         Failed(r) \/ Unsent(r),
         NEW x \in Requests,
         Handled(x)' => Handled(x), Taken(x)' => Taken(x), Unsent(x)' => Unsent(x),
         Failed(x)' => Failed(x),
         x = r => ~ Taken(x)'
  PROVE  OneSource(x)'
  <1> USE DEF HubInv
  <1>1. Error(r) \in [result : Nat, error : Nat] /\ Error(r).result = told[r].result
    BY AnswerTypes DEF TypeOK, Error
  <1>2. pending' \subseteq pending /\ (told'[x] = told[x] \/ (x = r /\ told'[x] = Error(r)))
    BY <1>1, TellEffect
  <1>3. Replied(x)' = Replied(x) /\ AtWork(x)' = AtWork(x)
    BY TerminalRests
  <1>4. OneSource(x)
    OBVIOUS
  <1>5. CASE x # r
    BY <1>2, <1>3, <1>4, <1>5, QuietKeeps DEF Quiet
  <1>6. CASE x = r
    <2>1. Unsent(x) => Handled(x)
      BY DEF Unsent, Handled
    <2>2. /\ owner[x] # "none" /\ x \notin pending /\ ~ Replied(x)
          /\ told[x].result = 0
      BY <1>4, <1>6, <2>1 DEF OneSource, Fresh
    <2>3. told'[x].result = 0
      BY <1>1, <1>2, <1>6, <2>2
    <2> QED
      BY <1>2, <1>3, <1>4, <1>6, <2>2, <2>3 DEF OneSource
  <1> QED
    BY <1>5, <1>6

LEMMA UnsentStep ==
  ASSUME HubInv, NEW c \in Clients, TellUnsent(c), NEW x \in Requests
  PROVE  OneSource(x)'
  <1> USE DEF HubInv, TypeOK
  <1>1. /\ thread' = [thread EXCEPT ![c] = Resting] /\ Resting.at = "idle"
        /\ thread[c].at = "unsent"
        /\ Tell(thread[c].req, Error(thread[c].req))
        /\ UNCHANGED <<drop, work, reply, owner, expired>>
    BY DEF TellUnsent, Resting
  <1>2. thread[c].req \in Requests /\ Unsent(thread[c].req)
    BY <1>1 DEF ClientsOK, OwnedBy, Unsent
  <1>3. /\ Handled(x)' => Handled(x)
        /\ Taken(x)' => Taken(x)
        /\ Unsent(x)' => Unsent(x)
        /\ x = thread[c].req => ~ Taken(x)'
    BY <1>1, ThreadStep
  <1>4. Failed(x)' = Failed(x)
    BY <1>1, TerminalRests
  <1> QED
    BY <1>1, <1>2, <1>3, <1>4, ErrorTold

LEMMA FailedStep ==
  ASSUME HubInv, NEW r \in Requests, Failed(r), Tell(r, Error(r)),
         UNCHANGED <<owner, work, reply, thread>>,
         NEW x \in Requests, Failed(x)' => Failed(x)
  PROVE  OneSource(x)'
  <1>1. Handled(x)' = Handled(x) /\ Taken(x)' = Taken(x) /\ Unsent(x)' = Unsent(x)
    BY ThreadsRest
  <1>2. x = r => ~ Taken(x)
    BY DEF HubInv, OneSource, Fresh
  <1> QED
    BY <1>1, <1>2, ErrorTold

\* Entries are taken out to be told of an error.
LEMMA TakenOutStep ==
  ASSUME HubInv, NEW out \in SUBSET pending, pending' = pending \ out,
         UNCHANGED <<owner, work, reply, thread, told>>,
         NEW x \in Requests, Failed(x)' => Failed(x) \/ x \in out
  PROVE  OneSource(x)'
  <1>1. Handled(x)' = Handled(x) /\ Taken(x)' = Taken(x) /\ Unsent(x)' = Unsent(x)
    BY ThreadsRest
  <1>2. Replied(x)' = Replied(x) /\ AtWork(x)' = AtWork(x)
    BY TerminalRests
  <1>3. OneSource(x)
    BY DEF HubInv
  <1>4. CASE x \notin out
    BY <1>1, <1>2, <1>3, <1>4, QuietKeeps DEF Quiet
  <1>5. CASE x \in out
    <2>1. /\ owner[x] # "none" /\ ~ Taken(x) /\ ~ Replied(x)
          /\ told[x] = Zero
      BY <1>3, <1>5 DEF OneSource, Fresh
    <2>2. told'[x].result = 0
      BY <2>1 DEF Zero
    <2> QED
      BY <1>1, <1>2, <1>3, <1>5, <2>1, <2>2 DEF OneSource
  <1> QED
    BY <1>4, <1>5

\* Clients that go, sessions that come and go.
LEMMA ComingAndGoing ==
  ASSUME HubInv, NEW x \in Requests, UNCHANGED <<owner, work, reply, thread, told, expired>>,
         pending' \subseteq pending,
         \/ UNCHANGED drop
         \/ \E q \in Sessions : \E at \in {"detached", "telling", "done"} :
              \E tell \in SUBSET drop[q].tell :
                drop' = [drop EXCEPT ![q] = [at |-> at, tell |-> tell]]
  PROVE  OneSource(x)'
  <1>1. Handled(x)' = Handled(x) /\ Taken(x)' = Taken(x) /\ Unsent(x)' = Unsent(x)
    BY ThreadsRest
  <1>2. Replied(x)' = Replied(x) /\ AtWork(x)' = AtWork(x)
    BY TerminalRests
  <1>3. Failed(x)' => Failed(x)
    <2>1. drop \in [Sessions -> [at : {"none", "detached", "closing", "telling", "done"},
                                tell : SUBSET Requests]]
      BY DEF HubInv, TypeOK, TerminalOK
    <2>2. \A p \in Sessions : drop'[p].tell \subseteq drop[p].tell
      <3>1. CASE UNCHANGED drop
        BY <3>1
      <3>2. ASSUME NEW q \in Sessions, NEW at \in {"detached", "telling", "done"},
                   NEW tell \in SUBSET drop[q].tell,
                   drop' = [drop EXCEPT ![q] = [at |-> at, tell |-> tell]]
            PROVE  \A p \in Sessions : drop'[p].tell \subseteq drop[p].tell
        BY <2>1, <3>2
      <3> QED
        BY <3>1, <3>2
    <2> QED
      BY <2>2 DEF Failed
  <1> QED
    BY <1>1, <1>2, <1>3, QuietKeeps DEF Quiet, HubInv

LEMMA AnswerStep ==
  ASSUME HubInv, NEW q \in Sessions, NEW r \in Requests, Answer(q, r), NEW x \in Requests
  PROVE  OneWriter' /\ OneSource(x)'
  <1> USE DEF HubInv, TypeOK
  <1>1. /\ reply[q] = "none" /\ r \in work[q]
        /\ work' = [work EXCEPT ![q] = @ \ {r}]
        /\ reply' = [reply EXCEPT ![q] = IF r \in pending THEN r ELSE "none"]
        /\ pending' = pending \ {r}
        /\ UNCHANGED <<drop, thread, owner, expired, told>>
    BY DEF Answer
  <1>2. Handled(x)' = Handled(x) /\ Taken(x)' = Taken(x) /\ Unsent(x)' = Unsent(x)
    BY <1>1, ThreadsRest
  <1>3. Failed(x)' = Failed(x)
    BY <1>1, TerminalRests
  <1>4. AtWork(x)' => AtWork(x)
    BY <1>1 DEF AtWork, TerminalOK
  <1>5. AtWork(r)
    BY <1>1 DEF AtWork
  <1>6. OneSource(x) /\ OneSource(r)
    OBVIOUS
  <1>7. \A p \in Sessions : reply'[p] = reply[p] \/ (p = q /\ r \in pending /\ reply'[p] = r)
                                              \/ (p = q /\ reply'[p] = "none")
    BY <1>1 DEF TerminalOK
  <1>8. r \in pending => ~ Replied(r)
    BY <1>6 DEF OneSource
  <1>9. OneWriter'
    BY <1>1, <1>7, <1>8 DEF OneWriter, Replied
  <1>10. CASE x = r /\ r \in pending
    <2>1. /\ owner[x] # "none" /\ told[x] = Zero /\ ~ Failed(x)
          /\ ~ Handled(x)
      BY <1>5, <1>6, <1>10 DEF OneSource, Fresh
    <2>2. ~ Taken(x) /\ x \notin pending'
      BY <1>1, <1>10, <2>1 DEF Taken, Handled
    <2>3. told[x].result = 0
      BY <2>1 DEF Zero
    <2> QED
      BY <1>1, <1>2, <1>3, <1>4, <1>9, <2>1, <2>2, <2>3 DEF OneSource
  <1>11. CASE ~ (x = r /\ r \in pending)
    <2>1. Replied(x)' => Replied(x)
      BY <1>7, <1>11, HubAssumption DEF Replied
    <2> QED
      BY <1>1, <1>2, <1>3, <1>4, <1>6, <1>9, <2>1, QuietKeeps DEF Quiet
  <1> QED
    BY <1>10, <1>11

LEMMA DeliverStep ==
  ASSUME HubInv, NEW q \in Sessions, Deliver(q), NEW x \in Requests
  PROVE  OneWriter' /\ OneSource(x)'
  <1> USE DEF HubInv, TypeOK
  <1>1. /\ reply[q] # "none"
        /\ Tell(reply[q], Result(reply[q]))
        /\ reply' = [reply EXCEPT ![q] = "none"]
        /\ UNCHANGED <<drop, work, thread, owner, expired>>
    BY DEF Deliver
  <1>2. reply[q] \in Requests /\ Replied(reply[q])
    BY <1>1 DEF TerminalOK, Replied
  <1>3. Handled(x)' = Handled(x) /\ Taken(x)' = Taken(x) /\ Unsent(x)' = Unsent(x)
    BY <1>1, ThreadsRest
  <1>4. Failed(x)' = Failed(x) /\ AtWork(x)' = AtWork(x)
    BY <1>1, TerminalRests
  <1>5. \A p \in Sessions : reply'[p] = IF p = q THEN "none" ELSE reply[p]
    BY <1>1 DEF TerminalOK
  <1>6. OneWriter' /\ (Replied(x)' => Replied(x) /\ x # reply[q])
    BY <1>1, <1>5, HubAssumption DEF OneWriter, Replied
  <1>7. pending' \subseteq pending /\ (told'[x] = told[x] \/ (x = reply[q] /\ told'[x] = Result(reply[q])))
    BY <1>1, <1>2, AnswerTypes, TellEffect
  <1>8. OneSource(x)
    OBVIOUS
  <1>9. CASE x # reply[q]
    BY <1>1, <1>3, <1>4, <1>6, <1>7, <1>8, <1>9, QuietKeeps DEF Quiet
  <1>10. CASE x = reply[q]
    <2>1. /\ owner[x] # "none" /\ told[x] = Zero /\ ~ Failed(x) /\ ~ Handled(x) /\ x \notin pending
      BY <1>2, <1>8, <1>10 DEF OneSource, Fresh
    <2>2. ~ Taken(x)
      BY <2>1 DEF Taken, Handled
    <2>3. Result(x) = [result |-> 1, error |-> 0]
      BY <2>1 DEF Result, Zero
    <2>4. told'[x].result > 0 => told'[x] = [result |-> 1, error |-> 0]
      BY <1>7, <1>10, <2>1, <2>3 DEF Zero
    <2> QED
      BY <1>1, <1>3, <1>4, <1>6, <1>7, <1>10, <2>1, <2>2, <2>4 DEF OneSource
  <1> QED
    BY <1>9, <1>10


LEMMA InitInv == Init => HubInv
  <1> SUFFICES ASSUME Init PROVE HubInv
    OBVIOUS
  <1>1. TypeOK
    BY InitType
  <1>2. OneWriter
    BY DEF Init, OneWriter
  <1>3. ASSUME NEW r \in Requests PROVE OneSource(r)
    <2>1. ~ Handled(r) /\ ~ Taken(r) /\ ~ Unsent(r)
      <3>1. \A c \in Clients : thread[c].at = "idle"
        BY DEF Init, Resting
      <3> QED
        BY <3>1 DEF Handled, Taken, Unsent
    <2>2. ~ Replied(r) /\ ~ AtWork(r) /\ ~ Failed(r)
      BY HubAssumption DEF Init, Replied, AtWork, Failed
    <2>3. told[r] = Zero /\ r \notin pending
      BY DEF Init, Zero
    <2> QED
      BY <2>1, <2>2, <2>3 DEF OneSource, Fresh, Zero
  <1> QED
    BY <1>1, <1>2, <1>3 DEF HubInv

LEMMA NextInv == HubInv /\ [Next]_vars => HubInv'
  <1> SUFFICES ASSUME HubInv, [Next]_vars PROVE HubInv'
    OBVIOUS
  <1>t. TypeOK'
    BY NextType DEF HubInv
  <1> SUFFICES ASSUME NEW x \in Requests PROVE OneWriter' /\ OneSource(x)'
    <2>1. Requests = {} => OneWriter'
      BY <1>t DEF OneWriter, TypeOK, TerminalOK
    <2> QED
      BY <1>t, <2>1 DEF HubInv
  <1>w. UNCHANGED reply => OneWriter'
    BY DEF HubInv, OneWriter
  <1>1. ASSUME NEW c \in Clients,
               Lookup(c) \/ Note(c) \/ Dropped(c) \/ ForwardFails(c) \/ PopUnsent(c)
        PROVE OneWriter' /\ OneSource(x)'
    BY <1>1, <1>w, LookingStep DEF Lookup, Note, Dropped, ForwardFails, PopUnsent
  <1>2. ASSUME NEW c \in Clients, NEW r \in Requests, Take(c, r) PROVE OneWriter' /\ OneSource(x)'
    BY <1>2, <1>w, TakeStep DEF Take
  <1>3. ASSUME NEW c \in Clients, Enter(c) PROVE OneWriter' /\ OneSource(x)'
    BY <1>3, <1>w, EnterStep DEF Enter
  <1>4. ASSUME NEW c \in Clients, Forward(c) PROVE OneWriter' /\ OneSource(x)'
    BY <1>4, <1>w, ForwardStep DEF Forward
  <1>5. ASSUME NEW c \in Clients, TellUnsent(c) PROVE OneWriter' /\ OneSource(x)'
    BY <1>5, <1>w, UnsentStep DEF TellUnsent
  <1>6. ASSUME NEW c \in Clients, ClientEnds(c) \/ Leave(c) PROVE OneWriter' /\ OneSource(x)'
    <2>1. UNCHANGED <<drop, owner, work, reply, thread, told, expired>> /\ pending' \subseteq pending
      BY <1>6 DEF ClientEnds, Leave, DropClient
    <2> QED
      BY <1>w, <2>1, ComingAndGoing
  <1>7. ASSUME NEW q \in Sessions, Register(q) \/ Lose(q) PROVE OneWriter' /\ OneSource(x)'
    BY <1>7, <1>w, ComingAndGoing DEF Register, Lose
  <1>8. ASSUME NEW q \in Sessions, Detach(q) \/ CloseLink(q) \/ DropDone(q) PROVE OneWriter' /\ OneSource(x)'
    <2>1. \E at \in {"detached", "telling", "done"} : \E tell \in SUBSET drop[q].tell :
            drop' = [drop EXCEPT ![q] = [at |-> at, tell |-> tell]]
      BY <1>8 DEF Detach, CloseLink, DropDone
    <2>2. UNCHANGED <<owner, work, reply, thread, told, expired, pending>>
      BY <1>8 DEF Detach, CloseLink, DropDone
    <2> QED
      BY <1>w, <2>1, <2>2, ComingAndGoing
  <1>9. ASSUME NEW q \in Sessions, TakeDropped(q) PROVE OneWriter' /\ OneSource(x)'
    <2> DEFINE out == {r \in pending : sentTo[r] = q}
    <2>1. /\ drop' = [drop EXCEPT ![q] = [at |-> "closing", tell |-> out]]
          /\ pending' = pending \ out
          /\ UNCHANGED <<owner, work, reply, thread, told, expired>>
      BY <1>9 DEF TakeDropped, TakeOut
    <2>2. out \in SUBSET pending
      OBVIOUS
    <2> HIDE DEF out
    <2>3. Failed(x)' => Failed(x) \/ x \in out
      BY <2>1 DEF Failed, HubInv, TypeOK, TerminalOK
    <2> QED
      BY <1>w, <2>1, <2>2, <2>3, TakenOutStep
  <1>10. ASSUME NEW q \in Sessions, TellDropped(q) PROVE OneWriter' /\ OneSource(x)'
    <2>1. PICK r \in drop[q].tell :
            /\ Tell(r, Error(r))
            /\ drop' = [drop EXCEPT ![q] = [at |-> "telling", tell |-> drop[q].tell \ {r}]]
      BY <1>10 DEF TellDropped
    <2>2. r \in Requests /\ Failed(r)
      BY <2>1 DEF Failed, HubInv, TypeOK, TerminalOK
    <2>3. UNCHANGED <<owner, work, reply, thread, expired>>
      BY <1>10 DEF TellDropped
    <2>4. Failed(x)' => Failed(x)
      BY <2>1, <2>3 DEF Failed, HubInv, TypeOK, TerminalOK
    <2> QED
      BY <1>w, <2>1, <2>2, <2>3, <2>4, FailedStep
  <1>11. ASSUME NEW q \in Sessions, NEW r \in Requests, Answer(q, r) PROVE OneWriter' /\ OneSource(x)'
    BY <1>11, AnswerStep
  <1>12. ASSUME NEW q \in Sessions, Deliver(q) PROVE OneWriter' /\ OneSource(x)'
    BY <1>12, DeliverStep
  <1>13. CASE Expire
    <2>1. PICK late \in SUBSET pending : expired' = late /\ pending' = pending \ late
      BY <1>13 DEF Expire, TakeOut
    <2>2. UNCHANGED <<drop, owner, work, reply, thread, told>>
      BY <1>13 DEF Expire
    <2>3. Failed(x)' => Failed(x) \/ x \in late
      BY <2>1, <2>2 DEF Failed
    <2> QED
      BY <1>w, <2>1, <2>2, <2>3, TakenOutStep
  <1>14. ASSUME NEW r \in Requests, TellExpired(r) PROVE OneWriter' /\ OneSource(x)'
    <2>1. /\ Failed(r) /\ Tell(r, Error(r)) /\ expired' = expired \ {r}
          /\ UNCHANGED <<drop, owner, work, reply, thread>>
      BY <1>14 DEF TellExpired, Failed
    <2>2. Failed(x)' => Failed(x)
      BY <2>1 DEF Failed
    <2> QED
      BY <1>w, <2>1, <2>2, FailedStep
  <1>15. CASE UNCHANGED vars
    <2>1. UNCHANGED <<drop, owner, work, reply, thread, told, expired, pending>>
      BY <1>15 DEF vars
    <2> QED
      BY <1>w, <2>1, ComingAndGoing
  <1> QED
    BY <1>1, <1>2, <1>3, <1>4, <1>5, <1>6, <1>7, <1>8, <1>9, <1>10, <1>11, <1>12, <1>13, <1>14, <1>15
    DEF Next, Handle, Drop, Tells

\* A client that got a result got one, and no error: the answer, the deadline
\* and the drop of the terminal each take the entry out before they tell, and
\* the thread that could not send gives up before any answer can come.
THEOREM ResultsAreFinal == Spec => []ResultIsFinal
  <1>1. HubInv => ResultIsFinal
    BY DEF HubInv, OneSource, ResultIsFinal
  <1> QED
    BY InitInv, NextInv, <1>1, PTL DEF Spec

-----------------------------------------------------------------------------
(* How many answers a request may still get, and that somebody owes it one. *)

Answers(r) == told[r].result + told[r].error
Tellers(r) == {q \in Sessions : r \in drop[q].tell}

\* One thread owes a failed request its error: that of the deadlines or that of one drop.
OneFailure(r) ==
  /\ r \in expired => Tellers(r) = {}
  /\ \A p, q \in Tellers(r) : p = q

\* The entry and the thread that handles the request are good for one answer each.
AnswersLeft(r) ==
  /\ Failed(r) /\ Handled(r) => Answers(r) = 0
  /\ Failed(r) \/ Handled(r) => Answers(r) <= 1
  /\ Answers(r) <= 2

\* Answered, or its client is not there any more.
Settled(r) == Answers(r) > 0 \/ client[owner[r]] # "up"

\* The thread of the request's client has it in hand and will enter it or answer.
InHand(r) ==
  \E c \in Clients : thread[c].at \in {"taken", "dropping", "popping", "unsent"} /\ thread[c].req = r

Remembered(r) ==
  owner[r] # "none" => r \in pending \/ Failed(r) \/ Replied(r) \/ InHand(r) \/ Settled(r)

\* A drop tells nobody before it has taken the entries, nor once it is done.
NobodyToTell == \A q \in Sessions : drop[q].at \in {"none", "detached", "done"} => drop[q].tell = {}

DebtInv == NobodyToTell /\ \A r \in Requests : OneFailure(r) /\ AnswersLeft(r) /\ Remembered(r)

LEMMA DebtInit == Init => DebtInv
  <1> SUFFICES ASSUME Init PROVE DebtInv
    OBVIOUS
  <1>1. NobodyToTell
    BY DEF Init, NobodyToTell
  <1>2. ASSUME NEW r \in Requests PROVE OneFailure(r) /\ AnswersLeft(r) /\ Remembered(r)
    BY DEF Init, OneFailure, Tellers, AnswersLeft, Answers, Remembered
  <1> QED
    BY <1>1, <1>2 DEF DebtInv

\* A step that adds nothing to what is owed to a request.
LEMMA LessDebt ==
  ASSUME NEW x \in Requests, OneFailure(x), AnswersLeft(x), told'[x] = told[x],
         Tellers(x)' \subseteq Tellers(x), x \in expired' => x \in expired, Handled(x)' => Handled(x)
  PROVE  OneFailure(x)' /\ AnswersLeft(x)'
  <1>1. OneFailure(x)'
    BY DEF OneFailure
  <1>2. Failed(x)' => Failed(x)
    BY DEF Failed, Tellers
  <1>3. Answers(x)' = Answers(x)
    BY DEF Answers
  <1> QED
    BY <1>1, <1>2, <1>3 DEF AnswersLeft

\* A step that passes a request on.
LEMMA StillRemembered ==
  ASSUME NEW x \in Requests, Remembered(x), owner'[x] = owner[x],
         Settled(x) => Settled(x)',
         x \in pending => x \in pending' \/ Failed(x)' \/ Replied(x)' \/ InHand(x)' \/ Settled(x)',
         Failed(x) => Failed(x)' \/ Settled(x)',
         Replied(x) => Replied(x)' \/ Settled(x)',
         InHand(x) => x \in pending' \/ InHand(x)' \/ Settled(x)'
  PROVE  Remembered(x)'
  BY DEF Remembered

LEMMA SettledStays ==
  ASSUME NEW x \in Requests, owner'[x] = owner[x], told'[x] = told[x],
         client'[owner[x]] = "up" => client[owner[x]] = "up"
  PROVE  Settled(x) => Settled(x)'
  BY DEF Settled, Answers

\* Where nothing of a request's debts changes.
LEMMA FrameDebts ==
  ASSUME NEW x \in Requests
  PROVE  /\ UNCHANGED <<drop>> => Tellers(x)' = Tellers(x)
         /\ UNCHANGED <<thread>> => InHand(x)' = InHand(x)
         /\ UNCHANGED <<client, owner, told>> => Settled(x)' = Settled(x)
  BY DEF Tellers, InHand, Settled, Answers

LEMMA TellSettles ==
  ASSUME TypeOK, NEW r \in Requests, owner[r] \in Clients, UNCHANGED owner,
         Tell(r, Error(r)) \/ Tell(r, Result(r)), NEW x \in Requests
  PROVE  /\ Settled(r)'
         /\ Settled(x) => Settled(x)'
         /\ x \in pending => x \in pending' \/ Settled(x)'
         /\ x # r => told'[x] = told[x]
         /\ Answers(r)' \in {Answers(r), Answers(r) + 1}
  <1>1. CASE client[owner[r]] = "up"
    <2>1. PICK a \in {Error(r), Result(r)} : told' = [told EXCEPT ![r] = a] /\ UNCHANGED <<client, pending>>
      BY <1>1 DEF Tell
    <2>2. a.result + a.error = Answers(r) + 1 /\ Answers(r) \in Nat
      BY DEF Error, Result, Answers, TypeOK, EntriesOK
    <2>3. \A y \in Requests : told'[y] = IF y = r THEN a ELSE told[y]
      BY <2>1 DEF TypeOK, EntriesOK
    <2>4. Answers(r)' = Answers(r) + 1
      BY <2>2, <2>3 DEF Answers
    <2>5. Settled(r)'
      BY <2>2, <2>4 DEF Settled
    <2>6. x # r => Answers(x)' = Answers(x)
      BY <2>3 DEF Answers
    <2> QED
      BY <2>1, <2>3, <2>4, <2>5, <2>6 DEF Settled
  <1>2. CASE client[owner[r]] # "up"
    <2>1. DropClient(owner[r]) /\ UNCHANGED told
      BY <1>2 DEF Tell
    <2>2. \A c \in Clients : client'[c] = IF c = owner[r] THEN "closed" ELSE client[c]
      BY <2>1 DEF DropClient, TypeOK, ClientsOK
    <2>3. \A y \in Requests : Answers(y)' = Answers(y)
      BY <2>1 DEF Answers
    <2>4. \A y \in Requests : owner[y] = owner[r] => Settled(y)'
      BY <2>2 DEF Settled
    <2>5. owner[x] # owner[r] => client'[owner[x]] = client[owner[x]]
      BY <2>1 DEF DropClient, TypeOK, ClientsOK
    <2>6. Settled(x) => Settled(x)'
      BY <2>3, <2>4, <2>5 DEF Settled
    <2>7. x \in pending => x \in pending' \/ Settled(x)'
      BY <2>1, <2>4 DEF DropClient, OwnedBy
    <2> QED
      BY <2>1, <2>3, <2>4, <2>6, <2>7
  <1> QED
    BY <1>1, <1>2

\* An error is told and its debt is struck off: that of a failure or that of a thread.
LEMMA ErrorStruck ==
  ASSUME HubInv, NEW r \in Requests, Tell(r, Error(r)), UNCHANGED <<owner, reply>>,
         NEW x \in Requests, OneFailure(x), AnswersLeft(x), Remembered(x),
         Failed(r) \/ Unsent(r),
         Tellers(x)' \subseteq Tellers(x), x \in expired' => x \in expired,
         x # r => Failed(x)' = Failed(x) /\ (InHand(x) => InHand(x)'),
         Handled(x)' => Handled(x),
         x = r => (Failed(x) /\ ~ Failed(x)') \/ (Handled(x) /\ ~ Handled(x)')
  PROVE  OneFailure(x)' /\ AnswersLeft(x)' /\ Remembered(x)'
  <1>1. owner[r] \in Clients
    <2>1. Unsent(r) => Handled(r)
      BY DEF Unsent, Handled
    <2>2. owner[r] # "none"
      BY <2>1 DEF HubInv, OneSource, Fresh
    <2> QED
      BY <2>2 DEF HubInv, TypeOK, ClientsOK
  <1>2. /\ Settled(r)' /\ (Settled(x) => Settled(x)')
        /\ x \in pending => x \in pending' \/ Settled(x)'
        /\ x # r => told'[x] = told[x]
        /\ Answers(r)' \in {Answers(r), Answers(r) + 1}
    BY <1>1, TellSettles DEF HubInv
  <1>3. CASE x # r
    <2>1. OneFailure(x)' /\ AnswersLeft(x)'
      BY <1>2, <1>3, LessDebt
    <2>2. Replied(x)' = Replied(x)
      BY TerminalRests
    <2>3. Remembered(x)'
      BY <1>2, <1>3, <2>2, StillRemembered
    <2> QED
      BY <2>1, <2>3
  <1>4. CASE x = r
    <2>1. OneFailure(x)'
      BY DEF OneFailure
    <2>2. Failed(x)' => Failed(x)
      BY DEF Failed, Tellers
    <2>3. Answers(x) \in Nat
      BY DEF Answers, HubInv, TypeOK, EntriesOK
    <2>4. AnswersLeft(x)'
      BY <1>2, <1>4, <2>2, <2>3 DEF AnswersLeft
    <2>5. Remembered(x)'
      BY <1>2, <1>4 DEF Remembered
    <2> QED
      BY <2>1, <2>4, <2>5
  <1> QED
    BY <1>3, <1>4

\* Nobody but the thread of its client moves a request in hand.
LEMMA HandMoves ==
  ASSUME ClientsOK, NEW c \in Clients, NEW t, thread' = [thread EXCEPT ![c] = t], NEW x \in Requests
  PROVE  /\ InHand(x) => InHand(x)' \/ (x = thread[c].req /\ thread[c].at \in {"taken", "dropping", "popping", "unsent"})
         /\ t.at \in {"taken", "dropping", "popping", "unsent"} /\ t.req = x => InHand(x)'
         /\ x # t.req => (InHand(x)' => InHand(x))
  <1>1. \A d \in Clients : thread'[d] = IF d = c THEN t ELSE thread[d]
    BY DEF ClientsOK
  <1> QED
    BY <1>1 DEF InHand

\* Steps of a thread that tell nobody.
LEMMA ThreadDebts ==
  ASSUME HubInv, DebtInv, NEW x \in Requests, NEW c \in Clients,
         Enter(c) \/ Lookup(c) \/ Note(c) \/ Forward(c) \/ ForwardFails(c) \/ Dropped(c) \/ PopUnsent(c)
  PROVE  OneFailure(x)' /\ AnswersLeft(x)' /\ Remembered(x)'
  <1> DEFINE hand == {"taken", "dropping", "popping", "unsent"}
  <1>0. ClientsOK /\ OneFailure(x) /\ AnswersLeft(x) /\ Remembered(x)
    BY DEF HubInv, TypeOK, DebtInv
  <1>1. PICK t : /\ thread' = [thread EXCEPT ![c] = t]
                 /\ t.at = "idle" \/ t.req = thread[c].req
                 /\ t.at # "taken" /\ thread[c].at # "idle"
                 /\ thread[c].at \in hand => t.at \in hand \/ Enter(c)
                 /\ PopUnsent(c) => t.at \in hand
    <2>1. CASE Forward(c)
      <3>1. thread' = [thread EXCEPT ![c] = Resting] /\ thread[c].at = "noted"
        BY <2>1 DEF Forward
      <3>2. Resting.at = "idle" /\ "noted" \notin hand /\ ~ PopUnsent(c)
        BY <3>1 DEF Resting, PopUnsent
      <3> QED
        BY <3>1, <3>2
    <2>2. CASE ~ Forward(c)
      <3>1. PICK at, q :
              at \in Steps \ {"idle", "taken"} /\ Go(c, at, q) /\ (thread[c].at \in hand => at \in hand \/ Enter(c)) /\ (PopUnsent(c) => at \in hand)
        BY <2>2 DEF Enter, Lookup, Note, Dropped, ForwardFails, PopUnsent, HasTerminal, ThenTell, Steps
      <3>2. thread[c].at # "idle"
        BY <2>2 DEF Enter, Lookup, Note, Dropped, ForwardFails, PopUnsent
      <3> DEFINE u == [at |-> at, req |-> thread[c].req, qmt |-> q]
      <3>3. thread' = [thread EXCEPT ![c] = u] /\ u.at = at /\ u.req = thread[c].req
        BY <3>1 DEF Go
      <3> HIDE DEF u
      <3> QED
        BY <3>1, <3>2, <3>3
    <2> QED
      BY <2>1, <2>2
  <1>2. UNCHANGED <<reply, client, owner, expired, told>>
    BY DEF Enter, Lookup, Note, Forward, ForwardFails, Dropped, PopUnsent
  <1>3. Tellers(x)' = Tellers(x)
    <2>1. CASE UNCHANGED drop
      BY <2>1, FrameDebts
    <2>2. CASE ForwardFails(c)
      <3>1. CASE drop[thread[c].qmt].at = "none"
        <4>1. /\ thread[c].qmt \in Sessions /\ drop[thread[c].qmt].tell = {}
              /\ drop' = [drop EXCEPT ![thread[c].qmt] = [at |-> "detached", tell |-> {}]]
          BY <1>0, <2>2, <3>1 DEF ForwardFails, ClientsOK, DebtInv, NobodyToTell
        <4> QED
          BY <4>1 DEF Tellers, HubInv, TypeOK, TerminalOK
      <3>2. CASE drop[thread[c].qmt].at # "none"
        BY <2>1, <2>2, <3>2 DEF ForwardFails
      <3> QED
        BY <3>1, <3>2
    <2> QED
      BY <2>1, <2>2 DEF Enter, Lookup, Note, Forward, Dropped, PopUnsent
  <1>4. Handled(x)' => Handled(x)
    BY <1>0, <1>1, ThreadStep
  <1>5. OneFailure(x)' /\ AnswersLeft(x)'
    BY <1>0, <1>2, <1>3, <1>4, LessDebt
  <1>6. Failed(x)' = Failed(x) /\ Replied(x)' = Replied(x) /\ Settled(x)' = Settled(x)
    BY <1>2, <1>3, TerminalRests, FrameDebts DEF Failed, Tellers
  <1>7. x \in pending => x \in pending' \/ InHand(x)'
    <2>1. CASE PopUnsent(c)
      BY <1>0, <1>1, <2>1, HandMoves DEF PopUnsent
    <2> QED
      BY <2>1 DEF Enter, Lookup, Note, Forward, ForwardFails, Dropped
  <1>8. InHand(x) => x \in pending' \/ InHand(x)'
    <2>1. CASE x = thread[c].req /\ thread[c].at \in hand
      <3>1. CASE Enter(c)
        BY <2>1, <3>1 DEF Enter
      <3>2. CASE ~ Enter(c)
        BY <1>0, <1>1, <2>1, <3>2, HandMoves
      <3> QED
        BY <3>1, <3>2
    <2> QED
      BY <1>0, <1>1, <2>1, HandMoves
  <1> QED
    BY <1>0, <1>2, <1>5, <1>6, <1>7, <1>8, StillRemembered

LEMMA TakeDebts ==
  ASSUME HubInv, DebtInv, NEW x \in Requests, NEW c \in Clients, NEW r \in Requests, Take(c, r)
  PROVE  OneFailure(x)' /\ AnswersLeft(x)' /\ Remembered(x)'
  <1>0. ClientsOK /\ OneFailure(x) /\ AnswersLeft(x) /\ Remembered(x) /\ OneSource(x)
    BY DEF HubInv, TypeOK, DebtInv
  <1>1. PICK at \in {"taken", "unsent"} :
          thread' = [thread EXCEPT ![c] = [at |-> at, req |-> r, qmt |-> 0]]
    BY DEF Take
  <1>2. /\ thread[c].at = "idle" /\ owner[r] = "none" /\ owner' = [owner EXCEPT ![r] = c]
        /\ UNCHANGED <<drop, reply, client, pending, expired, told>>
    BY DEF Take
  <1> DEFINE t == [at |-> at, req |-> r, qmt |-> 0]
  <1>3. t.at = at /\ t.req = r
    OBVIOUS
  <1> HIDE DEF t
  <1>4. /\ InHand(x) => InHand(x)'
        /\ x = r => InHand(x)'
    BY <1>0, <1>1, <1>2, <1>3, HandMoves DEF t
  <1>5. Tellers(x)' = Tellers(x) /\ Failed(x)' = Failed(x) /\ Replied(x)' = Replied(x)
    BY <1>2, FrameDebts, TerminalRests
  <1>6. CASE x # r
    <2>1. Handled(x)' => Handled(x)
      BY <1>0, <1>1, <1>3, <1>6 DEF Handled, ClientsOK
    <2>2. owner'[x] = owner[x]
      BY <1>0, <1>2, <1>6 DEF ClientsOK
    <2>3. Settled(x) => Settled(x)'
      BY <1>2, <2>2, SettledStays
    <2> QED
      BY <1>0, <1>2, <1>4, <1>5, <2>1, <2>2, <2>3, LessDebt, StillRemembered
  <1>7. CASE x = r
    <2>1. ~ Failed(x) /\ Answers(x) = 0
      BY <1>0, <1>2, <1>7 DEF OneSource, Fresh, Answers, Zero
    <2>2. AnswersLeft(x)'
      BY <1>2, <1>5, <2>1 DEF AnswersLeft, Answers
    <2> QED
      BY <1>0, <1>2, <1>4, <1>5, <1>7, <2>2 DEF OneFailure, Remembered
  <1> QED
    BY <1>6, <1>7

\* Entries are taken out by the thread that will tell.
LEMMA FailureDebts ==
  ASSUME HubInv, DebtInv, NEW x \in Requests, NEW out \in SUBSET pending, pending' = pending \ out,
         UNCHANGED <<client, owner, reply, thread, told>>,
         x \in out => Failed(x)' /\ OneFailure(x)',
         x \notin out => Tellers(x)' = Tellers(x) /\ (x \in expired' <=> x \in expired)
  PROVE  OneFailure(x)' /\ AnswersLeft(x)' /\ Remembered(x)'
  <1>0. OneFailure(x) /\ AnswersLeft(x) /\ Remembered(x) /\ OneSource(x)
    BY DEF HubInv, DebtInv
  <1>1. /\ Handled(x)' = Handled(x) /\ Replied(x)' = Replied(x)
        /\ InHand(x)' = InHand(x) /\ Settled(x)' = Settled(x)
    BY ThreadsRest, TerminalRests, FrameDebts
  <1>2. CASE x \notin out
    <2>1. Failed(x)' = Failed(x)
      BY <1>2 DEF Failed, Tellers
    <2> QED
      BY <1>0, <1>1, <1>2, <2>1, LessDebt, StillRemembered
  <1>3. CASE x \in out
    <2>1. Answers(x)' = 0
      BY <1>0, <1>3 DEF OneSource, Answers, Zero
    <2> QED
      BY <1>3, <2>1 DEF AnswersLeft, Remembered
  <1> QED
    BY <1>2, <1>3

LEMMA ErrorDebts ==
  ASSUME HubInv, DebtInv, NEW x \in Requests
  PROVE  /\ \A c \in Clients : TellUnsent(c) => OneFailure(x)' /\ AnswersLeft(x)' /\ Remembered(x)'
         /\ \A q \in Sessions : TellDropped(q) => OneFailure(x)' /\ AnswersLeft(x)' /\ Remembered(x)'
         /\ \A r \in Requests : TellExpired(r) => OneFailure(x)' /\ AnswersLeft(x)' /\ Remembered(x)'
  <1>0. ClientsOK /\ OneFailure(x) /\ AnswersLeft(x) /\ Remembered(x)
    BY DEF HubInv, TypeOK, DebtInv
  <1>1. ASSUME NEW c \in Clients, TellUnsent(c)
        PROVE  OneFailure(x)' /\ AnswersLeft(x)' /\ Remembered(x)'
    <2>1. PICK r \in Requests : r = thread[c].req
      BY <1>0, <1>1 DEF TellUnsent, ClientsOK, OwnedBy
    <2>2. /\ Tell(r, Error(r)) /\ UNCHANGED <<owner, reply, drop, expired>>
          /\ thread' = [thread EXCEPT ![c] = Resting] /\ Resting.at = "idle" /\ Resting.req = "none"
          /\ thread[c].at = "unsent" /\ Unsent(r)
      BY <1>1, <2>1 DEF TellUnsent, Resting, Unsent
    <2>3. /\ Handled(x)' => Handled(x)
          /\ x = r => Handled(x) /\ ~ Handled(x)'
      BY <1>0, <2>1, <2>2, ThreadStep DEF Handled
    <2>4. x # r => (InHand(x) => InHand(x)')
      BY <1>0, <2>1, <2>2, HandMoves
    <2>5. Tellers(x)' = Tellers(x) /\ Failed(x)' = Failed(x)
      BY <2>2, FrameDebts, TerminalRests
    <2> QED
      BY <1>0, <2>2, <2>3, <2>4, <2>5, ErrorStruck
  <1>2. ASSUME NEW q \in Sessions, TellDropped(q)
        PROVE  OneFailure(x)' /\ AnswersLeft(x)' /\ Remembered(x)'
    <2>1. PICK r \in drop[q].tell :
            /\ Tell(r, Error(r))
            /\ drop' = [drop EXCEPT ![q] = [at |-> "telling", tell |-> drop[q].tell \ {r}]]
      BY <1>2 DEF TellDropped
    <2>2. r \in Requests /\ Failed(r) /\ q \in Tellers(r) /\ UNCHANGED <<owner, reply, thread, expired>>
      BY <1>2, <2>1 DEF Failed, HubInv, TypeOK, TerminalOK, Tellers, TellDropped
    <2>3. /\ x # r => Tellers(x)' = Tellers(x)
          /\ x = r => Tellers(x)' = Tellers(x) \ {q}
      BY <2>1 DEF Tellers, HubInv, TypeOK, TerminalOK
    <2>4. x = r => Failed(x) /\ ~ Failed(x)'
      <3>1. x = r => x \notin expired /\ Tellers(x)' = {}
        BY <1>0, <2>2, <2>3 DEF OneFailure
      <3> QED
        BY <2>2, <3>1 DEF Failed, Tellers
    <2>5. x # r => Failed(x)' = Failed(x)
      BY <2>2, <2>3 DEF Failed, Tellers
    <2>6. Handled(x)' = Handled(x) /\ InHand(x)' = InHand(x)
      BY <2>2, ThreadsRest, FrameDebts
    <2>7. Tellers(x)' \subseteq Tellers(x)
      BY <2>3
    <2> QED
      BY <1>0, <2>1, <2>2, <2>4, <2>5, <2>6, <2>7, ErrorStruck
  <1>3. ASSUME NEW r \in Requests, TellExpired(r)
        PROVE  OneFailure(x)' /\ AnswersLeft(x)' /\ Remembered(x)'
    <2>1. /\ Tell(r, Error(r)) /\ expired' = expired \ {r} /\ r \in expired
          /\ UNCHANGED <<drop, owner, reply, thread>>
      BY <1>3 DEF TellExpired
    <2>2. Tellers(x)' = Tellers(x) /\ Handled(x)' = Handled(x) /\ InHand(x)' = InHand(x)
      BY <2>1, ThreadsRest, FrameDebts
    <2>3. x = r => Failed(x) /\ ~ Failed(x)'
      <3>1. x = r => Tellers(x)' = {}
        BY <1>0, <2>1, <2>2 DEF OneFailure
      <3> QED
        BY <2>1, <3>1 DEF Failed, Tellers
    <2>4. x # r => Failed(x)' = Failed(x)
      BY <2>1, <2>2 DEF Failed, Tellers
    <2>5. Failed(r)
      BY <2>1 DEF Failed
    <2> QED
      BY <1>0, <2>1, <2>2, <2>3, <2>4, <2>5, ErrorStruck
  <1> QED
    BY <1>1, <1>2, <1>3

LEMMA ResultDebts ==
  ASSUME HubInv, DebtInv, NEW x \in Requests, NEW q \in Sessions
  PROVE  /\ \A r \in Requests : Answer(q, r) => OneFailure(x)' /\ AnswersLeft(x)' /\ Remembered(x)'
         /\ Deliver(q) => OneFailure(x)' /\ AnswersLeft(x)' /\ Remembered(x)'
  <1>0. OneFailure(x) /\ AnswersLeft(x) /\ Remembered(x) /\ OneSource(x)
    BY DEF HubInv, DebtInv
  <1>1. ASSUME NEW r \in Requests, Answer(q, r)
        PROVE  OneFailure(x)' /\ AnswersLeft(x)' /\ Remembered(x)'
    <2>1. /\ reply[q] = "none" /\ pending' = pending \ {r}
          /\ reply' = [reply EXCEPT ![q] = IF r \in pending THEN r ELSE "none"]
          /\ UNCHANGED <<drop, client, thread, owner, expired, told>>
      BY <1>1 DEF Answer
    <2>2. /\ Tellers(x)' = Tellers(x) /\ Handled(x)' = Handled(x) /\ Failed(x)' = Failed(x)
          /\ InHand(x)' = InHand(x) /\ Settled(x)' = Settled(x)
      BY <2>1, ThreadsRest, TerminalRests, FrameDebts
    <2>3. /\ Replied(x) => Replied(x)'
          /\ x \in pending => x \in pending' \/ Replied(x)'
      BY <2>1, HubAssumption DEF Replied, HubInv, TypeOK, TerminalOK
    <2> QED
      BY <1>0, <2>1, <2>2, <2>3, LessDebt, StillRemembered
  <1>2. ASSUME Deliver(q)
        PROVE  OneFailure(x)' /\ AnswersLeft(x)' /\ Remembered(x)'
    <2>1. PICK r \in Requests : r = reply[q]
      BY <1>2 DEF Deliver, HubInv, TypeOK, TerminalOK
    <2>2. /\ Tell(r, Result(r)) /\ reply' = [reply EXCEPT ![q] = "none"] /\ Replied(r)
          /\ UNCHANGED <<drop, thread, owner, expired>>
      BY <1>2, <2>1 DEF Deliver, Replied
    <2>3. owner[r] \in Clients /\ TypeOK
      BY <2>2 DEF HubInv, TypeOK, ClientsOK, OneSource, Fresh
    <2>4. /\ Tellers(x)' = Tellers(x) /\ Handled(x)' = Handled(x) /\ Failed(x)' = Failed(x)
          /\ InHand(x)' = InHand(x)
      BY <2>2, ThreadsRest, TerminalRests, FrameDebts
    <2>5. /\ Settled(r)' /\ (Settled(x) => Settled(x)')
          /\ x \in pending => x \in pending' \/ Settled(x)'
          /\ x # r => told'[x] = told[x]
          /\ Answers(r)' \in {Answers(r), Answers(r) + 1}
      BY <2>2, <2>3, TellSettles
    <2>6. CASE x # r
      <3>1. Replied(x) => Replied(x)'
        BY <2>1, <2>2, <2>6 DEF Replied, HubInv, TypeOK, TerminalOK
      <3> QED
        BY <1>0, <2>2, <2>4, <2>5, <2>6, <3>1, LessDebt, StillRemembered
    <2>7. CASE x = r
      <3>1. ~ Failed(x) /\ ~ Handled(x) /\ Answers(x) = 0
        BY <1>0, <2>2, <2>7 DEF OneSource, Answers, Zero
      <3>2. OneFailure(x)' /\ AnswersLeft(x)'
        BY <1>0, <2>2, <2>4, <2>5, <2>7, <3>1 DEF OneFailure, AnswersLeft
      <3> QED
        BY <2>5, <2>7, <3>2 DEF Remembered
    <2> QED
      BY <2>6, <2>7
  <1> QED
    BY <1>1, <1>2

\* Clients that go, sessions that come and go.
LEMMA ComingDebts ==
  ASSUME HubInv, DebtInv, NEW x \in Requests, UNCHANGED <<owner, reply, thread, told, expired>>,
         Tellers(x)' = Tellers(x),
         x \in pending => x \in pending' \/ Settled(x)',
         Settled(x) => Settled(x)'
  PROVE  OneFailure(x)' /\ AnswersLeft(x)' /\ Remembered(x)'
  <1>0. OneFailure(x) /\ AnswersLeft(x) /\ Remembered(x)
    BY DEF DebtInv
  <1>1. Handled(x)' = Handled(x) /\ InHand(x)' = InHand(x) /\ Replied(x)' = Replied(x)
    BY ThreadsRest, TerminalRests, FrameDebts
  <1>2. Failed(x)' = Failed(x)
    BY DEF Failed, Tellers
  <1> QED
    BY <1>0, <1>1, <1>2, LessDebt, StillRemembered

LEMMA NobodyStep == HubInv /\ DebtInv /\ [Next]_vars => NobodyToTell'
  <1> SUFFICES ASSUME HubInv, DebtInv, [Next]_vars PROVE NobodyToTell'
    OBVIOUS
  <1>1. NobodyToTell /\ drop \in [Sessions -> [at : {"none", "detached", "closing", "telling", "done"},
                                              tell : SUBSET Requests]]
    BY DEF HubInv, TypeOK, TerminalOK, DebtInv
  <1>2. ASSUME NEW q \in Sessions, NEW at, NEW tell, at \in {"none", "detached", "done"} => tell = {},
               drop' = [drop EXCEPT ![q] = [at |-> at, tell |-> tell]]
        PROVE  NobodyToTell'
    BY <1>1, <1>2 DEF NobodyToTell
  <1>3. CASE UNCHANGED drop
    BY <1>1, <1>3 DEF NobodyToTell
  <1>4. ASSUME NEW q \in Sessions, Detach(q) \/ Drop(q) PROVE NobodyToTell'
    <2>1. CASE Detach(q) \/ DropDone(q) \/ CloseLink(q)
      BY <1>2, <2>1 DEF Detach, DropDone, CloseLink
    <2>2. CASE TakeDropped(q)
      BY <1>2, <2>2 DEF TakeDropped
    <2>3. CASE TellDropped(q)
      BY <1>2, <2>3 DEF TellDropped
    <2> QED
      BY <1>4, <2>1, <2>2, <2>3 DEF Drop
  <1>5. ASSUME NEW c \in Clients, ForwardFails(c) PROVE NobodyToTell'
    <2>1. thread[c].qmt \in Sessions
      BY <1>5 DEF ForwardFails, HubInv, TypeOK, ClientsOK
    <2> QED
      BY <1>2, <1>3, <1>5, <2>1 DEF ForwardFails
  <1>6. ASSUME NEW c \in Clients, Handle(c) \/ Leave(c) \/ \E r \in Requests : Take(c, r) PROVE NobodyToTell'
    BY <1>3, <1>5, <1>6
       DEF Handle, Leave, Take, Enter, Lookup, Note, Forward, Dropped, PopUnsent, TellUnsent, ClientEnds
  <1>7. ASSUME NEW q \in Sessions, Register(q) \/ Deliver(q) \/ Lose(q) \/ \E r \in Requests : Answer(q, r)
        PROVE  NobodyToTell'
    BY <1>3, <1>7 DEF Register, Deliver, Lose, Answer
  <1>8. CASE Expire \/ Tells \/ UNCHANGED vars
    BY <1>3, <1>8 DEF Expire, Tells, TellExpired, vars
  <1> QED
    BY <1>4, <1>6, <1>7, <1>8 DEF Next

LEMMA DebtStep == HubInv /\ DebtInv /\ [Next]_vars => DebtInv'
  <1> SUFFICES ASSUME HubInv, DebtInv, [Next]_vars, NEW x \in Requests
               PROVE  OneFailure(x)' /\ AnswersLeft(x)' /\ Remembered(x)'
    BY NobodyStep DEF DebtInv
  <1> DEFINE Good == OneFailure(x)' /\ AnswersLeft(x)' /\ Remembered(x)'
  <1>0. TerminalOK /\ ClientsOK
    BY DEF HubInv, TypeOK
  <1>1. ASSUME NEW c \in Clients, ClientEnds(c) \/ Leave(c) PROVE Good
    <2>1. UNCHANGED <<drop, owner, reply, thread, told, expired>>
      BY <1>1 DEF ClientEnds, Leave
    <2>2. /\ \A d \in Clients : client'[d] = "up" => client[d] = "up"
          /\ x \in pending => x \in pending' \/ (owner[x] = c /\ client'[c] = "closed")
      BY <1>0, <1>1 DEF ClientEnds, Leave, DropClient, OwnedBy, ClientsOK
    <2>3. owner[x] \in Clients => (Settled(x) => Settled(x)') /\ (owner[x] = c /\ client'[c] = "closed" => Settled(x)')
      BY <2>1, <2>2, SettledStays DEF Settled
    <2>4. CASE owner[x] \in Clients
      BY <2>1, <2>2, <2>3, <2>4, FrameDebts, ComingDebts
    <2>5. CASE owner[x] = "none"
      <3>1. OneFailure(x)' /\ AnswersLeft(x)'
        BY <2>1, FrameDebts, ThreadsRest, LessDebt DEF DebtInv
      <3> QED
        BY <2>1, <2>5, <3>1 DEF Remembered
    <2> QED
      BY <1>0, <2>4, <2>5 DEF ClientsOK
  <1>2. ASSUME NEW q \in Sessions, Register(q) \/ Detach(q) \/ CloseLink(q) \/ DropDone(q) \/ Lose(q) PROVE Good
    <2>1. UNCHANGED <<client, owner, reply, thread, told, expired, pending>>
      BY <1>2 DEF Register, Detach, CloseLink, DropDone, Lose
    <2>2. \A p \in Sessions : drop'[p].tell = drop[p].tell
      <3>1. CASE Register(q) \/ Lose(q)
        BY <3>1 DEF Register, Lose
      <3>2. CASE Detach(q)
        BY <1>0, <3>2 DEF Detach, TerminalOK, DebtInv, NobodyToTell
      <3>3. CASE CloseLink(q)
        BY <1>0, <3>3 DEF CloseLink, TerminalOK
      <3>4. CASE DropDone(q)
        BY <1>0, <3>4 DEF DropDone, TerminalOK
      <3> QED
        BY <1>2, <3>1, <3>2, <3>3, <3>4
    <2>3. Tellers(x)' = Tellers(x)
      BY <2>2 DEF Tellers
    <2> QED
      BY <2>1, <2>3, FrameDebts, ComingDebts
  <1>3. ASSUME NEW q \in Sessions, TakeDropped(q) PROVE Good
    <2> DEFINE out == {r \in pending : sentTo[r] = q}
    <2>1. /\ drop' = [drop EXCEPT ![q] = [at |-> "closing", tell |-> out]]
          /\ pending' = pending \ out /\ drop[q].tell = {}
          /\ UNCHANGED <<client, owner, reply, thread, told, expired>>
      BY <1>3 DEF TakeDropped, TakeOut, DebtInv, NobodyToTell
    <2>2. out \in SUBSET pending
      OBVIOUS
    <2> HIDE DEF out
    <2>3. \A p \in Sessions : drop'[p].tell = IF p = q THEN out ELSE drop[p].tell
      BY <1>0, <2>1 DEF TerminalOK
    <2>4. Tellers(x)' = IF x \in out THEN Tellers(x) \union {q} ELSE Tellers(x)
      BY <2>1, <2>3 DEF Tellers
    <2>5. x \in out => ~ Failed(x)
      BY <2>2 DEF HubInv, OneSource
    <2>6. x \in out => x \notin expired /\ Tellers(x) = {}
      BY <2>5 DEF Failed, Tellers
    <2>7. x \in out => Failed(x)' /\ OneFailure(x)'
      BY <2>1, <2>3, <2>4, <2>6 DEF OneFailure, Failed
    <2> QED
      BY <2>1, <2>2, <2>4, <2>7, FailureDebts
  <1>4. CASE Expire
    <2>1. PICK late \in SUBSET pending : expired' = late /\ pending' = pending \ late
      BY <1>4 DEF Expire, TakeOut
    <2>2. UNCHANGED <<drop, client, owner, reply, thread, told>> /\ expired = {}
      BY <1>4 DEF Expire
    <2>3. Tellers(x)' = Tellers(x)
      BY <2>2, FrameDebts
    <2>4. x \in late => Tellers(x) = {}
      BY <2>1 DEF HubInv, OneSource, Failed, Tellers
    <2>5. x \in late => Failed(x)' /\ OneFailure(x)'
      BY <2>1, <2>3, <2>4 DEF Failed, OneFailure
    <2> QED
      BY <2>1, <2>2, <2>3, <2>5, FailureDebts
  <1>5. CASE UNCHANGED vars
    BY <1>5, FrameDebts, ComingDebts DEF vars
  <1>6. ASSUME NEW c \in Clients, Handle(c) \/ Leave(c) \/ \E r \in Requests : Take(c, r) PROVE Good
    BY <1>1, <1>6, ThreadDebts, TakeDebts, ErrorDebts DEF Handle
  <1>7. ASSUME NEW q \in Sessions, Drop(q) PROVE Good
    BY <1>2, <1>3, <1>7, ErrorDebts DEF Drop
  <1> QED
    BY <1>2, <1>4, <1>5, <1>6, <1>7, ErrorDebts, ResultDebts DEF Next, Tells

\* A client gets at most two answers to a request, however the failed write, the deadline and the drop of
\* the terminal interleave (pipe_hub.py _handle_request, _drop_conn, _maintenance).
THEOREM AnswersBounded == Spec => []TwoAnswersAtMost
  <1>1. DebtInv => TwoAnswersAtMost
    BY DEF DebtInv, AnswersLeft, Answers, TwoAnswersAtMost
  <1> QED
    BY InitInv, NextInv, DebtInit, DebtStep, <1>1, PTL DEF Spec

\* No interleaving of the hub's threads drops a request between two of them: it is answered, its client
\* has gone, or it is an entry or some thread's to answer.
THEOREM NothingForgotten == Spec => []NoRequestForgotten
  <1>1. HubInv /\ DebtInv => NoRequestForgotten
    <2> SUFFICES ASSUME HubInv, DebtInv, NEW r \in Requests, owner[r] # "none"
                 PROVE  Holding(r) \/ told[r].result + told[r].error > 0 \/ client[owner[r]] # "up"
      BY DEF NoRequestForgotten
    <2>1. r \in pending \/ Failed(r) \/ Replied(r) \/ InHand(r) \/ Settled(r)
      BY DEF DebtInv, Remembered
    <2> QED
      BY <2>1 DEF Holding, Failed, Replied, InHand, Settled, Answers
  <1> QED
    BY InitInv, NextInv, DebtInit, DebtStep, <1>1, PTL DEF Spec

=============================================================================
