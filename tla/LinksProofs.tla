----------------------------- MODULE LinksProofs -----------------------------
(***************************************************************************)
(* Proofs about the links (module Links): the two ends of a subscription,  *)
(* a browser's socket (QuoteWatch) and the bridge in the terminal          *)
(* (MarketBridge), and the hub's ends of the pipes of a client             *)
(* (HubClients) and of the terminal (TerminalLink).                        *)
(***************************************************************************)
EXTENDS QuoteWatch, MarketBridge, HubClients, TerminalLink, TLAPS

-----------------------------------------------------------------------------
(* Of all the quotes on their way to a browser, from subscriptions that    *)
(* push to the queue, those of the present generation are of the list it   *)
(* watches, and there are none unless it is subscribed or being            *)
(* subscribed; every change ages the ones there are.                       *)

Events == pushing \union {putting} \union {listener[n] : n \in 1..Len(listener)}

EventsTyped ==
  /\ pushing \subseteq Subscriptions
  /\ putting \in Subscriptions \union {NoSub}
  /\ listener \in Seq(Subscriptions \union {JobEvent})

HandlerTyped ==
  /\ generation \in 0..MaxGenerations
  /\ watch \in Lists \union {"none"}
  /\ handler \in {"loop", "subscribing", "ended"}

\* An event is no younger than the generation; one of it is of the list that is watched or being subscribed.
Dated(e) == e.generation <= generation

Wanted(e) ==
  e \in Subscriptions /\ e.generation = generation =>
    /\ e.list = watch
    /\ handler = "subscribing" \/ (handler = "loop" /\ subscription = e)

SubscriptionFits ==
  /\ subscription # NoSub =>
       /\ watch \in Lists /\ told = watch /\ handler = "loop"
       /\ subscription = [list |-> watch, generation |-> generation]
  /\ handler = "subscribing" => subscription = NoSub /\ shown = "none" /\ watch \in Lists
  /\ shown # "none" => subscription # NoSub /\ shown = watch

WatchInv ==
  /\ HandlerTyped /\ EventsTyped /\ SubscriptionFits
  /\ \A e \in Events : Dated(e) /\ Wanted(e)

(* A browser that has just connected watches nothing. *)
LEMMA WatchStarts == WatchInit => WatchInv
<1> SUFFICES ASSUME WatchInit PROVE WatchInv OBVIOUS
<1>1. HandlerTyped /\ EventsTyped /\ SubscriptionFits
  BY WatchAssumption DEF WatchInit, HandlerTyped, EventsTyped, SubscriptionFits
<1>2. \A e \in Events : e = NoSub
  BY DEF WatchInit, Events
<1>3. NoSub \notin Subscriptions /\ NoSub.generation = 0
  BY DEF NoSub, Subscriptions
<1> QED BY <1>1, <1>2, <1>3 DEF WatchInv, Dated, Wanted, WatchInit

(* What is in the queue afterwards was in it or has just been put there. *)
LEMMA PutEvents ==
  ASSUME EventsTyped, NEW event \in Subscriptions \union {JobEvent}, Put(event)
  PROVE  /\ listener' \in Seq(Subscriptions \union {JobEvent})
         /\ \A n \in 1..Len(listener') : listener'[n] = event \/ \E m \in 1..Len(listener) : listener'[n] = listener[m]
BY DEF EventsTyped, Put

(* A new generation ages every event that was there. *)
LEMMA Aging ==
  ASSUME WatchInv, NextGeneration, NEW e \in Events
  PROVE  e.generation \in Nat /\ e.generation < generation' /\ generation' \in 0..MaxGenerations
<1>1. e \in Subscriptions \union {NoSub, JobEvent}
  BY DEF WatchInv, EventsTyped, Events
<1>2. e.generation \in Nat
  BY <1>1, WatchAssumption DEF Subscriptions, NoSub, JobEvent
<1> QED BY <1>2, WatchAssumption DEF WatchInv, HandlerTyped, Dated, NextGeneration

(* A step that begins a generation and lets no event in. *)
LEMMA Renewed ==
  ASSUME WatchInv, NextGeneration, pushing' \subseteq pushing, putting' = putting,
         listener' = listener \/ listener' = <<>>, HandlerTyped', SubscriptionFits'
  PROVE  WatchInv'
<1>1. EventsTyped'
  <2>1. pushing' \subseteq Subscriptions /\ putting' \in Subscriptions \union {NoSub} BY DEF WatchInv, EventsTyped
  <2>2. CASE listener' = listener BY <2>1, <2>2 DEF WatchInv, EventsTyped
  <2>3. CASE listener' = <<>>
    <3>1. <<>> \in Seq(Subscriptions \union {JobEvent}) OBVIOUS
    <3> QED BY <2>1, <2>3, <3>1 DEF EventsTyped
  <2> QED BY <2>2, <2>3
<1>2. \A e \in Events' : e \in Events
  BY DEF Events, WatchInv, EventsTyped
<1>3. \A e \in Events' : e.generation < generation' /\ e.generation \in Nat /\ generation' \in 0..MaxGenerations
  BY <1>2, Aging
<1>4. \A e \in Events' : e.generation <= generation' /\ e.generation # generation'
  BY <1>3, WatchAssumption
<1>5. (\A e \in Events : Dated(e) /\ Wanted(e))'
  BY <1>4 DEF Dated, Wanted
<1> QED BY <1>1, <1>5 DEF WatchInv

(* A step of the same generation whose events were there, and that leaves what they are of alone. *)
LEMMA Kept ==
  ASSUME WatchInv, UNCHANGED <<generation, watch, subscription, handler, told>>,
         EventsTyped', \A e \in Events' : e \in Events, shown' = shown \/ SubscriptionFits'
  PROVE  WatchInv'
<1>1. HandlerTyped' BY DEF WatchInv, HandlerTyped
<1>2. SubscriptionFits' BY DEF WatchInv, SubscriptionFits
<1>3. (\A e \in Events : Dated(e) /\ Wanted(e))' BY DEF WatchInv, Dated, Wanted
<1> QED BY <1>1, <1>2, <1>3 DEF WatchInv

LEMMA CommandStep == ASSUME WatchInv, NEW list \in Lists \union {"none"}, Command(list) PROVE WatchInv'
<1>1. CASE Released /\ NextGeneration /\ watch' = list /\ subscription' = NoSub
  <2>1. HandlerTyped' /\ SubscriptionFits'
    BY <1>1, WatchAssumption DEF Command, WatchInv, HandlerTyped, SubscriptionFits, NextGeneration
  <2> QED BY <1>1, <2>1, Renewed DEF Command, Released
<1>2. CASE NotReleased /\ told' = watch /\ UNCHANGED <<generation, watch, subscription, shown>>
  <2>1. UNCHANGED <<handler, putting, listener>> /\ pushing' \subseteq pushing /\ handler = "loop"
    BY <1>2 DEF Command, NotReleased
  <2>2. EventsTyped' BY <2>1 DEF WatchInv, EventsTyped
  <2>3. HandlerTyped' /\ SubscriptionFits' BY <1>2, <2>1 DEF WatchInv, HandlerTyped, SubscriptionFits
  <2>4. \A e \in Events' : e \in Events BY <2>1 DEF Events
  <2>5. (\A e \in Events : Dated(e) /\ Wanted(e))' BY <1>2, <2>1, <2>4 DEF WatchInv, Dated, Wanted
  <2> QED BY <2>2, <2>3, <2>5 DEF WatchInv
<1> QED BY <1>1, <1>2 DEF Command

LEMMA SubscribeStep == ASSUME WatchInv, Subscribe PROVE WatchInv'
<1>1. HandlerTyped' /\ SubscriptionFits'
  BY WatchAssumption DEF Subscribe, WatchInv, HandlerTyped, SubscriptionFits, NextGeneration
<1>2. CASE UNCHANGED <<pushing, handler>>
  BY <1>1, <1>2, Renewed DEF Subscribe
<1>3. CASE pushing' = pushing \union {[list |-> watch, generation |-> generation']} /\ handler' = "subscribing"
  <2> DEFINE new == [list |-> watch, generation |-> generation']
  <2>1. watch' = watch /\ watch \in Lists /\ NextGeneration /\ UNCHANGED <<putting, listener>>
    BY DEF Subscribe, WatchInv, HandlerTyped
  <2>2. generation' \in 1..MaxGenerations
    BY <2>1, WatchAssumption DEF WatchInv, HandlerTyped, NextGeneration
  <2>3. new \in Subscriptions BY <2>1, <2>2 DEF Subscriptions
  <2>4. EventsTyped' BY <1>3, <2>1, <2>3 DEF WatchInv, EventsTyped
  <2>5. \A e \in Events' : e \in Events \/ e = new BY <1>3, <2>1 DEF Events
  <2>6. \A e \in Events' : Dated(e)' /\ Wanted(e)'
    <3> SUFFICES ASSUME NEW e \in Events' PROVE Dated(e)' /\ Wanted(e)' OBVIOUS
    <3>1. CASE e \in Events
      <4>1. e.generation \in Nat /\ e.generation < generation' /\ generation' \in 0..MaxGenerations BY <2>1, <3>1, Aging
      <4>2. e.generation <= generation' /\ e.generation # generation' BY <4>1, WatchAssumption
      <4> QED BY <4>2 DEF Dated, Wanted
    <3>2. CASE e = new
      <4>1. e.generation = generation' /\ e.list = watch' BY <2>1, <3>2
      <4>2. e.generation <= generation' BY <2>2, <4>1, WatchAssumption
      <4> QED BY <1>3, <4>1, <4>2 DEF Dated, Wanted
    <3> QED BY <2>5, <3>1, <3>2
  <2>7. (\A e \in Events : Dated(e) /\ Wanted(e))' BY <2>6
  <2> QED BY <1>1, <2>4, <2>7 DEF WatchInv
<1> QED BY <1>2, <1>3 DEF Subscribe

LEMMA SubscribedStep == ASSUME WatchInv, Subscribed PROVE WatchInv'
<1>1. handler = "subscribing" /\ handler' = "loop" /\ watch' = watch /\ UNCHANGED <<putting, listener>>
  BY DEF Subscribed
<1>2. CASE subscription' = [list |-> watch, generation |-> generation] /\ told' = watch /\ UNCHANGED <<generation, shown, pushing>>
  <2>1. HandlerTyped' /\ SubscriptionFits' BY <1>1, <1>2 DEF WatchInv, HandlerTyped, SubscriptionFits
  <2>2. EventsTyped' BY <1>1, <1>2 DEF WatchInv, EventsTyped
  <2>3. Events' = Events BY <1>1, <1>2 DEF Events
  <2>4. \A e \in Events : e \in Subscriptions /\ e.generation = generation => e = [list |-> watch, generation |-> generation]
    BY DEF WatchInv, Wanted, Subscriptions
  <2>5. (\A e \in Events : Dated(e) /\ Wanted(e))' BY <1>1, <1>2, <2>3, <2>4 DEF WatchInv, Dated, Wanted
  <2> QED BY <2>1, <2>2, <2>5 DEF WatchInv
<1>3. CASE NextGeneration /\ UNCHANGED <<subscription, told>>
           /\ pushing' \in {pushing, pushing \ {[list |-> watch, generation |-> generation]}}
  <2>1. HandlerTyped' /\ SubscriptionFits'
    BY <1>1, <1>3, WatchAssumption DEF WatchInv, HandlerTyped, SubscriptionFits, NextGeneration
  <2>2. pushing' \subseteq pushing BY <1>3
  <2> QED BY <1>1, <1>3, <2>1, <2>2, Renewed
<1> QED BY <1>2, <1>3 DEF Subscribed

LEMMA EndingStep == ASSUME WatchInv, SourceLost \/ BrowserLeaves PROVE WatchInv'
<1>1. NextGeneration /\ subscription' = NoSub /\ watch' = watch /\ told' = told /\ handler' \in {"loop", "ended"}
  BY DEF SourceLost, BrowserLeaves
<1>2. HandlerTyped' /\ SubscriptionFits'
  BY <1>1, WatchAssumption DEF WatchInv, HandlerTyped, SubscriptionFits, NextGeneration
<1>3. pushing' \subseteq pushing /\ putting' = putting /\ (listener' = listener \/ listener' = <<>>)
  BY DEF SourceLost, BrowserLeaves, Released, NotReleased
<1> QED BY <1>1, <1>2, <1>3, Renewed

LEMMA SendStep == ASSUME WatchInv, Send PROVE WatchInv'
<1>1. listener # <<>> /\ listener' = Tail(listener) /\ UNCHANGED <<pushing, putting>> /\ handler = "loop"
      /\ UNCHANGED <<generation, watch, subscription, handler, told>>
  BY DEF Send
<1>2. EventsTyped'
  BY <1>1 DEF WatchInv, EventsTyped
<1>3. \A n \in 1..Len(listener') : \E m \in 1..Len(listener) : listener'[n] = listener[m]
  BY <1>1 DEF WatchInv, EventsTyped
<1>4. \A e \in Events' : e \in Events
  BY <1>1, <1>3 DEF Events
<1>5. Head(listener) \in Events /\ Head(listener) \in Subscriptions \union {JobEvent}
  BY <1>1 DEF WatchInv, EventsTyped, Events
<1>6. CASE Head(listener) # JobEvent /\ OfThisGeneration(Head(listener))
  <2>1. shown' = Head(listener).list BY <1>6 DEF Send
  <2>2. Head(listener).list = watch /\ subscription = Head(listener)
    BY <1>1, <1>5, <1>6 DEF WatchInv, Wanted, OfThisGeneration
  <2>3. subscription # NoSub BY <1>5, <1>6, <2>2, WatchAssumption DEF Subscriptions, NoSub
  <2>4. SubscriptionFits' BY <1>1, <2>1, <2>2, <2>3 DEF WatchInv, SubscriptionFits
  <2> QED BY <1>1, <1>2, <1>4, <2>4, Kept
<1>7. CASE ~(Head(listener) # JobEvent /\ OfThisGeneration(Head(listener)))
  <2>1. shown' = shown BY <1>7 DEF Send
  <2> QED BY <1>1, <1>2, <1>4, <2>1, Kept
<1> QED BY <1>6, <1>7

LEMMA ThreadsStep == ASSUME WatchInv, Push \/ PutQuote \/ Publish \/ BridgeRestarts PROVE WatchInv'
<1>1. UNCHANGED <<generation, watch, subscription, handler, told, shown>>
  BY DEF Push, PutQuote, Publish, BridgeRestarts
<1>2. CASE Push
  <2>1. EventsTyped' BY <1>2 DEF Push, WatchInv, EventsTyped
  <2>2. \A e \in Events' : e \in Events BY <1>2 DEF Push, Events
  <2> QED BY <1>1, <2>1, <2>2, Kept
<1>3. CASE PutQuote
  <2>1. putting \in Subscriptions /\ Put(putting) /\ putting' = NoSub /\ pushing' = pushing
    BY <1>3 DEF PutQuote, WatchInv, EventsTyped
  <2>2. /\ listener' \in Seq(Subscriptions \union {JobEvent})
        /\ \A n \in 1..Len(listener') : listener'[n] = putting \/ \E m \in 1..Len(listener) : listener'[n] = listener[m]
    BY <2>1, PutEvents DEF WatchInv
  <2>3. EventsTyped' BY <2>1, <2>2 DEF WatchInv, EventsTyped
  <2>4. \A e \in Events' : e \in Events \/ e = NoSub BY <2>1, <2>2 DEF Events
  <2>5. NoSub \notin Subscriptions /\ NoSub.generation = 0 BY DEF NoSub, Subscriptions
  <2>6. Dated(NoSub)' BY <1>1, <2>5, WatchAssumption DEF Dated, WatchInv, HandlerTyped
  <2>7. Wanted(NoSub)' BY <2>5 DEF Wanted
  <2>8. (\A e \in Events : Dated(e) /\ Wanted(e))' BY <1>1, <2>4, <2>6, <2>7 DEF WatchInv, Dated, Wanted
  <2>9. HandlerTyped' /\ SubscriptionFits' BY <1>1 DEF WatchInv, HandlerTyped, SubscriptionFits
  <2> QED BY <2>3, <2>8, <2>9 DEF WatchInv
<1>4. CASE Publish
  <2>1. Put(JobEvent) /\ UNCHANGED <<putting, pushing>> BY <1>4 DEF Publish
  <2>2. /\ listener' \in Seq(Subscriptions \union {JobEvent})
        /\ \A n \in 1..Len(listener') : listener'[n] = JobEvent \/ \E m \in 1..Len(listener) : listener'[n] = listener[m]
    BY <2>1, PutEvents DEF WatchInv
  <2>3. EventsTyped' BY <2>1, <2>2 DEF WatchInv, EventsTyped
  <2>4. \A e \in Events' : e \in Events \/ e = JobEvent BY <2>1, <2>2 DEF Events
  <2>5. JobEvent \notin Subscriptions /\ JobEvent.generation = 0 BY DEF JobEvent, Subscriptions
  <2>6. Dated(JobEvent)' BY <1>1, <2>5, WatchAssumption DEF Dated, WatchInv, HandlerTyped
  <2>7. Wanted(JobEvent)' BY <2>5 DEF Wanted
  <2>8. (\A e \in Events : Dated(e) /\ Wanted(e))' BY <1>1, <2>4, <2>6, <2>7 DEF WatchInv, Dated, Wanted
  <2>9. HandlerTyped' /\ SubscriptionFits' BY <1>1 DEF WatchInv, HandlerTyped, SubscriptionFits
  <2> QED BY <2>3, <2>8, <2>9 DEF WatchInv
<1>5. CASE BridgeRestarts
  <2>1. EventsTyped' BY <1>5 DEF BridgeRestarts, WatchInv, EventsTyped
  <2>2. \A e \in Events' : e \in Events BY <1>5 DEF BridgeRestarts, Events
  <2> QED BY <1>1, <2>1, <2>2, Kept
<1> QED BY <1>2, <1>3, <1>4, <1>5

LEMMA WatchStep == WatchInv /\ [WatchNext]_watchVars => WatchInv'
<1> SUFFICES ASSUME WatchInv, [WatchNext]_watchVars PROVE WatchInv' OBVIOUS
<1>1. CASE WatchNext
  BY <1>1, CommandStep, SubscribeStep, SubscribedStep, EndingStep, SendStep, ThreadsStep DEF WatchNext
<1>2. CASE UNCHANGED watchVars
  <2>1. EventsTyped' BY <1>2 DEF watchVars, WatchInv, EventsTyped
  <2>2. \A e \in Events' : e \in Events BY <1>2 DEF watchVars, Events
  <2> QED BY <1>2, <2>1, <2>2, Kept DEF watchVars
<1> QED BY <1>1, <1>2

(* A browser never gets a quote of a list that it has left: for any lists,
   any size of its queue, and any number of changes, refusals and restarts. *)
THEOREM QuotesAreCurrent == WatchSpec => []QuotesOfCurrentWatch
<1>1. WatchInv => QuotesOfCurrentWatch
  BY DEF WatchInv, SubscriptionFits, QuotesOfCurrentWatch
<1> QED BY <1>1, WatchStarts, WatchStep, PTL DEF WatchSpec

-----------------------------------------------------------------------------
(* The terminal serves no subscription that the bridge has not entered: it *)
(* is entered before it is made and taken out after it is ended, so that   *)
(* an empty list leaves nothing that pushes.                               *)
NativeEntered == native \subseteq subs

LEMMA BridgeStep == NativeEntered /\ [BridgeNext]_bridgeVars => NativeEntered'
<1> SUFFICES ASSUME NativeEntered, [BridgeNext]_bridgeVars PROVE NativeEntered' OBVIOUS
<1> USE DEF NativeEntered
<1>1. CASE UNCHANGED <<subs, native>> BY <1>1
<1>2. CASE Stop BY <1>2 DEF Stop
<1>3. CASE Clean BY <1>3 DEF Clean, Unsubscribed, Refused
<1>4. CASE Serve BY <1>4 DEF Serve, SubscribeQuote, Unsubscribe, Unsubscribed, Refused
<1> QED BY <1>1, <1>2, <1>3, <1>4 DEF BridgeNext, Init, Reconnected, Arrives, Pump, Pumped, bridgeVars

(* A bridge takes up a new connection only when nothing that was subscribed
   over an earlier one pushes any more: for any subscriptions, refusals and
   losses of the connection, also one while it still cleans up
   (market_bridge.py pump, which takes over the generation it read before). *)
THEOREM NothingIsLeftBehind == BridgeSpec => CleanSlate
<1>1. BridgeInit => NativeEntered
  BY DEF BridgeInit, NativeEntered
<1>2. NativeEntered /\ [BridgeNext]_bridgeVars => [seen = "past" /\ seen' = "now" => native = {}]_bridgeVars
  <2> SUFFICES ASSUME NativeEntered, BridgeNext, seen = "past", seen' = "now" PROVE native = {}
    BY DEF bridgeVars
  <2>1. Clean
    BY DEF BridgeNext, Init, Stop, Reconnected, Arrives, Pump, WhileCleaning, Serve, Pumped
  <2> QED BY <2>1 DEF Clean, NativeEntered
<1> QED BY <1>1, <1>2, BridgeStep, PTL DEF BridgeSpec, CleanSlate
-----------------------------------------------------------------------------
(* The hub's handles.  Every pipe it has open is some thread's: of the one *)
(* that reads it, or of one that is about to close it.  What is registered *)
(* has a thread, which takes it off the tables when it ends.               *)

\* What the hub has of a client.
ClientPipesOwned ==
  /\ {rx, tx} \ {NoPipe} \subseteq known
  /\ \A p \in known \union owed : reader[p] # "ended"
  /\ \A p \in open : reader[p] # "ended" \/ p \in closing[p]

ClientTyped ==
  /\ known \subseteq Pipes /\ owed \subseteq Pipes /\ open \subseteq Pipes
  /\ rx \in Rx \union {NoPipe} /\ tx \in Tx \union {NoPipe}
  /\ reader \in [Pipes -> {"reading", "passive", "ended"}]
  /\ closing \in [Threads -> SUBSET Pipes]
  /\ frames \in [Pipes -> Seq({"hello", "request"})]
  /\ \A p \in Rx : frames[p] \in {<<>>, <<"hello">>}

ClientInv == ClientTyped /\ ClientPipesOwned

LEMMA PipesApart == Rx \cap Tx = {} /\ NoPipe \notin Pipes /\ Terminal \notin Pipes
BY DEF Rx, Tx, Pipes, NoPipe, Terminal

\* A drop by a thread whose own pipe, if it has one, ends with it.
LEMMA DropKeeps ==
  ASSUME ClientInv, NEW t \in Threads, NEW p \in Pipes, closing[t] = {}, t = p \/ t = Terminal, Drop(t, p),
         reader' = IF t = p THEN [reader EXCEPT ![p] = "ended"] ELSE reader, open' = open
  PROVE  /\ ClientPipesOwned'
         /\ known' \subseteq Pipes /\ owed' \subseteq Pipes /\ closing' \in [Threads -> SUBSET Pipes]
         /\ rx' \in Rx \union {NoPipe} /\ tx' \in Tx \union {NoPipe}
<1> DEFINE gone == {p} \union (IF p \in known THEN Peers(p) ELSE {})
<1>1. gone \subseteq Pipes /\ p \in gone
  BY DEF Peers, ClientInv, ClientTyped, Pipes
<1>2. /\ rx' = (IF rx \in gone THEN NoPipe ELSE rx) /\ tx' = (IF tx \in gone THEN NoPipe ELSE tx)
      /\ known' = known \ gone /\ owed' = owed \ gone
      /\ closing' = [closing EXCEPT ![t] = IF t = p THEN gone ELSE gone \ {p}]
  BY DEF Drop
<1> HIDE DEF gone
<1>3. closing' \in [Threads -> SUBSET Pipes] BY <1>1, <1>2 DEF ClientInv, ClientTyped
<1>4. {rx', tx'} \ {NoPipe} \subseteq known' BY <1>2 DEF ClientInv, ClientPipesOwned
<1>5. \A q \in known' \union owed' : reader'[q] # "ended"
  BY <1>1, <1>2 DEF ClientInv, ClientPipesOwned, ClientTyped
<1>6. \A q \in open : reader'[q] # "ended" \/ q \in closing'[q]
  BY <1>1, <1>2, PipesApart DEF ClientInv, ClientPipesOwned, ClientTyped, Threads
<1> QED BY <1>2, <1>3, <1>4, <1>5, <1>6 DEF ClientInv, ClientPipesOwned, ClientTyped

\* A pipe that is registered in the place of another one.
LEMMA RememberKeeps ==
  ASSUME ClientInv, NEW p \in Pipes, NEW receive \in BOOLEAN, receive <=> p \in Rx, Remember(p, receive),
         reader[p] = "reading", closing[p] = {}, open' = open,
         reader' = reader \/ reader' = [reader EXCEPT ![p] = "passive"],
         owed' \subseteq owed \union {rx, p}, NoPipe \notin owed'
  PROVE  /\ ClientPipesOwned'
         /\ known' \subseteq Pipes /\ owed' \subseteq Pipes /\ closing' \in [Threads -> SUBSET Pipes]
         /\ rx' \in Rx \union {NoPipe} /\ tx' \in Tx \union {NoPipe}
         /\ reader' \in [Pipes -> {"reading", "passive", "ended"}]
<1> DEFINE old == IF receive THEN rx ELSE tx
<1>1. old \in Pipes \union {NoPipe} /\ (receive => p \in Rx) /\ (~receive => p \in Tx)
  BY DEF ClientInv, ClientTyped, Pipes
<1>2. /\ rx' = (IF receive THEN p ELSE rx) /\ tx' = (IF receive THEN tx ELSE p)
      /\ known' = (IF old = p THEN known ELSE known \ {old}) \union {p}
      /\ closing' = [closing EXCEPT ![p] = {old} \ {p, NoPipe}]
  BY DEF Remember, Replacing, Detach
<1>3. \A q \in Pipes : reader'[q] = "ended" => reader[q] = "ended" /\ q # p
  BY DEF ClientInv, ClientTyped
<1>4. /\ rx' \in Rx \union {NoPipe} /\ tx' \in Tx \union {NoPipe} /\ known' \subseteq Pipes
      /\ closing' \in [Threads -> SUBSET Pipes] /\ reader' \in [Pipes -> {"reading", "passive", "ended"}]
  <2> HIDE DEF old
  <2>1. rx' \in Rx \union {NoPipe} /\ tx' \in Tx \union {NoPipe} BY <1>1, <1>2 DEF ClientInv, ClientTyped
  <2>2. known' \subseteq Pipes BY <1>2 DEF ClientInv, ClientTyped
  <2>3. {old} \ {p, NoPipe} \in SUBSET Pipes BY <1>1
  <2>4. closing' \in [Threads -> SUBSET Pipes] BY <1>2, <2>3 DEF ClientInv, ClientTyped
  <2>5. reader' \in [Pipes -> {"reading", "passive", "ended"}] BY DEF ClientInv, ClientTyped
  <2> QED BY <2>1, <2>2, <2>4, <2>5
<1>5. {rx', tx'} \ {NoPipe} \subseteq known'
  BY <1>1, <1>2, PipesApart DEF ClientInv, ClientPipesOwned, ClientTyped
<1>6. owed' \subseteq Pipes /\ \A q \in owed' : q \in owed \union known \union {p}
  BY DEF ClientInv, ClientPipesOwned, ClientTyped, Pipes
<1>7. \A q \in known' \union owed' : reader'[q] # "ended"
  <2>1. \A q \in known' \union owed' : q \in Pipes /\ (q = p \/ q \in known \union owed) BY <1>2, <1>4, <1>6
  <2> QED BY <1>3, <2>1 DEF ClientInv, ClientPipesOwned
<1>8. \A q \in open : reader'[q] # "ended" \/ q \in closing'[q]
  <2>1. \A q \in Pipes : q # p => closing'[q] = closing[q] BY <1>2 DEF ClientInv, ClientTyped, Threads
  <2> QED BY <1>3, <2>1 DEF ClientInv, ClientPipesOwned, ClientTyped
<1> QED BY <1>4, <1>5, <1>6, <1>7, <1>8 DEF ClientPipesOwned

LEMMA ClientsStep == ClientInv /\ [ClientsNext]_clientVars => ClientInv'
<1> SUFFICES ASSUME ClientInv, [ClientsNext]_clientVars PROVE ClientInv'
  OBVIOUS
<1>0. \A k : Ends(k) \subseteq Pipes BY DEF Ends
<1>1. CASE Connect
  <2>1. PICK k : k = CHOOSE i \in Pairs : Free(i) OBVIOUS
  <2>2. /\ open' = open \union Ends(k)
        /\ frames' = [p \in Pipes |-> IF p \in Ends(k) THEN <<"hello">> ELSE frames[p]]
        /\ reader' = [p \in Pipes |-> IF p \in Ends(k) THEN "reading" ELSE reader[p]]
        /\ UNCHANGED <<closing, rx, tx, known, owed>>
    BY <1>1, <2>1 DEF Connect
  <2>3. ClientTyped'
    <3>1. <<"hello">> \in Seq({"hello", "request"}) OBVIOUS
    <3>2. /\ \A p \in Pipes : frames'[p] \in Seq({"hello", "request"})
          /\ \A p \in Rx : frames'[p] \in {<<>>, <<"hello">>}
      BY <2>2, <3>1 DEF ClientInv, ClientTyped, Pipes
    <3>3. frames' \in [Pipes -> Seq({"hello", "request"})] /\ reader' \in [Pipes -> {"reading", "passive", "ended"}]
      BY <2>2, <3>2 DEF ClientInv, ClientTyped
    <3> QED BY <1>0, <2>2, <3>2, <3>3 DEF ClientInv, ClientTyped
  <2>4. ClientPipesOwned' BY <1>0, <2>2 DEF ClientInv, ClientTyped, ClientPipesOwned
  <2> QED BY <2>3, <2>4 DEF ClientInv
<1>2. CASE Call
  <2>1. PICK p \in Tx : frames' = [frames EXCEPT ![p] = Append(frames[p], "request")]
    BY <1>2 DEF Call
  <2>2. UNCHANGED <<open, reader, closing, rx, tx, known, owed>> BY <1>2 DEF Call
  <2>3. p \in Pipes /\ p \notin Rx BY PipesApart DEF Pipes
  <2>4. Append(frames[p], "request") \in Seq({"hello", "request"}) BY <2>3 DEF ClientInv, ClientTyped
  <2>5. ClientTyped' BY <2>1, <2>2, <2>3, <2>4 DEF ClientInv, ClientTyped, Pipes
  <2> QED BY <2>2, <2>5 DEF ClientInv, ClientPipesOwned
<1>3. CASE ClientNotices \/ ClientBreaks \/ UNCHANGED clientVars
  <2>1. UNCHANGED <<open, frames, reader, closing, rx, tx, known, owed>>
    BY <1>3 DEF ClientNotices, ClientBreaks, Disconnected, clientVars
  <2> QED BY <2>1 DEF ClientInv, ClientTyped, ClientPipesOwned
<1>4. ASSUME NEW p \in Pipes, Hello(p) \/ Request(p) PROVE ClientInv'
  <2>1. /\ reader[p] = "reading" /\ closing[p] = {} /\ frames[p] # <<>> /\ open' = open
        /\ frames' = [frames EXCEPT ![p] = Tail(frames[p])]
    BY <1>4 DEF Hello, Request, Reads
  <2>2. Tail(frames[p]) \in Seq({"hello", "request"}) /\ (p \in Rx => frames[p] = <<"hello">> /\ Tail(frames[p]) = <<>>)
    BY <2>1 DEF ClientInv, ClientTyped
  <2>3. /\ frames' \in [Pipes -> Seq({"hello", "request"})]
        /\ \A q \in Rx : frames'[q] \in {<<>>, <<"hello">>}
    BY <2>1, <2>2 DEF ClientInv, ClientTyped, Pipes
  <2>4. PICK receive \in BOOLEAN :
          /\ receive <=> p \in Rx
          /\ Remember(p, receive)
          /\ reader' = reader \/ reader' = [reader EXCEPT ![p] = "passive"]
          /\ owed' \subseteq owed \union {rx, p} /\ NoPipe \notin owed'
    <3>1. NoPipe \notin owed BY PipesApart DEF ClientInv, ClientTyped
    <3>2. CASE Hello(p)
      <4>1. reader[p] = "reading" => [reader EXCEPT ![p] = "reading"] = reader BY DEF ClientInv, ClientTyped
      <4>2. Remember(p, p \in Rx) /\ UNCHANGED owed /\ (p \in Rx) \in BOOLEAN BY <3>2 DEF Hello
      <4>3. reader' = reader \/ reader' = [reader EXCEPT ![p] = "passive"] BY <2>1, <3>2, <4>1 DEF Hello
      <4>4. owed' \subseteq owed \union {rx, p} /\ NoPipe \notin owed' BY <3>1, <4>2
      <4>5. (p \in Rx <=> p \in Rx) OBVIOUS
      <4> QED BY <4>2, <4>3, <4>4, <4>5, Zenon
    <3>3. CASE Request(p)
      <4>1. p \notin Rx
        <5>1. Head(<<"hello">>) = "hello" OBVIOUS
        <5> QED BY <2>2, <3>3, <5>1 DEF Request
      <4> QED BY <3>1, <3>3, <4>1, PipesApart DEF Request
    <3> QED BY <1>4, <3>2, <3>3
  <2> QED BY <2>1, <2>3, <2>4, RememberKeeps DEF ClientInv, ClientTyped
<1>5. ASSUME NEW p \in Pipes, Ended(p) PROVE ClientInv'
  <2>1. /\ closing[p] = {} /\ reader' = [reader EXCEPT ![p] = "ended"] /\ frames' = [frames EXCEPT ![p] = <<>>]
        /\ Drop(p, p) /\ open' = open
    BY <1>5 DEF Ended
  <2>2. <<>> \in Seq({"hello", "request"}) /\ p \in Threads BY DEF Threads
  <2>3. /\ frames' \in [Pipes -> Seq({"hello", "request"})] /\ reader' \in [Pipes -> {"reading", "passive", "ended"}]
        /\ \A q \in Rx : frames'[q] \in {<<>>, <<"hello">>}
    BY <2>1, <2>2 DEF ClientInv, ClientTyped, Pipes
  <2> QED BY <2>1, <2>2, <2>3, DropKeeps DEF ClientInv, ClientTyped
<1>6. ASSUME NEW t \in Threads, Close(t) PROVE ClientInv'
  <2>1. /\ open' = open \ closing[t] /\ closing' = [closing EXCEPT ![t] = {}]
        /\ UNCHANGED <<frames, reader, rx, tx, known, owed>>
    BY <1>6 DEF Close
  <2>2. ClientTyped' BY <2>1 DEF ClientInv, ClientTyped
  <2>3. ClientPipesOwned' BY <2>1 DEF ClientInv, ClientTyped, ClientPipesOwned, Threads
  <2> QED BY <2>2, <2>3 DEF ClientInv
<1>7. CASE Answer
  <2>1. closing[Terminal] = {} /\ UNCHANGED <<open, frames, reader>> /\ Terminal \in Threads
    BY <1>7 DEF Answer, Threads
  <2>2. PICK p \in owed : \/ owed' = owed \ {p} /\ UNCHANGED <<closing, rx, tx, known>>
                          \/ Drop(Terminal, p)
    BY <1>7 DEF Answer
  <2>3. p \in Pipes /\ Terminal # p BY PipesApart DEF ClientInv, ClientTyped
  <2>4. CASE Drop(Terminal, p) BY <2>1, <2>3, <2>4, DropKeeps DEF ClientInv, ClientTyped
  <2>5. CASE owed' = owed \ {p} /\ UNCHANGED <<closing, rx, tx, known>>
    BY <2>1, <2>5 DEF ClientInv, ClientTyped, ClientPipesOwned
  <2> QED BY <2>2, <2>4, <2>5
<1> QED BY <1>1, <1>2, <1>3, <1>4, <1>5, <1>6, <1>7 DEF ClientsNext

(* However often clients connect, break off and come back, and whatever order the
   hub reads their pipes in: a pipe it has registered, or on which an answer is
   due, has its thread, which takes it off when it ends; and it has no handle open
   that no thread is going to close (pipe_hub.py _remember_client, _drop_conn). *)
THEOREM ClientHandlesHaveOwners == ClientsSpec => []ClientPipesOwned
<1>1. ASSUME ClientsInit PROVE ClientInv
  <2>1. <<>> \in Seq({"hello", "request"}) /\ \A p \in Rx : p \in Pipes BY DEF Pipes
  <2>2. frames \in [Pipes -> Seq({"hello", "request"})] /\ \A p \in Rx : frames[p] = <<>>
    BY <1>1, <2>1 DEF ClientsInit
  <2> QED BY <1>1, <2>2 DEF ClientsInit, ClientInv, ClientTyped, ClientPipesOwned
<1>2. ClientInv => ClientPipesOwned BY DEF ClientInv
<1> QED BY <1>1, <1>2, ClientsStep, PTL DEF ClientsSpec
\* What it has of the terminal.
TerminalPipesOwned ==
  /\ {hubRx, hubTx} \ {None} \subseteq hubKnown
  /\ \A p \in hubKnown : thread[p] # "ended" \/ p \in dropping[p]
  /\ \A p \in hubOpen : thread[p] # "ended" \/ p \in dropping[p] \union hubClosing[p]

TerminalTyped ==
  /\ hubKnown \subseteq TPipes /\ hubOpen \subseteq TPipes
  /\ hubRx \in TPipes \union {None} /\ hubTx \in TPipes \union {None}
  /\ thread \in [TPipes -> {"reading", "registered", "passive", "ended"}]
  /\ dropping \in [TThreads -> SUBSET TPipes] /\ hubClosing \in [TThreads -> SUBSET TPipes]
  /\ loop.at = "half" => loop.pair \in TPairs

TerminalInv == TerminalTyped /\ TerminalPipesOwned

LEMMA ThreadsApart == None \notin TPipes /\ HubThread \notin TPipes /\ HubThread \in TThreads /\ TPipes \subseteq TThreads
BY DEF TRx, TTx, TPipes, None, HubThread, TThreads

LEMMA OpensKeeps ==
  ASSUME TerminalInv, NEW p \in TPipes, Opens(p), loop'.at = "half" => loop'.pair \in TPairs
  PROVE  TerminalInv'
<1>1. /\ hubOpen' = hubOpen \union {p} /\ thread' = [thread EXCEPT ![p] = "reading"]
      /\ UNCHANGED <<dropping, hubClosing, hubRx, hubTx, hubKnown>>
  BY DEF Opens
<1>2. TerminalTyped' BY <1>1 DEF TerminalInv, TerminalTyped
<1>3. TerminalPipesOwned' BY <1>1 DEF TerminalInv, TerminalTyped, TerminalPipesOwned
<1> QED BY <1>2, <1>3 DEF TerminalInv

LEMMA LinkStep == TerminalInv /\ [LinkNext]_linkVars => TerminalInv'
<1> SUFFICES ASSUME TerminalInv, [LinkNext]_linkVars PROVE TerminalInv'
  OBVIOUS
<1>1. CASE OpenRx
  <2>1. PICK k : k = CHOOSE i \in TPairs : Unused(i) OBVIOUS
  <2>2. k \in TPairs BY <1>1, <2>1 DEF OpenRx
  <2>3. loop' = [at |-> "half", pair |-> k] /\ Opens([pair |-> k, end |-> "rx"]) BY <1>1, <2>1 DEF OpenRx
  <2>4. [pair |-> k, end |-> "rx"] \in TPipes BY <2>2 DEF TPipes, TRx
  <2> QED BY <2>2, <2>3, <2>4, OpensKeeps
<1>2. CASE OpenTx
  <2>1. PICK k \in TPairs : k = loop.pair BY <1>2 DEF OpenTx, TerminalInv, TerminalTyped
  <2>2. Opens([pair |-> k, end |-> "tx"]) /\ loop' = [loop EXCEPT !.at = "reading"] /\ loop.at = "half"
    BY <1>2, <2>1 DEF OpenTx
  <2>3. loop'.at # "half" \/ loop' = loop BY <2>2
  <2>4. [pair |-> k, end |-> "tx"] \in TPipes BY DEF TPipes, TTx
  <2> QED BY <2>2, <2>3, <2>4, OpensKeeps DEF TerminalInv, TerminalTyped
<1>3. CASE ReadEnds \/ WriteFails \/ PipeFails \/ StopAndInit \/ UNCHANGED linkVars
  <2>1. UNCHANGED <<hubOpen, hello, thread, dropping, hubClosing, hubRx, hubTx, hubKnown>>
    BY <1>3 DEF ReadEnds, WriteFails, PipeFails, StopAndInit, linkVars, hubVars
  <2>2. loop' = loop \/ loop'.at # "half" BY <1>3 DEF ReadEnds, WriteFails, PipeFails, StopAndInit, linkVars
  <2> QED BY <2>1, <2>2 DEF TerminalInv, TerminalTyped, TerminalPipesOwned
<1>4. ASSUME NEW p \in TPipes, HelloQmt(p) PROVE TerminalInv'
  <2>1. PICK old \in TPipes \union {None} : dropping' = [dropping EXCEPT ![p] = {old} \ {None}]
    BY <1>4 DEF HelloQmt, Replaced, TerminalInv, TerminalTyped
  <2>2. PICK s \in {"passive", "registered"} : thread' = [thread EXCEPT ![p] = s]
    BY <1>4 DEF HelloQmt
  <2>3. /\ hubRx' \in {p, hubRx} /\ hubTx' \in {p, hubTx} /\ hubKnown' = hubKnown \union {p}
        /\ UNCHANGED <<hubOpen, hubClosing, loop>>
    BY <1>4 DEF HelloQmt
  <2>4. TerminalTyped' BY <2>1, <2>2, <2>3 DEF TerminalInv, TerminalTyped
  <2>5. TerminalPipesOwned'
    BY <2>1, <2>2, <2>3, ThreadsApart DEF TerminalInv, TerminalTyped, TerminalPipesOwned
  <2> QED BY <2>4, <2>5 DEF TerminalInv
<1>5. ASSUME NEW p \in TPipes, ThreadEnds(p) PROVE TerminalInv'
  <2>1. /\ thread' = [thread EXCEPT ![p] = "ended"] /\ dropping' = [dropping EXCEPT ![p] = {p}]
        /\ UNCHANGED <<hubOpen, hubClosing, hubRx, hubTx, hubKnown, loop>>
    BY <1>5 DEF ThreadEnds
  <2>2. TerminalTyped' BY <2>1 DEF TerminalInv, TerminalTyped
  <2>3. TerminalPipesOwned' BY <2>1, ThreadsApart DEF TerminalInv, TerminalTyped, TerminalPipesOwned
  <2> QED BY <2>2, <2>3 DEF TerminalInv
<1>6. ASSUME NEW t \in TThreads, DropConn(t) PROVE TerminalInv'
  <2>1. PICK p \in dropping[t] :
          /\ DetachQmt({p} \union PairPeers(p)) /\ dropping' = [dropping EXCEPT ![t] = dropping[t] \ {p}]
          /\ hubClosing' = [hubClosing EXCEPT ![t] = (({p} \union PairPeers(p)) \intersect hubKnown)
                                                     \union (IF t = p THEN {p} ELSE {})]
    BY <1>6 DEF DropConn
  <2>2. PICK gone : gone = {p} \union PairPeers(p) OBVIOUS
  <2>3. /\ hubRx' = (IF hubRx \in gone THEN None ELSE hubRx) /\ hubTx' = (IF hubTx \in gone THEN None ELSE hubTx)
        /\ hubKnown' = hubKnown \ gone
        /\ hubClosing' = [hubClosing EXCEPT ![t] = (gone \intersect hubKnown) \union (IF t = p THEN {p} ELSE {})]
    BY <2>1, <2>2 DEF DetachQmt
  <2>4. UNCHANGED <<hubOpen, thread, loop>> /\ hubClosing[t] = {} BY <1>6 DEF DropConn
  <2>5. p \in TPipes /\ p \in gone BY <2>2 DEF TerminalInv, TerminalTyped
  <2>6. TerminalTyped'
    <3>1. (gone \intersect hubKnown) \union (IF t = p THEN {p} ELSE {}) \in SUBSET TPipes
      BY <2>5 DEF TerminalInv, TerminalTyped
    <3>2. hubClosing' \in [TThreads -> SUBSET TPipes] BY <2>3, <3>1 DEF TerminalInv, TerminalTyped
    <3>3. dropping' \in [TThreads -> SUBSET TPipes] BY <2>1 DEF TerminalInv, TerminalTyped
    <3> QED BY <2>3, <2>4, <3>2, <3>3 DEF TerminalInv, TerminalTyped
  <2>7. {hubRx', hubTx'} \ {None} \subseteq hubKnown' BY <2>3 DEF TerminalInv, TerminalPipesOwned
  <2>8. ASSUME NEW q \in TPipes, q # p PROVE q \in dropping[q] => q \in dropping'[q]
    BY <2>1, <2>8, ThreadsApart DEF TerminalInv, TerminalTyped
  <2>9. ASSUME NEW q \in TPipes, q # p PROVE q \in hubClosing[q] => q \in hubClosing'[q]
    BY <2>3, <2>4, ThreadsApart DEF TerminalInv, TerminalTyped
  <2>10. \A q \in hubKnown' : thread'[q] # "ended" \/ q \in dropping'[q]
    BY <2>3, <2>4, <2>5, <2>8 DEF TerminalInv, TerminalTyped, TerminalPipesOwned
  <2>11. \A q \in hubOpen' : thread'[q] # "ended" \/ q \in dropping'[q] \union hubClosing'[q]
    <3>1. ASSUME NEW q \in hubOpen, q # p, thread[q] = "ended" PROVE q \in dropping'[q] \union hubClosing'[q]
      BY <2>8, <2>9, <3>1 DEF TerminalInv, TerminalTyped, TerminalPipesOwned
    <3>2. ASSUME p \in hubOpen, thread[p] = "ended" PROVE p \in dropping'[p] \union hubClosing'[p]
      <4>1. CASE t = p BY <2>3, <4>1 DEF TerminalInv, TerminalTyped
      <4>2. CASE t # p
        <5>1. dropping'[p] = dropping[p] /\ hubClosing'[p] = hubClosing[p]
          BY <2>1, <2>3, <2>5, <4>2, ThreadsApart DEF TerminalInv, TerminalTyped
        <5> QED BY <3>2, <5>1 DEF TerminalInv, TerminalPipesOwned
      <4> QED BY <4>1, <4>2
    <3> QED BY <2>4, <3>1, <3>2
  <2> QED BY <2>6, <2>7, <2>10, <2>11 DEF TerminalInv, TerminalPipesOwned
<1>7. ASSUME NEW t \in TThreads, CloseConns(t) PROVE TerminalInv'
  <2>1. /\ hubOpen' = hubOpen \ hubClosing[t] /\ hubClosing' = [hubClosing EXCEPT ![t] = {}]
        /\ UNCHANGED <<loop, thread, dropping, hubRx, hubTx, hubKnown>>
    BY <1>7 DEF CloseConns
  <2>2. TerminalTyped' BY <2>1 DEF TerminalInv, TerminalTyped
  <2>3. TerminalPipesOwned' BY <2>1, ThreadsApart DEF TerminalInv, TerminalTyped, TerminalPipesOwned
  <2> QED BY <2>2, <2>3 DEF TerminalInv
<1>8. CASE ForwardFails \/ Stale
  <2>1. PICK p \in {hubRx, hubTx} : p # None /\ dropping' = [dropping EXCEPT ![HubThread] = {p}]
    BY <1>8 DEF ForwardFails, Stale
  <2>2. UNCHANGED <<loop, hubOpen, thread, hubClosing, hubRx, hubTx, hubKnown>> BY <1>8 DEF ForwardFails, Stale
  <2>3. p \in TPipes BY <2>1 DEF TerminalInv, TerminalTyped
  <2>4. TerminalTyped' BY <2>1, <2>2, <2>3 DEF TerminalInv, TerminalTyped
  <2>5. \A q \in TPipes : dropping'[q] = dropping[q] BY <2>1, ThreadsApart DEF TerminalInv, TerminalTyped
  <2>6. TerminalPipesOwned' BY <2>2, <2>5 DEF TerminalInv, TerminalTyped, TerminalPipesOwned
  <2> QED BY <2>4, <2>6 DEF TerminalInv
<1>9. CASE HubRestarts
  <2>1. /\ hubOpen' = {} /\ hubRx' = None /\ hubTx' = None /\ hubKnown' = {} /\ UNCHANGED loop
        /\ thread' = [p \in TPipes |-> "ended"]
        /\ dropping' = [t \in TThreads |-> {}] /\ hubClosing' = [t \in TThreads |-> {}]
    BY <1>9 DEF HubRestarts
  <2> QED BY <2>1 DEF TerminalInv, TerminalTyped, TerminalPipesOwned
<1> QED BY <1>1, <1>2, <1>3, <1>4, <1>5, <1>6, <1>7, <1>8, <1>9 DEF LinkNext

(* The same of the terminal's pipes, whatever is lost, replaced, dropped with
   another pipe or restarted: what is registered has a thread that will drop it,
   and no handle is left open that no thread is going to close (pipe_hub.py
   _handle_hello, _drop_conn, _qmt_pair_peers_locked). *)
THEOREM TerminalHandlesHaveOwners == LinkSpec => []TerminalPipesOwned
<1>1. LinkInit => TerminalInv
  BY DEF LinkInit, TerminalInv, TerminalTyped, TerminalPipesOwned
<1>2. TerminalInv => TerminalPipesOwned BY DEF TerminalInv
<1> QED BY <1>1, <1>2, LinkStep, PTL DEF LinkSpec
=============================================================================
