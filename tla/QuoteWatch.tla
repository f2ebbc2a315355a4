----------------------------- MODULE QuoteWatch -----------------------------
(***************************************************************************)
(* What a browser gets over its WebSocket (server.py): a thread takes its  *)
(* commands, subscribes for it and sends what a queue holds.  Quotes come  *)
(* into that queue from the thread that reads the hub's answers, and from  *)
(* subscriptions that are being made, replaced, kept after a refusal, or   *)
(* forgotten.                                                              *)
(***************************************************************************)
EXTENDS Naturals, Sequences

CONSTANTS
  Lists,           \* lists of securities to watch
  MaxGenerations,  \* bound: of watch_generation
  MaxQueue         \* size of the queue (200)

ASSUME WatchAssumption == "none" \notin Lists /\ MaxGenerations \in Nat

VARIABLES
  generation,   \* watch_generation
  watch,        \* the list the browser asked for, "none" for none
  subscription, \* the handler's subscription
  handler,      \* where the thread is: in its loop, in a call that subscribes, at its end
  told,         \* the list in the last event that confirms a watch
  shown,        \* the list of the quotes sent since the last change of the watch or its source
  pushing,       \* subscriptions that push
  putting,      \* a callback that has found its generation to be the current one
  listener      \* the queue

watchVars == <<generation, watch, subscription, handler, told, shown, pushing, putting, listener>>

Subscriptions == [list : Lists, generation : 1..MaxGenerations]
NoSub == [list |-> "none", generation |-> 0]
JobEvent == [list |-> "job", generation |-> 0]

WatchInit ==
  /\ generation = 0 /\ watch = "none" /\ subscription = NoSub /\ handler = "loop"
  /\ told = "none" /\ shown = "none"
  /\ pushing = {} /\ putting = NoSub /\ listener = <<>>

-----------------------------------------------------------------------------
(* The handler.                                                            *)

NextGeneration == generation < MaxGenerations /\ generation' = generation + 1 /\ shown' = "none"

\* release_subscription: afterwards the terminal does not push, though a failed call may have had its effect.
Released == pushing' = pushing \ {subscription}
NotReleased == subscription # NoSub /\ pushing' \in {pushing, pushing \ {subscription}}

\* watch, or unwatch: the old subscription first, and nothing changes when it cannot be released.
Command(list) ==
  /\ handler = "loop"
  /\ \/ /\ Released /\ NextGeneration
        /\ watch' = list /\ subscription' = NoSub
        /\ told' = IF list = "none" THEN "none" ELSE told
     \/ /\ NotReleased
        /\ told' = watch
        /\ UNCHANGED <<generation, watch, subscription, shown>>
  /\ UNCHANGED <<handler, putting, listener>>

\* Every five seconds, when there is no subscription; quotes may come before the call returns.
Subscribe ==
  /\ handler = "loop" /\ watch # "none" /\ subscription = NoSub
  /\ NextGeneration
  /\ \/ pushing' = pushing \union {[list |-> watch, generation |-> generation']} /\ handler' = "subscribing"
     \/ UNCHANGED <<pushing, handler>>
  /\ UNCHANGED <<watch, subscription, told, putting, listener>>

Subscribed ==
  /\ handler = "subscribing" /\ handler' = "loop"
  /\ \/ /\ subscription' = [list |-> watch, generation |-> generation]
        /\ told' = watch
        /\ UNCHANGED <<generation, shown, pushing>>
     \/ /\ NextGeneration
        /\ pushing' \in {pushing, pushing \ {[list |-> watch, generation |-> generation]}}
        /\ UNCHANGED <<subscription, told>>
  /\ UNCHANGED <<watch, putting, listener>>

\* Every fifteen seconds: another bridge answers, or none; the old subscription is forgotten even if it cannot be released.
SourceLost ==
  /\ handler = "loop" /\ subscription # NoSub
  /\ NextGeneration
  /\ Released \/ NotReleased
  /\ subscription' = NoSub
  /\ UNCHANGED <<watch, handler, told, putting, listener>>

AnyQuote(event) == TRUE  \* mutant of OfThisGeneration
OfThisGeneration(event) == event.generation = generation

Send ==
  /\ handler = "loop" /\ listener # <<>>
  /\ listener' = Tail(listener)
  /\ shown' = IF Head(listener) # JobEvent /\ OfThisGeneration(Head(listener)) THEN Head(listener).list ELSE shown
  /\ UNCHANGED <<generation, watch, subscription, handler, told, pushing, putting>>

\* The browser is gone.
BrowserLeaves ==
  /\ handler = "loop" /\ NextGeneration
  /\ handler' = "ended" /\ subscription' = NoSub /\ listener' = <<>>
  /\ Released \/ NotReleased
  /\ UNCHANGED <<watch, told, putting>>

-----------------------------------------------------------------------------
(* The threads that put into the queue; what does not fit is lost.         *)

Put(event) == listener' = IF Len(listener) < MaxQueue /\ handler # "ended" THEN Append(listener, event) ELSE listener

Push ==
  /\ putting = NoSub
  /\ \E n \in pushing : OfThisGeneration(n) /\ putting' = n
  /\ UNCHANGED <<generation, watch, subscription, handler, told, shown, pushing, listener>>

PutQuote ==
  /\ putting # NoSub /\ Put(putting) /\ putting' = NoSub
  /\ UNCHANGED <<generation, watch, subscription, handler, told, shown, pushing>>

Publish ==
  /\ Put(JobEvent)
  /\ UNCHANGED <<generation, watch, subscription, handler, told, shown, pushing, putting>>

\* The terminal or its bridge starts again and knows no subscription.
BridgeRestarts ==
  /\ pushing # {} /\ pushing' = {}
  /\ UNCHANGED <<generation, watch, subscription, handler, told, shown, putting, listener>>

WatchNext ==
  \/ \E list \in Lists \union {"none"} : Command(list)
  \/ Subscribe \/ Subscribed \/ SourceLost \/ Send \/ BrowserLeaves
  \/ Push \/ PutQuote \/ Publish \/ BridgeRestarts

WatchSpec == WatchInit /\ [][WatchNext]_watchVars

(***************************************************************************)
(* A browser never gets a quote of a list that it has left: the quotes it  *)
(* gets after a change, a stop or a loss of the source are of the          *)
(* subscription made since, which it has been told of.                     *)
(***************************************************************************)
QuotesOfCurrentWatch ==
  shown # "none" => shown = watch /\ shown = told /\ shown = subscription.list
=============================================================================
