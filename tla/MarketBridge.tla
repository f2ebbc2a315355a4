---------------------------- MODULE MarketBridge ----------------------------
(***************************************************************************)
(* The bridge that runs in the terminal (market_bridge.py, PFOR_MARKET.py):*)
(* the terminal's timer and its bars pump it, and a pump executes requests *)
(* from the queue that the connection's thread fills.  A request may have  *)
(* been read from a connection that is over, and the subscriptions of that *)
(* one are nobody's any more.                                              *)
(*                                                                         *)
(* Calls into the strategy (timer, handlebar, init, stop) come on one      *)
(* thread.  What the connection does is in TerminalLink.                   *)
(***************************************************************************)
EXTENDS Naturals, Sequences

CONSTANTS
  Quotes,        \* subscription ids
  MaxStarts,     \* bound: bridges, one after another
  MaxRefusals,   \* bound: unsubscriptions that the terminal refuses
  MaxInbox       \* bound: requests in the queue

\* mine: from the client that subscribed; the id of a subscription is only known once there is one.
Requests == [do : {"unsubscribe"}, id : Quotes, mine : BOOLEAN] \union [do : {"subscribe"}]

VARIABLES
  starts, refusals,  \* what the bounds count
  scheduled,  \* the timer is set
  inbox,      \* the connection's queue
  seen,       \* self.generation against connection_generation: never (both 0), first (self is 0), past, now
  pump,       \* where the strategy's thread is, and whether the generation it has read is still the connection's
  subs,       \* self.subscriptions
  native      \* subscriptions that the terminal serves

bridgeVars == <<starts, refusals, scheduled, inbox, seen, pump, subs, native>>

Out == [at |-> "idle", current |-> FALSE]

BridgeInit ==
  /\ starts = 0 /\ refusals = 0 /\ scheduled = FALSE /\ inbox = <<>>
  /\ seen = "stopped" /\ pump = Out /\ subs = {} /\ native = {}

\* init and after_init make one bridge and set one timer, which may not be there.
Init ==
  /\ pump = Out /\ (seen = "stopped" \/ ~scheduled) /\ starts < MaxStarts /\ starts' = starts + 1
  /\ seen' = IF seen = "stopped" THEN "never" ELSE seen
  /\ scheduled' \in BOOLEAN
  /\ UNCHANGED <<refusals, inbox, pump, subs, native>>

\* Whatever fails to unsubscribe then pushes to a bridge whose pipes are closed.
Stop ==
  /\ pump = Out /\ seen # "stopped"
  /\ seen' = "stopped" /\ scheduled' = FALSE /\ inbox' = <<>> /\ subs' = {} /\ native' = {}
  /\ UNCHANGED <<starts, refusals, pump>>

Reconnected ==
  /\ seen # "stopped"
  /\ seen' = CASE seen = "never" -> "first" [] seen = "now" -> "past" [] OTHER -> seen
  /\ pump' = [pump EXCEPT !.current = FALSE]
  /\ UNCHANGED <<starts, refusals, scheduled, inbox, subs, native>>

Arrives(r) ==
  /\ seen \notin {"stopped", "never"} /\ Len(inbox) < MaxInbox
  /\ inbox' = Append(inbox, r)
  /\ UNCHANGED <<starts, refusals, scheduled, seen, pump, subs, native>>

(***************************************************************************)
(* pump                                                                    *)
(***************************************************************************)
TakenUpAtOnce == "now"  \* mutant of WhileCleaning
WhileCleaning == "past"

\* The generation is compared once, at the beginning.
Pump ==
  /\ pump = Out /\ seen \notin {"stopped", "never"}
  /\ pump' = [at |-> IF seen = "past" THEN "cleaning" ELSE "serving", current |-> TRUE]
  /\ seen' = IF seen = "past" THEN WhileCleaning ELSE "now"
  /\ UNCHANGED <<starts, refusals, scheduled, inbox, subs, native>>

Unsubscribed(s) == subs' = subs \ {s} /\ native' = native \ {s} /\ UNCHANGED refusals

\* It stays entered, to be tried again.
Refused(s) == s \in native /\ refusals < MaxRefusals /\ refusals' = refusals + 1 /\ UNCHANGED <<subs, native>>

\* A refusal is an exception: this pump is over, and the next one begins again.
Clean ==
  /\ pump.at = "cleaning"
  /\ \/ \E s \in subs : Unsubscribed(s) /\ UNCHANGED <<pump, seen>>
     \/ \E s \in subs : Refused(s) /\ pump' = Out /\ UNCHANGED seen
     \/ /\ subs = {}
        /\ pump' = [pump EXCEPT !.at = "serving"]
        /\ seen' = IF pump.current THEN "now" ELSE "past"
        /\ UNCHANGED <<refusals, subs, native>>
  /\ UNCHANGED <<starts, scheduled, inbox>>

\* It is entered first, so that the first packet finds it, and taken out again when the terminal rejects it.
SubscribeQuote ==
  /\ \/ \E s \in Quotes \ subs : subs' = subs \union {s} /\ native' = native \union {s}
     \/ UNCHANGED <<subs, native>>
  /\ UNCHANGED refusals

Unsubscribe(r) ==
  \/ r.id \in subs /\ r.mine /\ (Unsubscribed(r.id) \/ Refused(r.id))
  \/ ~(r.id \in subs /\ r.mine) /\ UNCHANGED <<subs, native, refusals>>

\* An exception of one request is its answer.
Serve ==
  /\ pump.at \in {"serving", "served"} /\ inbox # <<>>
  /\ inbox' = Tail(inbox) /\ pump' = [pump EXCEPT !.at = "served"]
  /\ LET r == Head(inbox) IN
       (r.do = "subscribe" /\ SubscribeQuote) \/ (r.do = "unsubscribe" /\ Unsubscribe(r))
  /\ UNCHANGED <<starts, scheduled, seen>>

\* Enough requests for one pump, or none left.
Pumped ==
  /\ pump.at = "served" \/ (pump.at = "serving" /\ inbox = <<>>)
  /\ pump' = Out
  /\ UNCHANGED <<starts, refusals, scheduled, inbox, seen, subs, native>>

BridgeNext ==
  \/ Init \/ Stop \/ Reconnected
  \/ \E r \in Requests : Arrives(r)
  \/ Pump \/ Clean \/ Serve \/ Pumped

BridgeSpec == BridgeInit /\ [][BridgeNext]_bridgeVars

(***************************************************************************)
(* When the bridge takes up a new connection, nothing that was subscribed  *)
(* over an earlier one pushes any more: though the terminal may refuse to  *)
(* stop it at first, the connection may be lost again meanwhile, and a     *)
(* refused unsubscription of a client may have come before.                *)
(***************************************************************************)
CleanSlate == [][seen = "past" /\ seen' = "now" => native = {}]_bridgeVars
=============================================================================
