---------------------------- MODULE TushareSource ----------------------------
(***************************************************************************)
(* How the lanes of a Tushare account read a range (tushare.py): the       *)
(* account's calls are limited over a window of time, an answer may be cut *)
(* off at the provider's limit of rows, and a range whose answer may have  *)
(* been is read again in two parts, down to single days (seconds, weeks).  *)
(***************************************************************************)
EXTENDS Integers, Sequences, FiniteSets, FiniteSetsExt

CONSTANTS
  Readers,     \* lanes and tests of the account that read at the same time
  LastPoint,   \* a range: points 1..LastPoint, each a smallest interval
  Cap,         \* rows an answer has at most
  Window, Limits,  \* the window and the calls that the profiles of one token allow in it
  MaxFailures  \* bound

ASSUME TushareAssumption == Cap \in Nat \ {0} /\ LastPoint \in Nat \ {0}

Points == 1..LastPoint

VARIABLES
  rows,      \* point -> rows the provider has
  limit,     \* the bucket: the lowest limit so far
  calls,     \* ages of the calls it remembers
  failures,  \* counts for the bound
  reader     \* reader -> profile, how it splits, the ranges left to read, the rows it was given of each point

tuVars == <<rows, limit, calls, failures, reader>>

Unread(by, profile) ==
  [by |-> by, profile |-> profile, state |-> "reading",
   todo |-> <<[first |-> 1, last |-> LastPoint]>>, got |-> [p \in Points |-> 0]]

TuInit ==
  /\ rows \in [Points -> 0..Cap]
  /\ limit = 0 /\ calls = <<>> /\ failures = 0
  /\ \E by \in {"days", "weeks"}, profile \in [Readers -> Limits] :
       reader = [r \in Readers |-> Unread(by, profile[r])]

\* Time passes; older calls are all the same.
Tick ==
  /\ \E n \in DOMAIN calls : calls[n] < Window
  /\ calls' = [n \in DOMAIN calls |-> Min({calls[n] + 1, Window})]
  /\ UNCHANGED <<rows, limit, failures, reader>>

\* Calls as old as the window are forgotten; a caller that finds too many asks again a moment later.
Acquire(profile) ==
  LET recent == SelectSeq(calls, LAMBDA age : age < Window) IN
  /\ limit' = IF limit = 0 THEN profile ELSE Min({limit, profile})
  /\ Len(recent) < limit'
  /\ calls' = Append(recent, 0)

\* The provider's side: all the rows of the range, or the first Cap of them.
Rows(range)  == {row \in (range.first..range.last) \X (1..Cap) : row[2] <= rows[row[1]]}
Given(range) == Min({Cap, Cardinality(Rows(range))})

SplitBeforeMiddle(by, range) ==  \* mutant of Split
  LET middle == range.first + (range.last - range.first) \div 2 IN
  <<[range EXCEPT !.last = middle - 1], [range EXCEPT !.first = middle + 1]>>

\* bounded counts the steps between first and last, weekly_bounded the weeks of a list.
Split(by, range) ==
  LET middle == IF by = "days" THEN range.first + (range.last - range.first) \div 2
                               ELSE range.first + (range.last - range.first + 1) \div 2 - 1
  IN <<[range EXCEPT !.last = middle], [range EXCEPT !.first = middle + 1]>>

Accepted(me, range) ==
  [me EXCEPT !.todo = Tail(@), !.state = IF Len(me.todo) = 1 THEN "complete" ELSE @,
             !.got = [p \in Points |-> @[p] + IF p \in range.first..range.last THEN rows[p] ELSE 0]]

\* One call: an answer below the limit of rows is whole; any other is read again in parts, or refused.
Request(r) ==
  LET me == reader[r]  range == Head(me.todo) IN
  /\ me.state = "reading"
  /\ Acquire(me.profile)
  /\ reader' = [reader EXCEPT ![r] =
       IF Given(range) < Cap THEN Accepted(me, range)
       ELSE IF range.first = range.last THEN [me EXCEPT !.state = "incomplete"]
       ELSE [me EXCEPT !.todo = Split(me.by, range) \o Tail(@)]]
  /\ UNCHANGED <<rows, failures>>

\* A call without an answer: what was read is lost with the exception, and the next attempt asks for the whole range.
RequestFails(r) ==
  /\ reader[r].state = "reading" /\ failures < MaxFailures
  /\ Acquire(reader[r].profile)
  /\ failures' = failures + 1
  /\ \E again \in BOOLEAN : reader' = [reader EXCEPT ![r] = IF again THEN Unread(@.by, @.profile) ELSE [@ EXCEPT !.state = "failed"]]
  /\ UNCHANGED rows

TuNext == Tick \/ \E r \in Readers : Request(r) \/ RequestFails(r)
TuSpec == TuInit /\ [][TuNext]_tuVars

(* A range that is reported as read holds every row the provider has of each
   of its days exactly once, however often its answers had to be split and the
   calls failed; one that cannot be cut small enough is never reported as read. *)
CompleteOrRefused ==
  \A r \in Readers :
    /\ reader[r].state = "complete" => reader[r].got = rows
    /\ (\E p \in Points : rows[p] = Cap) => reader[r].state # "complete"
=============================================================================
