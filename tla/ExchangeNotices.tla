--------------------------- MODULE ExchangeNotices ---------------------------
(***************************************************************************)
(* The notices of an exchange about days it is closed                      *)
(* (exchange_holidays.py): they are read from its site now and then, any   *)
(* of them may be missed, revised or unclear, and what is saved decides    *)
(* whether an empty answer of the terminal is put down to a holiday and    *)
(* never asked for again.                                                  *)
(*                                                                         *)
(* One exchange, one year; a notice is what it states of days and whether  *)
(* all of it is understood (parse_notice).                                 *)
(***************************************************************************)
EXTENDS Naturals, FiniteSets

CONSTANTS
  Urls,
  HolidayDays,   \* the last day
  MaxClauses,    \* bound: what a notice states
  MaxPublished   \* bound: notices published or revised

Kinds == {"closed", "open", "night_closed", "night_open"}
Clauses == [day : 1..HolidayDays, kind : Kinds]
Statements == {c \in SUBSET Clauses : Cardinality(c) <= MaxClauses}
Texts == [there : {TRUE}, clauses : Statements, clear : BOOLEAN]
NoText == [there |-> FALSE, clauses |-> {}, clear |-> TRUE]
Periods == {"1d", "1m"}
Parts == {p \in [first : 1..HolidayDays, last : 1..HolidayDays, period : Periods, nights : BOOLEAN] : p.first <= p.last}

VARIABLES
  published, \* counts for the bound
  session,   \* days the exchange is open
  night,     \* days it is open in the evening
  site,      \* url -> the notice that is there
  current,   \* url -> the current version in exchange_notices
  sync       \* the synchronisation: notices left to read

noticeVars == <<published, session, night, site, current, sync>>

NoSync == [on |-> FALSE, todo |-> {}]

NoticesInit ==
  /\ published = 0 /\ session = 1..HolidayDays /\ night = 1..HolidayDays
  /\ site = [u \in Urls |-> NoText] /\ current = site
  /\ sync = NoSync

-----------------------------------------------------------------------------
(* The exchange.                                                           *)

Holds(c, days, evenings) ==
  CASE c.kind = "closed" -> c.day \notin days \union evenings
    [] c.kind = "open" -> c.day \in days
    [] c.kind = "night_closed" -> c.day \notin evenings
    [] c.kind = "night_open" -> c.day \in evenings

Denies(c, d) ==
  /\ c.day = d.day
  /\ <<c.kind, d.kind>> \in {<<"open", "closed">>, <<"night_open", "closed">>, <<"night_open", "night_closed">>,
                             <<"closed", "open">>, <<"closed", "night_open">>, <<"night_closed", "night_open">>}

\* It decides on its sessions and says so: a new or revised notice is true, and takes back what is not true any more.
Publish(u, text) ==
  /\ published < MaxPublished /\ published' = published + 1
  /\ \E days, evenings \in SUBSET (1..HolidayDays) :
       /\ \A c \in text.clauses : Holds(c, days, evenings)
       /\ text.clear => \A v \in Urls \ {u} : \A d \in site[v].clauses :
            Holds(d, days, evenings) \/ \E c \in text.clauses : Denies(c, d)
       /\ session' = days /\ night' = evenings
  /\ site' = [site EXCEPT ![u] = text]
  /\ UNCHANGED <<current, sync>>

-----------------------------------------------------------------------------
(* sync_exchange                                                           *)

\* The list of notices and the ones that state something by now; the list may not be readable.
Discover ==
  /\ ~sync.on
  /\ \E listed \in BOOLEAN :
       sync' = [on |-> TRUE, todo |-> {u \in Urls : (listed /\ site[u].there) \/ current[u].clauses # {}}]
  /\ UNCHANGED <<published, session, night, site, current>>

\* save_notice: the version that was read is the current one, whether it is known or new.
Read(u) ==
  /\ u \in sync.todo
  /\ current' = [current EXCEPT ![u] = site[u]]
  /\ sync' = [sync EXCEPT !.todo = @ \ {u}]
  /\ UNCHANGED <<published, session, night, site>>

\* Not reachable, not a notice, another exchange's, the whole synchronisation too long: the saved version stays.
ReadFails(u) ==
  /\ u \in sync.todo
  /\ sync' = [sync EXCEPT !.todo = @ \ {u}]
  /\ UNCHANGED <<published, session, night, site, current>>

\* Its state (succeeded, partial, failed) is the outcome of a unit of the job, any of which JobQueue takes.
Synchronised ==
  /\ sync.on /\ sync.todo = {}
  /\ sync' = NoSync
  /\ UNCHANGED <<published, session, night, site, current>>

\* The job is cancelled or the service stopped: what was saved stays.
Interrupted ==
  /\ sync.todo # {} /\ sync' = NoSync
  /\ UNCHANGED <<published, session, night, site, current>>

NoticesNext ==
  \/ \E u \in Urls : Read(u) \/ ReadFails(u) \/ \E text \in Texts : Publish(u, text)
  \/ Discover \/ Synchronised \/ Interrupted

NoticesSpec == NoticesInit /\ [][NoticesNext]_noticeVars

-----------------------------------------------------------------------------
(* closure_issue: is the empty answer for a part explained?                *)

Saved == {u \in Urls : current[u].there}
KindsOf(d) == {c.kind : c \in {e \in UNION {current[u].clauses : u \in Saved} : e.day = d}}

ClosedAllDay(d, opened) ==
  "closed" \in KindsOf(d) /\ {"open", "night_open"} \intersect KindsOf(d) = {} /\ d \notin opened

AnyNight(d, opened) == TRUE  \* mutant of NoNightBefore

\* The evening before is in the part's minutes.
NoNightBefore(d, opened) ==
  /\ "night_open" \notin KindsOf(d)
  /\ \/ "night_closed" \in KindsOf(d)
     \/ "closed" \in KindsOf(d) /\ "open" \notin KindsOf(d) /\ d \notin opened

\* opened: days known to be open from the calendar or from bars.
Explained(p, opened) ==
  /\ Saved # {} /\ \A u \in Saved : current[u].clear
  /\ \A d \in p.first..p.last : ClosedAllDay(d, opened)
  /\ p.period = "1m" /\ p.nights => NoNightBefore(p.first - 1, opened)

Traded(p) ==
  \/ \E d \in p.first..p.last : d \in session
  \/ p.period = "1m" /\ p.nights /\ \E d \in p.first - 1..p.last : d \in night

(***************************************************************************)
(* When the notices are saved as they are on the site, a part that is      *)
(* written off as a holiday had no session, of the evening before either:  *)
(* whatever was announced, taken back or left unclear, in one notice or    *)
(* in several.                                                             *)
(***************************************************************************)
WrittenOffNeverTraded ==
  current = site => \A p \in Parts : Explained(p, {}) => ~Traded(p)
=============================================================================
