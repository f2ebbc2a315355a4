--------------------------- MODULE ServicesProofs ---------------------------
(***************************************************************************)
(* Proofs about what goes on inside the service and with its sources       *)
(* (module Services): the notices of the exchanges, a range read from      *)
(* Tushare in parts, the days the scheduler queues, an export, and a       *)
(* verification with its repairs.                                          *)
(***************************************************************************)
EXTENDS MaintenanceSchedule, ExchangeNotices, TushareSource, Export, Verification,
        SequenceTheorems, FiniteSetTheorems, WellFoundedInduction, TLAPS

-----------------------------------------------------------------------------
(* First and last elements.                                                *)

LEMMA Least ==
  ASSUME NEW S \in SUBSET Nat, S # {}
  PROVE  Min(S) \in S /\ \A y \in S : Min(S) <= y
<1> DEFINE Below == {ss \in Nat \X Nat : ss[1] < ss[2]}
<1>1. OpToRel(<, Nat) = Below BY Zenon DEF OpToRel
<1>2. IsWellFoundedOn(Below, Nat) BY <1>1, NatLessThanWellFounded, Zenon
<1>3. PICK x \in S : \A y \in S : ~(<<y, x>> \in Below)
  <2> HIDE DEF Below
  <2> QED BY <1>2, WFMin, Zenon
<1>4. ASSUME NEW y \in S PROVE x <= y
  <2>1. <<y, x>> \notin Below BY <1>3
  <2>2. <<y, x>> \in Nat \X Nat /\ x \in Nat /\ y \in Nat OBVIOUS
  <2>3. ~(<<y, x>>[1] < <<y, x>>[2]) BY <2>1, <2>2
  <2> QED BY <2>2, <2>3
<1> QED BY <1>4 DEF Min

LEMMA Greatest ==
  ASSUME NEW n \in Nat, NEW S \in SUBSET (0..n), S # {}
  PROVE  Max(S) \in S /\ \A y \in S : y <= Max(S)
<1> DEFINE T == {k \in Nat : n - k \in S}
<1>1. T \in SUBSET Nat /\ T # {}
  <2>1. PICK x \in S : TRUE OBVIOUS
  <2>2. n - x \in Nat /\ n - (n - x) = x OBVIOUS
  <2> QED BY <2>2
<1> DEFINE m == n - Min(T)
<1>2. Min(T) \in T /\ \A k \in T : Min(T) <= k
  <2> HIDE DEF T
  <2> QED BY <1>1, Least
<1>3. m \in S BY <1>2
<1>4. ASSUME NEW y \in S PROVE y <= m
  <2>1. n - y \in Nat /\ n - (n - y) = y OBVIOUS
  <2>2. n - y \in T BY <2>1
  <2>3. Min(T) <= n - y /\ Min(T) \in Nat BY <1>2, <2>2
  <2> HIDE DEF T
  <2> QED BY <2>1, <2>3
<1>5. \E x \in S : \A y \in S : x >= y
  <2> HIDE DEF m
  <2>1. \A y \in S : m >= y BY <1>3, <1>4
  <2> QED BY <1>3, <2>1
<1>6. Max(S) \in S /\ \A y \in S : Max(S) >= y
  BY <1>5 DEF Max
<1> QED BY <1>6

LEMMA LeastOfTwo ==
  ASSUME NEW a \in Int, NEW b \in Int
  PROVE  Min({a, b}) \in {a, b} /\ Min({a, b}) <= a /\ Min({a, b}) <= b
<1>1. \E x \in {a, b} : \A y \in {a, b} : x <= y OBVIOUS
<1> QED BY <1>1 DEF Min

LEMMA GreatestOfTwo ==
  ASSUME NEW a \in Int, NEW b \in Int
  PROVE  Max({a, b}) \in {a, b}
<1>1. \E x \in {a, b} : \A y \in {a, b} : x >= y OBVIOUS
<1> QED BY <1>1 DEF Max

\* The nth element from the end is there when there are that many.
LEMMA NthIsThere ==
  ASSUME NEW m \in Nat, NEW S \in SUBSET (0..m), NEW n \in Nat \ {0}, Cardinality(S) >= n
  PROVE  Nth(S, n) \in S /\ Cardinality({e \in S : e >= Nth(S, n)}) = n
<1> DEFINE From(d) == {e \in S : e >= d}  few == {d \in S : Cardinality(From(d)) <= n}
<1>1. IsFiniteSet(S) /\ Cardinality(S) \in Nat
  <2>1. IsFiniteSet(0..m) BY FS_Interval
  <2> QED BY <2>1, FS_Subset, FS_CardinalityType
<1>2. \A d \in S : IsFiniteSet(From(d)) /\ Cardinality(From(d)) \in Nat
  BY <1>1, FS_Subset, FS_CardinalityType
<1>3. S # {}
  <2>1. Cardinality(S) # 0 BY <1>1
  <2> QED BY <1>1, <2>1, FS_EmptySet
<1>4. few # {}
  <2>1. PICK g \in S : \A y \in S : y <= g BY <1>3, Greatest
  <2>2. \A e \in S : e >= g <=> e = g BY <2>1
  <2>3. From(g) = {g} BY <2>2
  <2>4. Cardinality({g}) = 1 BY FS_Singleton
  <2> QED BY <2>1, <2>3, <2>4
<1>5. PICK d \in few : \A y \in few : d <= y
  <2>1. few \in SUBSET Nat
    <3>1. few \subseteq S OBVIOUS
    <3> HIDE DEF few
    <3>2. S \subseteq Nat OBVIOUS
    <3> QED BY <3>1, <3>2
  <2> HIDE DEF few
  <2> QED BY <1>4, <2>1, Least
<1>6. ASSUME Cardinality(From(d)) # n PROVE FALSE
  <2> DEFINE before == {e \in S : e < d}
  <2>0. Cardinality(From(d)) < n BY <1>2, <1>5, <1>6
  <2>1. before # {}
    <3>1. ASSUME before = {} PROVE From(d) = S
      <4>1. \A e \in S : ~(e < d) BY <3>1
      <4>2. \A e \in S : e \in Nat /\ d \in Nat OBVIOUS
      <4>3. \A e \in S : e >= d BY <4>1, <4>2
      <4> QED BY <4>3
    <3> QED BY <1>1, <2>0, <3>1
  <2>2. Max(before) \in before /\ \A y \in before : y <= Max(before)
    <3>1. before \in SUBSET (0..m) OBVIOUS
    <3> HIDE DEF before
    <3> QED BY <2>1, <3>1, Greatest
  <2> DEFINE b == Max(before)
  <2>3. b \in S /\ b < d BY <2>2
  <2>4. From(b) = From(d) \union {b}
    <3>1. ASSUME NEW e \in S, e >= b, ~(e >= d) PROVE e = b
      <4>1. e \in before /\ e \in Nat /\ d \in Nat BY <3>1
      <4>2. e <= b BY <2>2, <4>1
      <4> HIDE DEF b
      <4> QED BY <2>3, <3>1, <4>1, <4>2
    <3> HIDE DEF b
    <3>2. \A e \in S : e >= d => e >= b BY <2>3
    <3>3. b >= b BY <2>3
    <3> QED BY <2>3, <3>1, <3>2, <3>3
  <2> HIDE DEF b
  <2>5. b \notin From(d) BY <2>3
  <2>6. Cardinality(From(b)) = Cardinality(From(d)) + 1
    <3> HIDE DEF From
    <3> QED BY <1>2, <2>4, <2>5, FS_AddElement
  <2>7. b \in few
    <3>1. Cardinality(From(b)) <= n BY <1>2, <2>0, <2>6
    <3> QED BY <2>3, <3>1
  <2> HIDE DEF few
  <2> QED BY <1>5, <2>3, <2>7
<1> QED BY <1>5, <1>6 DEF Nth

-----------------------------------------------------------------------------
(* The notices of an exchange.  Each new one is true and takes back what   *)
(* is not true any more, so that what is stated and not denied is true     *)
(* while all the notices are understood.                                   *)

Understood == \A u \in Urls : site[u].there => site[u].clear
Denied(d)  == \E v \in Urls : \E c \in site[v].clauses : Denies(c, d)

SiteTyped ==
  /\ site \in [Urls -> Texts \union {NoText}]
  /\ session \subseteq 1..HolidayDays /\ night \subseteq 1..HolidayDays

Truthful ==
  Understood => \A u \in Urls : \A d \in site[u].clauses : Holds(d, session, night) \/ Denied(d)

SiteInv == SiteTyped /\ Truthful

LEMMA TextsTyped ==
  ASSUME NEW text \in Texts \union {NoText}
  PROVE  text.clauses \subseteq Clauses /\ text.there \in BOOLEAN /\ (text.clauses # {} => text.there)
<1>1. CASE text \in Texts
  <2>1. text.there = TRUE /\ text.clauses \in Statements BY <1>1 DEF Texts
  <2>2. \A c \in Statements : c \subseteq Clauses BY DEF Statements
  <2> QED BY <2>1, <2>2
<1>2. CASE text = NoText BY <1>2 DEF NoText
<1> QED BY <1>1, <1>2

LEMMA NoticesStart == NoticesInit => SiteInv
<1> SUFFICES ASSUME NoticesInit PROVE SiteInv OBVIOUS
<1>1. SiteTyped BY DEF NoticesInit, SiteTyped
<1>2. \A u \in Urls : site[u].clauses = {} BY DEF NoticesInit, NoText
<1> QED BY <1>1, <1>2 DEF SiteInv, Truthful

LEMMA PublishStep ==
  ASSUME SiteInv, NEW u \in Urls, NEW text \in Texts, Publish(u, text)
  PROVE  SiteInv'
<1>1. site' = [site EXCEPT ![u] = text] /\ text.there
  BY DEF Publish, Texts
<1>2. \A v \in Urls : site'[v] = IF v = u THEN text ELSE site[v]
  BY <1>1 DEF SiteInv, SiteTyped
<1>3. SiteTyped'
  <2>1. session' \subseteq 1..HolidayDays /\ night' \subseteq 1..HolidayDays BY DEF Publish
  <2> QED BY <1>1, <2>1 DEF SiteInv, SiteTyped
<1>4. \A c \in text.clauses : Holds(c, session', night')
  BY DEF Publish
<1>5. text.clear => \A v \in Urls \ {u} : \A d \in site[v].clauses :
        Holds(d, session', night') \/ \E c \in text.clauses : Denies(c, d)
  BY DEF Publish
<1>6. Truthful'
  <2> SUFFICES ASSUME Understood', NEW v \in Urls, NEW d \in site'[v].clauses
               PROVE  Holds(d, session', night') \/ Denied(d)'
    BY DEF Truthful, Holds
  <2>1. text.clear BY <1>1, <1>2 DEF Understood
  <2>2. CASE v = u BY <1>2, <1>4, <2>2
  <2>3. CASE v # u
    <3>1. d \in site[v].clauses BY <1>2, <2>3
    <3>2. CASE Holds(d, session', night') BY <3>2
    <3>3. CASE \E c \in text.clauses : Denies(c, d) BY <1>2, <3>3 DEF Denied, Denies
    <3> QED BY <1>5, <2>1, <2>3, <3>1, <3>2, <3>3
  <2> QED BY <2>2, <2>3
<1> QED BY <1>3, <1>6 DEF SiteInv

LEMMA NoticesStep == SiteInv /\ [NoticesNext]_noticeVars => SiteInv'
<1> SUFFICES ASSUME SiteInv, [NoticesNext]_noticeVars PROVE SiteInv' OBVIOUS
<1>1. CASE UNCHANGED <<session, night, site>>
  BY <1>1 DEF SiteInv, SiteTyped, Truthful, Understood, Denied
<1>2. CASE \E u \in Urls : \E text \in Texts : Publish(u, text)
  BY <1>2, PublishStep
<1> QED BY <1>1, <1>2 DEF NoticesNext, Read, ReadFails, Discover, Synchronised, Interrupted, noticeVars

\* What is saved states of a day, and nothing saved denies, the exchange keeps to.
LEMMA StatedIsTrue ==
  ASSUME SiteInv, current = site, Saved # {}, \A u \in Saved : current[u].clear, NEW day, NEW kind \in KindsOf(day)
  PROVE  \/ Holds([day |-> day, kind |-> kind], session, night)
         \/ \E other \in KindsOf(day) : Denies([day |-> day, kind |-> other], [day |-> day, kind |-> kind])
<1>1. PICK u \in Saved : \E c \in site[u].clauses : c.day = day /\ c.kind = kind
  BY DEF KindsOf
<1>2. PICK d \in site[u].clauses : d.day = day /\ d.kind = kind BY <1>1
<1>3. u \in Urls /\ d \in Clauses
  BY <1>1, <1>2, TextsTyped DEF Saved, SiteInv, SiteTyped
<1>4. d = [day |-> day, kind |-> kind] BY <1>2, <1>3 DEF Clauses
<1>5. Understood BY DEF Understood, Saved
<1>6. CASE Holds(d, session, night) BY <1>4, <1>6
<1>7. CASE Denied(d)
  <2>0. PICK v \in Urls : \E c \in site[v].clauses : Denies(c, d) BY <1>7 DEF Denied
  <2>1. PICK c \in site[v].clauses : Denies(c, d) BY <2>0
  <2>2. c \in Clauses /\ v \in Saved
    BY <2>1, TextsTyped DEF SiteInv, SiteTyped, Saved
  <2>3. c.day = day BY <1>2, <2>1 DEF Denies
  <2>4. c = [day |-> day, kind |-> c.kind] BY <2>2, <2>3 DEF Clauses
  <2>5. c.kind \in KindsOf(day) BY <2>1, <2>2, <2>3 DEF KindsOf
  <2> QED BY <1>4, <2>1, <2>4, <2>5
<1> QED BY <1>2, <1>3, <1>5, <1>6, <1>7 DEF SiteInv, Truthful

(* A part whose empty answer is put down to a holiday, by the notices as they
   are on the site, had no session, of the evening before either: for any
   notices, published, revised or taken back in any order
   (exchange_holidays.py closure_issue). *)
THEOREM HolidaysAreTrue == NoticesSpec => []WrittenOffNeverTraded
<1>1. SiteInv => WrittenOffNeverTraded
  <2> SUFFICES ASSUME SiteInv, current = site, NEW p \in Parts, Explained(p, {}) PROVE ~Traded(p)
    BY DEF WrittenOffNeverTraded
  <2>1. Saved # {} /\ \A u \in Saved : current[u].clear BY DEF Explained
  <2>2. ASSUME NEW d \in p.first..p.last PROVE d \notin session \union night
    <3>1. "closed" \in KindsOf(d) /\ "open" \notin KindsOf(d) /\ "night_open" \notin KindsOf(d)
      BY <2>2 DEF Explained, ClosedAllDay
    <3>2. Holds([day |-> d, kind |-> "closed"], session, night)
      BY <2>1, <3>1, StatedIsTrue DEF Denies
    <3> QED BY <3>2 DEF Holds
  <2>3. ASSUME p.period = "1m", p.nights PROVE p.first - 1 \notin night
    <3> DEFINE e == p.first - 1
    <3>1. "night_open" \notin KindsOf(e)
          /\ ("night_closed" \in KindsOf(e) \/ ("closed" \in KindsOf(e) /\ "open" \notin KindsOf(e)))
      BY <2>3 DEF Explained, NoNightBefore
    <3> HIDE DEF e
    <3>2. CASE "night_closed" \in KindsOf(e)
      <4>1. Holds([day |-> e, kind |-> "night_closed"], session, night)
        BY <2>1, <3>1, <3>2, StatedIsTrue DEF Denies
      <4> QED BY <4>1 DEF Holds, e
    <3>3. CASE "closed" \in KindsOf(e) /\ "open" \notin KindsOf(e)
      <4>1. Holds([day |-> e, kind |-> "closed"], session, night)
        BY <2>1, <3>1, <3>3, StatedIsTrue DEF Denies
      <4> QED BY <4>1 DEF Holds, e
    <3> QED BY <3>1, <3>2, <3>3
  <2>4. p.first \in Int /\ p.last \in Int BY DEF Parts
  <2>5. \A d \in p.first - 1..p.last : d = p.first - 1 \/ d \in p.first..p.last BY <2>4
  <2> QED BY <2>2, <2>3, <2>5 DEF Traded
<1> QED BY <1>1, NoticesStart, NoticesStep, PTL DEF NoticesSpec

-----------------------------------------------------------------------------
(* A range read from Tushare.  What is left to read is one range after     *)
(* another up to the last point, however it was split; what lies before    *)
(* has been given, and no answer for it can have been cut off.             *)

Ranges  == {range \in [first : Points, last : Points] : range.first <= range.last}
Reading == [by : {"days", "weeks"}, profile : Limits, state : {"reading", "complete", "incomplete", "failed"},
            todo : Seq(Ranges), got : [Points -> Nat]]

ReadersTyped == rows \in [Points -> 0..Cap] /\ reader \in [Readers -> Reading]

\* The ranges from a point to the last one, without a gap.
Covers(todo, from) ==
  /\ todo # <<>> /\ todo[1].first = from /\ todo[Len(todo)].last = LastPoint
  /\ \A n \in 1..Len(todo) - 1 : todo[n + 1].first = todo[n].last + 1

GivenBefore(me, from) ==
  \A p \in Points : /\ me.got[p] = IF p < from THEN rows[p] ELSE 0
                    /\ p < from => rows[p] < Cap

ReadInOrder ==
  \A r \in Readers :
    /\ reader[r].state = "reading" => LET from == reader[r].todo[1].first
                                      IN Covers(reader[r].todo, from) /\ GivenBefore(reader[r], from)
    /\ reader[r].state = "complete" => GivenBefore(reader[r], LastPoint + 1)

ReadInv == ReadersTyped /\ ReadInOrder

\* An answer that is not cut off is of points that each have fewer rows than it may have.
LEMMA NotCutOff ==
  ASSUME ReadersTyped, NEW range \in Ranges, Given(range) < Cap, NEW p \in range.first..range.last
  PROVE  rows[p] < Cap
<1> DEFINE few == {p} \X (1..rows[p])
<1>1. p \in Points /\ rows[p] \in 0..Cap /\ Cap \in Nat
  BY TushareAssumption DEF Ranges, Points, ReadersTyped
<1>2. IsFiniteSet(Rows(range)) /\ Cardinality(Rows(range)) \in Nat
  <2>0. IsFiniteSet(range.first..range.last) /\ IsFiniteSet(1..Cap)
    <3>1. range.first \in Int /\ range.last \in Int /\ 1 \in Int /\ Cap \in Int
      BY <1>1 DEF Ranges, Points
    <3> QED BY <3>1, FS_Interval
  <2>1. IsFiniteSet((range.first..range.last) \X (1..Cap))
    BY <2>0, FS_Product
  <2>2. Rows(range) \in SUBSET ((range.first..range.last) \X (1..Cap)) BY DEF Rows
  <2> QED BY <2>1, <2>2, FS_Subset, FS_CardinalityType
<1>3. few \in SUBSET Rows(range)
  BY <1>1 DEF Rows
<1>4. Cardinality(few) = rows[p]
  <2>1. IsFiniteSet({p}) /\ Cardinality({p}) = 1 BY FS_Singleton
  <2>2. IsFiniteSet(1..rows[p]) /\ Cardinality(1..rows[p]) = rows[p]
    <3> DEFINE n == rows[p]
    <3>1. n \in Nat BY <1>1
    <3> HIDE DEF n
    <3>2. IsFiniteSet(1..n) /\ Cardinality(1..n) = IF 1 > n THEN 0 ELSE n - 1 + 1 BY <3>1, FS_Interval
    <3>3. Cardinality(1..n) = n BY <3>1, <3>2
    <3> QED BY <3>2, <3>3 DEF n
  <2>3. Cardinality({p} \X (1..rows[p])) = Cardinality({p}) * Cardinality(1..rows[p]) BY <2>1, <2>2, FS_Product, Zenon
  <2>4. 1 * rows[p] = rows[p] BY <1>1
  <2> QED BY <2>1, <2>2, <2>3, <2>4
<1>5. rows[p] <= Cardinality(Rows(range))
  <2> HIDE DEF few
  <2> QED BY <1>2, <1>3, <1>4, FS_Subset
<1>6. Cardinality(Rows(range)) < Cap
  <2> DEFINE m == Cardinality(Rows(range))
  <2>1. \E x \in {Cap, m} : \A y \in {Cap, m} : x <= y BY <1>1, <1>2
  <2>2. Min({Cap, m}) \in {Cap, m} BY <2>1 DEF Min
  <2> QED BY <1>1, <1>2, <2>2 DEF Given
<1> QED BY <1>1, <1>2, <1>5, <1>6

LEMMA SplitRanges ==
  ASSUME NEW by, NEW range \in Ranges, range.first # range.last
  PROVE  \E a, b \in Ranges : /\ Split(by, range) = <<a, b>>
                              /\ a.first = range.first /\ b.first = a.last + 1 /\ b.last = range.last
<1> DEFINE middle == IF by = "days" THEN range.first + (range.last - range.first) \div 2
                                    ELSE range.first + (range.last - range.first + 1) \div 2 - 1
<1>1. range.first \in Points /\ range.last \in Points /\ range.first < range.last /\ LastPoint \in Nat
      /\ range = [first |-> range.first, last |-> range.last]
  BY TushareAssumption DEF Ranges, Points
<1>2. middle \in Int /\ range.first <= middle /\ middle < range.last
  BY <1>1 DEF Points
<1>3. Split(by, range) = <<[first |-> range.first, last |-> middle], [first |-> middle + 1, last |-> range.last]>>
  BY <1>1 DEF Split
<1> HIDE DEF middle
<1>4. [first |-> range.first, last |-> middle] \in Ranges /\ [first |-> middle + 1, last |-> range.last] \in Ranges
  BY <1>1, <1>2 DEF Ranges, Points
<1> QED BY <1>3, <1>4

LEMMA UnreadReads ==
  ASSUME ReadersTyped, NEW by \in {"days", "weeks"}, NEW profile \in Limits
  PROVE  /\ Unread(by, profile) \in Reading /\ Unread(by, profile).state = "reading"
         /\ LET from == Unread(by, profile).todo[1].first
            IN Covers(Unread(by, profile).todo, from) /\ GivenBefore(Unread(by, profile), from)
<1> DEFINE whole == [first |-> 1, last |-> LastPoint]
<1>1. whole \in Ranges /\ whole.first = 1 /\ whole.last = LastPoint BY TushareAssumption DEF Ranges, Points
<1> HIDE DEF whole
<1>2. <<whole>> \in Seq(Ranges) /\ Len(<<whole>>) = 1 /\ <<whole>>[1] = whole BY <1>1
<1>3. [p \in Points |-> 0] \in [Points -> Nat] OBVIOUS
<1>4. Unread(by, profile) \in Reading BY <1>2, <1>3 DEF Unread, Reading, whole
<1>5. Covers(<<whole>>, 1) BY <1>1, <1>2 DEF Covers
<1>6. \A p \in Points : ~(p < 1) BY DEF Points
<1>7. Unread(by, profile).todo = <<whole>> /\ Unread(by, profile).got = [p \in Points |-> 0]
      /\ Unread(by, profile).state = "reading"
  BY DEF Unread, whole
<1> QED BY <1>1, <1>2, <1>4, <1>5, <1>6, <1>7 DEF GivenBefore

LEMMA CoversRest ==
  ASSUME NEW todo \in Seq(Ranges), NEW from, Covers(todo, from)
  PROVE  /\ Head(todo) = todo[1] /\ todo[1] \in Ranges /\ todo[1].first = from /\ Tail(todo) \in Seq(Ranges)
         /\ Len(todo) = 1 => todo[1].last = LastPoint
         /\ Len(todo) # 1 => Covers(Tail(todo), todo[1].last + 1)
<1>1. todo # <<>> /\ Len(todo) \in Nat \ {0} /\ todo[Len(todo)].last = LastPoint /\ todo[1].first = from
  BY DEF Covers
<1>2. Head(todo) = todo[1] /\ todo[1] \in Ranges
  BY <1>1
<1>3. /\ Tail(todo) \in Seq(Ranges) /\ Len(Tail(todo)) = Len(todo) - 1
      /\ \A n \in 1..Len(todo) - 1 : Tail(todo)[n] = todo[n + 1]
  BY <1>1, HeadTailProperties
<1>4. ASSUME Len(todo) # 1 PROVE Covers(Tail(todo), todo[1].last + 1)
  <2> DEFINE rest == Tail(todo)  m == Len(todo) - 1
  <2>1. m \in Nat \ {0} /\ Len(todo) = m + 1 BY <1>1, <1>4
  <2>2. rest \in Seq(Ranges) /\ Len(rest) = m /\ \A n \in 1..m : rest[n] = todo[n + 1] BY <1>3
  <2>3. \A n \in 1..m : todo[n + 1].first = todo[n].last + 1 BY DEF Covers
  <2> HIDE DEF rest, m
  <2>4. rest # <<>> BY <2>1, <2>2
  <2>5. rest[m].last = LastPoint BY <1>1, <2>1, <2>2
  <2>6. 1 \in 1..m BY <2>1
  <2>7. rest[1] = todo[1 + 1] /\ todo[1 + 1].first = todo[1].last + 1 BY <2>2, <2>3, <2>6
  <2>8. ASSUME NEW n \in 1..m - 1 PROVE rest[n + 1].first = rest[n].last + 1
    <3>1. n \in 1..m /\ n + 1 \in 1..m BY <2>1
    <3>2. rest[n] = todo[n + 1] /\ rest[n + 1] = todo[(n + 1) + 1] BY <2>2, <3>1
    <3>3. todo[(n + 1) + 1].first = todo[n + 1].last + 1 BY <2>3, <3>1
    <3> QED BY <3>2, <3>3
  <2>9. Covers(rest, todo[1].last + 1) BY <2>2, <2>4, <2>5, <2>7, <2>8 DEF Covers
  <2> QED BY <2>9 DEF rest
<1> QED BY <1>1, <1>2, <1>3, <1>4

\* Two ranges in the place of the first.
LEMMA CoversParts ==
  ASSUME NEW old \in Seq(Ranges), NEW from, Covers(old, from), NEW a \in Ranges, NEW b \in Ranges,
         a.first = from, b.first = a.last + 1, b.last = old[1].last
  PROVE  <<a, b>> \o Tail(old) \in Seq(Ranges) /\ Covers(<<a, b>> \o Tail(old), from)
<1> DEFINE rest == Tail(old)  new == <<a, b>> \o rest  m == Len(old)
<1>1. old # <<>> /\ m \in Nat \ {0} /\ old[m].last = LastPoint BY DEF Covers
<1>2. \A n \in 1..m - 1 : old[n + 1].first = old[n].last + 1 BY DEF Covers
<1>3. rest \in Seq(Ranges) /\ Len(rest) = m - 1 /\ \A n \in 1..m - 1 : rest[n] = old[n + 1]
  BY <1>1, HeadTailProperties
<1>4. <<a, b>> \in Seq(Ranges) /\ Len(<<a, b>>) = 2 /\ <<a, b>>[1] = a /\ <<a, b>>[2] = b
  OBVIOUS
<1> HIDE DEF rest, m
<1>5. new \in Seq(Ranges) /\ Len(new) = 2 + (m - 1)
      /\ \A n \in 1..2 + (m - 1) : new[n] = IF n <= 2 THEN <<a, b>>[n] ELSE rest[n - 2]
  BY <1>3, <1>4, ConcatProperties
<1> HIDE DEF new
<1>6. Len(new) = m + 1 /\ new[1] = a /\ new[2] = b
  BY <1>1, <1>4, <1>5
<1>7. ASSUME NEW n \in 2..m PROVE new[n + 1] = old[n]
  <2>1. n + 1 \in 1..2 + (m - 1) /\ ~(n + 1 <= 2) /\ n - 1 \in 1..m - 1 BY <1>1
  <2>2. new[n + 1] = rest[(n + 1) - 2] BY <1>5, <2>1
  <2>3. (n + 1) - 2 = n - 1 /\ (n - 1) + 1 = n BY <1>1
  <2>4. rest[n - 1] = old[(n - 1) + 1] BY <1>3, <2>1
  <2> QED BY <2>2, <2>3, <2>4
<1>8. new # <<>> BY <1>1, <1>5, <1>6
<1>9. new[m + 1].last = LastPoint
  <2>1. CASE m = 1 BY <1>1, <1>6, <2>1 DEF m
  <2>2. CASE m # 1
    <3>1. m \in 2..m BY <1>1, <2>2
    <3> QED BY <1>1, <1>7, <3>1
  <2> QED BY <2>1, <2>2
<1>10. ASSUME NEW n \in 1..m PROVE new[n + 1].first = new[n].last + 1
  <2>1. CASE n = 1 BY <1>6, <2>1
  <2>2. CASE n = 2
    <3>1. 1 \in 1..m - 1 /\ 2 \in 2..m BY <1>1, <2>2
    <3>2. new[2 + 1] = old[2] /\ old[1 + 1].first = old[1].last + 1 BY <1>2, <1>7, <3>1
    <3> QED BY <1>6, <2>2, <3>2
  <2>3. CASE n \notin {1, 2}
    <3>1. n \in 2..m /\ n - 1 \in 2..m /\ n - 1 \in 1..m - 1 /\ (n - 1) + 1 = n BY <1>1, <2>3
    <3>2. new[n + 1] = old[n] /\ new[(n - 1) + 1] = old[n - 1] BY <1>7, <3>1
    <3>3. old[(n - 1) + 1].first = old[n - 1].last + 1 BY <1>2, <3>1
    <3> QED BY <3>1, <3>2, <3>3
  <2> QED BY <2>1, <2>2, <2>3
<1>11. Covers(new, from) BY <1>1, <1>6, <1>8, <1>9, <1>10 DEF Covers
<1> QED BY <1>5, <1>11 DEF new, rest

LEMMA AcceptedParts ==
  ASSUME NEW me \in Reading, me.state = "reading", NEW range
  PROVE  /\ Accepted(me, range).todo = Tail(me.todo)
         /\ Accepted(me, range).state = IF Len(me.todo) = 1 THEN "complete" ELSE "reading"
         /\ Accepted(me, range).got = [p \in Points |-> me.got[p] + IF p \in range.first..range.last THEN rows[p] ELSE 0]
         /\ Accepted(me, range) \in [by : {me.by}, profile : {me.profile}, state : {Accepted(me, range).state},
                                     todo : {Tail(me.todo)}, got : {Accepted(me, range).got}]
<1>1. me = [by |-> me.by, profile |-> me.profile, state |-> me.state, todo |-> me.todo, got |-> me.got]
  BY DEF Reading
<1> QED BY <1>1 DEF Accepted

\* Reading the first range that is left: what is before it grows up to the next one.
LEMMA AcceptedReads ==
  ASSUME ReadersTyped, NEW me \in Reading, me.state = "reading",
         Covers(me.todo, me.todo[1].first), GivenBefore(me, me.todo[1].first), Given(Head(me.todo)) < Cap
  PROVE  LET you == Accepted(me, Head(me.todo))
         IN  /\ you \in Reading
             /\ you.state = "reading" => Covers(you.todo, you.todo[1].first) /\ GivenBefore(you, you.todo[1].first)
             /\ you.state = "complete" => GivenBefore(you, LastPoint + 1)
<1> DEFINE todo == me.todo  range == Head(me.todo)  you == Accepted(me, range)  next == range.last + 1
<1>1. todo \in Seq(Ranges) BY DEF Reading
<1>2. /\ range = todo[1] /\ range \in Ranges /\ Tail(todo) \in Seq(Ranges)
      /\ Len(todo) = 1 => next = LastPoint + 1
      /\ Len(todo) # 1 => Covers(Tail(todo), next)
  <2> HIDE DEF todo
  <2> QED BY <1>1, CoversRest DEF todo
<1>3. /\ you.todo = Tail(todo)
      /\ you.state = IF Len(todo) = 1 THEN "complete" ELSE "reading"
      /\ you.got = [p \in Points |-> me.got[p] + IF p \in range.first..range.last THEN rows[p] ELSE 0]
      /\ you \in [by : {me.by}, profile : {me.profile}, state : {you.state}, todo : {Tail(todo)}, got : {you.got}]
  BY AcceptedParts
<1>4. \A p \in Points : rows[p] \in Nat /\ me.got[p] \in Nat /\ p \in Nat
  BY TushareAssumption DEF ReadersTyped, Reading, Points
<1>5. me.by \in {"days", "weeks"} /\ me.profile \in Limits
  BY DEF Reading
<1> HIDE DEF you
<1>6. you \in Reading
  <2>1. you.got \in [Points -> Nat] BY <1>3, <1>4
  <2>2. you.state \in {"reading", "complete"} BY <1>3
  <2> QED BY <1>2, <1>3, <1>5, <2>1, <2>2 DEF Reading
<1>7. GivenBefore(you, next)
  <2> SUFFICES ASSUME NEW p \in Points
               PROVE  (you.got[p] = IF p < next THEN rows[p] ELSE 0) /\ (p < next => rows[p] < Cap)
    BY DEF GivenBefore
  <2>1. you.got[p] = me.got[p] + IF p \in range.first..range.last THEN rows[p] ELSE 0
    BY <1>3
  <2>2. (me.got[p] = IF p < range.first THEN rows[p] ELSE 0) /\ (p < range.first => rows[p] < Cap)
    BY <1>2 DEF GivenBefore
  <2>3. p \in range.first..range.last => rows[p] < Cap
    BY <1>2, NotCutOff
  <2>4. range.first \in Nat /\ range.last \in Nat /\ range.first <= range.last
    BY <1>2 DEF Ranges, Points
  <2> HIDE DEF range
  <2> QED BY <1>4, <2>1, <2>2, <2>3, <2>4
<1>8. Len(todo) # 1 => you.todo[1].first = next
  BY <1>2, <1>3 DEF Covers
<1> QED BY <1>2, <1>3, <1>6, <1>7, <1>8 DEF you

\* Reading it in two parts instead.
LEMMA SplitReads ==
  ASSUME NEW me \in Reading, Covers(me.todo, me.todo[1].first), me.todo[1].first # me.todo[1].last
  PROVE  LET todo == Split(me.by, Head(me.todo)) \o Tail(me.todo)
         IN  todo \in Seq(Ranges) /\ Covers(todo, me.todo[1].first)
<1> DEFINE old == me.todo
<1>1. old \in Seq(Ranges) BY DEF Reading
<1> HIDE DEF old
<1>2. Head(old) = old[1] /\ old[1] \in Ranges BY <1>1, CoversRest DEF old
<1>3. PICK a, b \in Ranges : /\ Split(me.by, Head(old)) = <<a, b>>
                             /\ a.first = old[1].first /\ b.first = a.last + 1 /\ b.last = old[1].last
  BY <1>2, SplitRanges DEF old
<1> QED BY <1>1, <1>3, CoversParts DEF old

\* What one reader is, apart from the others.
Fits(me) ==
  /\ me.state = "reading" => Covers(me.todo, me.todo[1].first) /\ GivenBefore(me, me.todo[1].first)
  /\ me.state = "complete" => GivenBefore(me, LastPoint + 1)

LEMMA ReadersStart == TuInit => ReadInv
<1> SUFFICES ASSUME TuInit PROVE ReadInv OBVIOUS
<1>1. PICK by \in {"days", "weeks"}, profile \in [Readers -> Limits] : reader = [r \in Readers |-> Unread(by, profile[r])]
  BY DEF TuInit
<1>2. ASSUME NEW r \in Readers PROVE reader[r] = Unread(by, profile[r]) /\ profile[r] \in Limits
  BY <1>1
<1>3. rows \in [Points -> 0..Cap] BY DEF TuInit
<1>4. ASSUME NEW limit_ \in Limits PROVE Unread(by, limit_) \in Reading
  <2>1. [first |-> 1, last |-> LastPoint] \in Ranges BY TushareAssumption DEF Ranges, Points
  <2>2. <<[first |-> 1, last |-> LastPoint]>> \in Seq(Ranges) BY <2>1
  <2>3. [p \in Points |-> 0] \in [Points -> Nat] OBVIOUS
  <2> QED BY <2>2, <2>3 DEF Unread, Reading
<1>5. ReadersTyped BY <1>1, <1>2, <1>3, <1>4 DEF ReadersTyped
<1>6. ASSUME NEW r \in Readers PROVE Fits(reader[r])
  BY <1>2, <1>5, UnreadReads DEF Fits
<1> QED BY <1>5, <1>6 DEF ReadInv, ReadInOrder, Fits

LEMMA ReadersStep == ReadInv /\ [TuNext]_tuVars => ReadInv'
<1> SUFFICES ASSUME ReadInv, [TuNext]_tuVars PROVE ReadInv' OBVIOUS
<1>0. ReadersTyped /\ \A r \in Readers : Fits(reader[r])
  BY DEF ReadInv, ReadInOrder, Fits
<1>1. CASE UNCHANGED <<rows, reader>>
  BY <1>1 DEF ReadInv, ReadersTyped, ReadInOrder, GivenBefore
<1>2. ASSUME NEW r \in Readers, NEW you \in Reading, Fits(you), UNCHANGED rows, reader' = [reader EXCEPT ![r] = you]
      PROVE  ReadInv'
  <2>1. ReadersTyped' BY <1>0, <1>2 DEF ReadersTyped
  <2>2. \A q \in Readers : Fits(reader'[q]) BY <1>0, <1>2 DEF ReadersTyped
  <2> QED BY <1>2, <2>1, <2>2 DEF ReadInv, ReadInOrder, Fits, GivenBefore
<1>3. ASSUME NEW r \in Readers, Request(r) PROVE ReadInv'
  <2> DEFINE me == reader[r]  range == Head(me.todo)
  <2>1. me \in Reading /\ me.state = "reading" /\ Covers(me.todo, me.todo[1].first) /\ GivenBefore(me, me.todo[1].first)
    BY <1>0, <1>3 DEF Request, Fits, ReadersTyped
  <2>2. range = me.todo[1] /\ UNCHANGED rows
    BY <1>3, <2>1, CoversRest DEF Request, Reading
  <2>3. CASE Given(range) < Cap
    <3>1. reader' = [reader EXCEPT ![r] = Accepted(me, range)] BY <1>3, <2>3 DEF Request
    <3>2. Accepted(me, range) \in Reading /\ Fits(Accepted(me, range))
      <4> HIDE DEF me
      <4> QED BY <1>0, <2>1, <2>3, AcceptedReads DEF Fits
    <3> QED BY <1>2, <2>2, <3>1, <3>2
  <2>4. CASE ~(Given(range) < Cap) /\ range.first = range.last
    <3> DEFINE you == [me EXCEPT !.state = "incomplete"]
    <3>1. reader' = [reader EXCEPT ![r] = you] BY <1>3, <2>4 DEF Request
    <3>2. you \in Reading /\ you.state = "incomplete" BY <2>1 DEF Reading
    <3> HIDE DEF you
    <3> QED BY <1>2, <2>2, <3>1, <3>2 DEF Fits
  <2>5. CASE ~(Given(range) < Cap) /\ range.first # range.last
    <3> DEFINE todo == Split(me.by, range) \o Tail(me.todo)  you == [me EXCEPT !.todo = todo]
    <3>1. reader' = [reader EXCEPT ![r] = you] BY <1>3, <2>5 DEF Request
    <3>2. todo \in Seq(Ranges) /\ Covers(todo, me.todo[1].first)
      <4> HIDE DEF me
      <4> QED BY <2>1, <2>2, <2>5, SplitReads
    <3> HIDE DEF todo
    <3>3. you \in Reading /\ you.state = "reading" /\ you.todo = todo /\ you.got = me.got
      BY <2>1, <3>2 DEF Reading
    <3> HIDE DEF you, me
    <3>4. you.todo[1].first = me.todo[1].first BY <3>2, <3>3 DEF Covers
    <3>5. Fits(you) BY <2>1, <3>2, <3>3, <3>4 DEF Fits, GivenBefore
    <3> QED BY <1>2, <2>2, <3>1, <3>3, <3>5
  <2> QED BY <2>3, <2>4, <2>5
<1>4. ASSUME NEW r \in Readers, RequestFails(r) PROVE ReadInv'
  <2> DEFINE me == reader[r]
  <2>1. me \in Reading /\ me.by \in {"days", "weeks"} /\ me.profile \in Limits /\ UNCHANGED rows
    BY <1>0, <1>4 DEF RequestFails, ReadersTyped, Reading
  <2>2. CASE reader' = [reader EXCEPT ![r] = Unread(me.by, me.profile)]
    <3>1. Unread(me.by, me.profile) \in Reading /\ Fits(Unread(me.by, me.profile))
      <4> HIDE DEF me
      <4> QED BY <1>0, <2>1, UnreadReads DEF Fits
    <3> QED BY <1>2, <2>1, <2>2, <3>1
  <2>3. CASE reader' = [reader EXCEPT ![r] = [me EXCEPT !.state = "failed"]]
    <3> DEFINE you == [me EXCEPT !.state = "failed"]
    <3>1. you \in Reading /\ you.state = "failed" BY <2>1 DEF Reading
    <3> HIDE DEF you
    <3> QED BY <1>2, <2>1, <2>3, <3>1 DEF Fits, you
  <2> QED BY <1>4, <2>2, <2>3 DEF RequestFails
<1>5. CASE Tick BY <1>1, <1>5 DEF Tick
<1> QED BY <1>1, <1>3, <1>4, <1>5 DEF TuNext, tuVars

(* A range of any length that is reported as read holds every row the provider
   has of each of its points once, whatever its limit of rows and however the
   range was split, and the calls of any number of readers failed; with a point
   that has as many rows as the limit it is never reported as read (tushare.py
   bounded). *)
THEOREM ReadWhole == TuSpec => []CompleteOrRefused
<1>1. ReadInv => CompleteOrRefused
  <2> SUFFICES ASSUME ReadInv, NEW r \in Readers, reader[r].state = "complete"
               PROVE  reader[r].got = rows /\ \A p \in Points : rows[p] # Cap
    BY DEF CompleteOrRefused
  <2>1. GivenBefore(reader[r], LastPoint + 1) /\ reader[r] \in Reading
        /\ rows \in [Points -> 0..Cap] /\ Cap \in Nat
    BY TushareAssumption DEF ReadInv, ReadInOrder, ReadersTyped
  <2>2. ASSUME NEW p \in Points PROVE reader[r].got[p] = rows[p] /\ rows[p] < Cap /\ rows[p] \in Nat
    <3>1. p < LastPoint + 1 BY TushareAssumption DEF Points
    <3> QED BY <2>1, <3>1 DEF GivenBefore
  <2>3. reader[r].got \in [Points -> Nat] BY <2>1 DEF Reading
  <2>4. reader[r].got = rows BY <2>1, <2>2, <2>3
  <2>5. \A p \in Points : rows[p] # Cap BY <2>1, <2>2
  <2> QED BY <2>4, <2>5
<1> QED BY <1>1, ReadersStart, ReadersStep, PTL DEF TuSpec

-----------------------------------------------------------------------------
(* The scheduler.  The days that are saved have no gap after the last one  *)
(* that is queued, as long as the other jobs of the market leave none, so  *)
(* that neither the calendar's answer nor what is saved of it skips a day. *)

SchedTyped ==
  /\ today \in AllDays /\ evening \in BOOLEAN /\ open \subseteq AllDays
  /\ scope \in [kind : {"dataset", "maintenance"}, mode : {"bars", "natural"}, enabled : BOOLEAN, since : AllDays]
  /\ scope.since <= today
  /\ queued \subseteq [start : Int, end : AllDays] /\ \A range \in queued : range.end <= Cutoff
  /\ saved \subseteq open /\ \A d \in saved : d <= today

SavedWithoutGap ==
  scope.mode = "bars" => \A e \in saved, d \in open : Earliest <= d /\ d < e => d \in saved

SchedInv == SchedTyped /\ SavedWithoutGap /\ NoDaySkipped

\* The last day of a set of ranges.
LastOf(ranges) == Max({0} \union {range.end : range \in ranges})

LEMMA LastOfRanges ==
  ASSUME NEW ranges \in SUBSET [start : Int, end : AllDays]
  PROVE  /\ LastOf(ranges) \in 0..LastDay
         /\ \A range \in ranges : range.end <= LastOf(ranges)
         /\ LastOf(ranges) = 0 \/ \E range \in ranges : range.end = LastOf(ranges)
<1> DEFINE S == {0} \union {range.end : range \in ranges}
<1>1. S \in SUBSET (0..LastDay) /\ S # {}
  BY ScheduleAssumption DEF AllDays
<1>2. Max(S) \in S /\ \A y \in S : y <= Max(S)
  <2> HIDE DEF S
  <2> QED BY <1>1, ScheduleAssumption, Greatest
<1> QED BY <1>1, <1>2 DEF LastOf

LEMMA Days ==
  ASSUME SchedTyped
  PROVE  /\ Cutoff \in 0..LastDay /\ Cutoff <= today /\ today <= Cutoff + 1
         /\ LastQueued = LastOf(queued) /\ LastQueued \in 0..LastDay /\ LastQueued <= Cutoff
         /\ Earliest \in 0..LastDay + 1 /\ First \in Int /\ First <= Earliest
<1>1. Cutoff \in 0..LastDay /\ Cutoff <= today /\ today <= Cutoff + 1
  BY ScheduleAssumption DEF SchedTyped, Cutoff, AllDays
<1>2. LastQueued = LastOf(queued) BY DEF LastQueued, LastOf
<1>3. LastQueued \in 0..LastDay /\ LastQueued <= Cutoff
  BY <1>1, <1>2, LastOfRanges DEF SchedTyped
<1>4. Earliest \in 0..LastDay + 1
  BY <1>1, <1>3, ScheduleAssumption DEF Earliest, SchedTyped, AllDays
<1>5. First \in Int /\ First <= Earliest
  <2>1. Max({CalendarDays, 3 * Lookback}) \in Int
    BY ScheduleAssumption, GreatestOfTwo
  <2>2. Cutoff - Max({CalendarDays, 3 * Lookback}) \in Int /\ Earliest \in Int BY <1>1, <1>4, <2>1
  <2> QED BY <2>2, LeastOfTwo DEF First
<1> QED BY <1>1, <1>2, <1>3, <1>4, <1>5

LEMMA DaysLater ==
  SchedTyped' => (Earliest \in Int /\ LastQueued \in Int /\ LastQueued <= Cutoff)'
<1>1. SchedTyped => (Earliest \in Int /\ LastQueued \in Int /\ LastQueued <= Cutoff)
  BY Days, ScheduleAssumption
<1> QED BY <1>1, PTL

\* What is queued for dates that leave out no open day from the earliest one that is due to the last of them.
LEMMA EnqueuedSkipsNone ==
  ASSUME SchedInv, scope.mode = "bars", NEW dates \in SUBSET open, \A e \in dates : e <= Cutoff,
         \A e \in dates, d \in open : Earliest <= d /\ d < e => d \in dates,
         queued' = Enqueued(dates), UNCHANGED <<today, evening, open, scope>>
  PROVE  /\ queued' \subseteq [start : Int, end : AllDays] /\ \A range \in queued' : range.end <= Cutoff
         /\ NoDaySkipped' /\ Earliest <= Earliest'
<1> DEFINE due == Applicable(dates)  new == DueRange(dates)
<1>1. CASE ~Ready(dates)
  <2>1. queued' = queued BY <1>1 DEF Enqueued
  <2>2. Earliest' = Earliest BY <2>1 DEF Earliest, LastQueued, Cutoff
  <2> QED BY <2>1, <2>2, Days DEF SchedInv, SchedTyped, NoDaySkipped, LastQueued
<1>2. CASE Ready(dates)
  <2> HIDE DEF new
  <2>0. SchedTyped /\ dates \subseteq AllDays /\ LastDay \in Nat /\ AllDays = 1..LastDay
    BY ScheduleAssumption DEF SchedInv, SchedTyped, AllDays
  <2>1. due \in SUBSET (0..LastDay) /\ due \in SUBSET Nat /\ due # {} /\ due = {d \in dates : d >= Earliest}
    <3>1. due = {d \in dates : d >= Earliest} BY DEF Applicable
    <3>2. due # {} BY <1>2 DEF Ready
    <3> HIDE DEF due
    <3>3. due \subseteq dates BY <3>1
    <3>4. AllDays \subseteq 0..LastDay /\ AllDays \subseteq Nat BY <2>0
    <3> QED BY <2>0, <3>1, <3>2, <3>3, <3>4
  <2> HIDE DEF due
  <2>2. Min(due) \in due /\ Max(due) \in due /\ \A d \in due : Min(due) <= d /\ d <= Max(due)
    BY <2>0, <2>1, Least, Greatest
  <2>3. Nth(dates, Lookback) \in Int
    <3>1. AllDays \subseteq 0..LastDay BY <2>0
    <3>2. dates \in SUBSET (0..LastDay) /\ Cardinality(dates) >= Lookback BY <1>2, <2>0, <3>1 DEF Ready
    <3>3. Nth(dates, Lookback) \in dates BY <2>0, <3>2, ScheduleAssumption, NthIsThere
    <3>4. dates \subseteq Int BY <2>0
    <3> QED BY <3>3, <3>4
  <2>4. new.end = Max(due) /\ new.start \in Int /\ new.start <= Min(due) /\ new = [start |-> new.start, end |-> Max(due)]
    <3>1. Min(due) \in Int BY <2>1, <2>2
    <3> QED BY <2>3, <3>1, LeastOfTwo DEF DueRange, due, new
  <2>5. queued' = queued \union {new} BY <1>2 DEF Enqueued, new
  <2>6. /\ new.end \in AllDays /\ new.end <= Cutoff /\ Earliest <= new.end
        /\ new \in [start : Int, end : AllDays]
    BY <2>0, <2>1, <2>2, <2>4
  <2>7. queued' \subseteq [start : Int, end : AllDays] /\ \A range \in queued' : range.end <= Cutoff
    BY <2>5, <2>6 DEF SchedInv, SchedTyped
  <2>8. /\ LastQueued' \in 0..LastDay /\ new.end <= LastQueued' /\ LastQueued <= LastQueued'
        /\ LastQueued' \in {new.end, LastQueued}
    <3>1. LastQueued' = LastOf(queued') BY DEF LastQueued, LastOf
    <3>2. LastQueued = LastOf(queued) /\ queued \subseteq [start : Int, end : AllDays]
      BY Days DEF SchedInv, SchedTyped
    <3>3. /\ LastOf(queued') \in 0..LastDay /\ \A range \in queued' : range.end <= LastOf(queued')
          /\ LastOf(queued') = 0 \/ \E range \in queued' : range.end = LastOf(queued')
      BY <2>7, LastOfRanges
    <3>4. /\ LastOf(queued) \in 0..LastDay /\ \A range \in queued : range.end <= LastOf(queued)
          /\ LastOf(queued) = 0 \/ \E range \in queued : range.end = LastOf(queued)
      BY <3>2, LastOfRanges
    <3>5. LastOf(queued) <= LastOf(queued') BY <2>5, <3>3, <3>4
    <3>6. new.end \in 1..LastDay BY <2>0, <2>6
    <3> QED BY <2>5, <3>1, <3>2, <3>3, <3>4, <3>5, <3>6
  <2>9. Earliest <= Earliest'
    <3>1. queued' # {} BY <2>5
    <3>2. Earliest' = LastQueued' + 1 BY <3>1 DEF Earliest
    <3> QED BY <2>0, <2>6, <2>8, <3>2, Days
  <2>10. NoDaySkipped'
    <3> SUFFICES ASSUME NEW d \in AllDays, d \in open, NEW early \in queued', early.start <= d, d <= LastQueued'
                 PROVE  \E range \in queued' : range.start <= d /\ d <= range.end
      BY DEF NoDaySkipped
    <3>1. CASE new.start <= d /\ d <= new.end BY <2>5, <3>1
    <3>2. CASE d <= LastQueued /\ early \in queued
      <4>1. \E range \in queued : range.start <= d /\ d <= range.end
        BY <3>2 DEF SchedInv, NoDaySkipped
      <4> QED BY <2>5, <4>1
    <3>3. CASE ~(new.start <= d /\ d <= new.end) /\ ~(d <= LastQueued /\ early \in queued)
      <4>0. d \in Int /\ new.start \in Int /\ new.end \in Int /\ LastQueued \in Int /\ Min(due) \in Int
        BY <2>0, <2>1, <2>2, <2>4, <2>6, Days
      <4>1. CASE early = new
        <5>1. new.end < d BY <3>3, <4>0, <4>1
        <5>2. d <= LastQueued /\ LastQueued' = LastQueued BY <2>8, <4>0, <5>1
        \* Then new lies before what was queued, and it would not be due.
        <5>3. queued # {}
          <6>1. ASSUME queued = {} PROVE LastQueued = 0
            <7>1. LastQueued = LastOf(queued) BY <2>0, Days
            <7> QED BY <2>0, <6>1, <7>1, LastOfRanges
          <6> QED BY <2>0, <5>2, <6>1
        <5>4. Earliest = LastQueued + 1 BY <5>3 DEF Earliest
        <5> QED BY <2>6, <4>0, <5>1, <5>2, <5>4
      <4>2. CASE early # new
        <5>1. early \in queued BY <2>5, <4>2
        <5>2. LastQueued < d BY <3>3, <4>0, <5>1
        <5>3. d <= new.end BY <2>8, <4>0, <5>2
        <5>4. d < Min(due) BY <2>4, <3>3, <4>0, <5>3
        <5>5. Earliest = LastQueued + 1 BY <5>1 DEF Earliest
        <5>6. Earliest <= d /\ d < Min(due) /\ Min(due) \in dates
          BY <2>1, <2>2, <4>0, <5>2, <5>4, <5>5
        <5>7. d \in dates BY <5>6
        <5>8. d \in due BY <2>1, <4>0, <5>6, <5>7, <5>5
        <5> QED BY <2>2, <4>0, <5>4, <5>8
      <4> QED BY <4>1, <4>2
    <3> QED BY <3>1, <3>2, <3>3
  <2> QED BY <2>7, <2>9, <2>10
<1> QED BY <1>1, <1>2

\* While the scope stays and nothing is queued, a later clock or day it was enabled leaves out no more days.
LEMMA SkipsNoneLater ==
  ASSUME SchedInv, UNCHANGED <<open, queued>>, scope'.mode = scope.mode
  PROVE  NoDaySkipped'
BY DEF SchedInv, NoDaySkipped, LastQueued

LEMMA SavedLater ==
  ASSUME SchedInv, UNCHANGED <<open, saved>>, scope'.mode = scope.mode, Earliest' \in Int, Earliest <= Earliest'
  PROVE  SavedWithoutGap'
<1> SUFFICES ASSUME scope.mode = "bars", NEW e \in saved, NEW d \in open, Earliest' <= d, d < e
             PROVE  d \in saved
  BY DEF SavedWithoutGap
<1>1. d \in Int /\ Earliest \in Int
  BY Days, ScheduleAssumption DEF SchedInv, SchedTyped, AllDays
<1>2. Earliest <= d BY <1>1
<1> QED BY <1>2 DEF SchedInv, SavedWithoutGap

LEMMA SchedStart == SchedInit => SchedInv
<1> SUFFICES ASSUME SchedInit PROVE SchedInv
  OBVIOUS
<1>0. Past + 1 \in AllDays /\ Past \in Nat /\ LastDay \in Nat BY ScheduleAssumption DEF AllDays
<1>1. PICK rest \in SUBSET (Past + 1..LastDay) : open = 1..Past \union rest BY DEF SchedInit
<1>2. open \subseteq AllDays
  <2>1. 1..Past \subseteq 1..LastDay /\ Past + 1..LastDay \subseteq 1..LastDay
    BY <1>0, ScheduleAssumption
  <2> QED BY <1>1, <2>1 DEF AllDays
<1>3. scope \in [kind : {"dataset", "maintenance"}, mode : {"bars", "natural"}, enabled : BOOLEAN, since : AllDays]
      /\ scope.since = Past + 1
  BY <1>0 DEF SchedInit
<1>4. SchedTyped
  <2>1. today \in AllDays /\ evening \in BOOLEAN /\ scope.since <= today /\ queued = {} /\ saved = {}
    <3>1. today = Past + 1 /\ queued = {} /\ saved = {} BY DEF SchedInit
    <3>2. evening \in BOOLEAN BY Zenon DEF SchedInit
    <3>3. Past + 1 <= Past + 1 BY <1>0
    <3> QED BY <1>0, <1>3, <3>1, <3>2, <3>3
  <2>2. queued \subseteq [start : Int, end : AllDays] /\ \A range \in queued : range.end <= Cutoff BY <2>1
  <2>3. saved \subseteq open /\ \A d \in saved : d <= today BY <2>1
  <2> HIDE DEF Cutoff
  <2> QED BY <1>2, <1>3, <2>1, <2>2, <2>3 DEF SchedTyped
<1> QED BY <1>4 DEF SchedInit, SchedInv, SavedWithoutGap, NoDaySkipped

LEMMA CalendarKeeps ==
  ASSUME SchedInv, CalendarAnswers \/ \E refused \in BOOLEAN : CalendarFails(refused)
  PROVE  SchedInv'
<1> DEFINE FullOf(dates) ==
      /\ dates \in SUBSET open /\ \A e \in dates : e <= Cutoff
      /\ \A e \in dates, d \in open : Earliest <= d /\ d < e => d \in dates
<1>0. SchedTyped /\ open \subseteq Int /\ Cutoff \in Int /\ Earliest \in Int /\ First \in Int /\ First <= Earliest
      /\ today \in Int /\ Cutoff <= today
  BY Days, ScheduleAssumption DEF SchedInv, SchedTyped, AllDays
<1>1. CASE CalendarAnswers
  <2>1. PICK latest \in {today - 1, today} :
          saved' = saved \union Answer(latest) /\ queued' = Enqueued(Answer(latest))
    BY <1>1 DEF CalendarAnswers
  <2>2. scope.mode = "bars" /\ UNCHANGED <<today, evening, open, scope>> BY <1>1 DEF CalendarAnswers
  <2>3. FullOf(Answer(latest))
    <3>0. latest \in Int BY <1>0, <2>1
    <3>1. Answer(latest) \in SUBSET open /\ \A e \in Answer(latest) : e <= Cutoff BY DEF Answer
    <3>2. ASSUME NEW e \in Answer(latest), NEW d \in open, Earliest <= d, d < e PROVE d \in Answer(latest)
      <4>1. d \in Int /\ e \in Int BY <1>0, <3>1
      <4>2. e <= Cutoff /\ e <= latest BY DEF Answer
      <4>3. First <= d /\ d <= Cutoff /\ d <= latest BY <1>0, <3>0, <3>2, <4>1, <4>2
      <4> QED BY <4>3 DEF Answer
    <3> QED BY <3>1, <3>2
  <2>4. /\ queued' \subseteq [start : Int, end : AllDays] /\ \A range \in queued' : range.end <= Cutoff
        /\ NoDaySkipped' /\ Earliest <= Earliest'
    <3> HIDE DEF Cutoff
    <3> QED BY <2>1, <2>2, <2>3, EnqueuedSkipsNone
  <2>5. SchedTyped'
    <3>1. Cutoff' = Cutoff BY <2>2 DEF Cutoff
    <3>2. \A d \in Answer(latest) : d \in open /\ d <= today
      BY <1>0 DEF Answer
    <3> QED BY <1>0, <2>1, <2>2, <2>4, <3>1, <3>2 DEF SchedTyped
  <2>6. SavedWithoutGap'
    <3>1. Earliest' \in Int BY <2>5, DaysLater
    <3> SUFFICES ASSUME NEW e \in saved', NEW d \in open, Earliest' <= d, d < e PROVE d \in saved'
      BY <2>2 DEF SavedWithoutGap
    <3>2. Earliest <= d BY <1>0, <2>4, <3>1
    <3> QED BY <2>1, <2>2, <2>3, <3>2 DEF SchedInv, SavedWithoutGap
  <2> QED BY <2>4, <2>5, <2>6 DEF SchedInv
<1>2. CASE \E refused \in BOOLEAN : CalendarFails(refused)
  <2> DEFINE dates == {d \in saved : First <= d /\ d <= Cutoff}
  <2>1. scope.mode = "bars" /\ UNCHANGED <<today, evening, open, scope, saved>> /\ queued' = Enqueued(dates)
    BY <1>2 DEF CalendarFails
  <2>2. FullOf(dates)
    <3>1. dates \in SUBSET open /\ \A e \in dates : e <= Cutoff BY <1>0 DEF SchedTyped
    <3>2. ASSUME NEW e \in dates, NEW d \in open, Earliest <= d, d < e PROVE d \in dates
      <4>1. d \in Int /\ e \in Int BY <1>0, <3>1
      <4>2. d \in saved BY <2>1, <3>2 DEF SchedInv, SavedWithoutGap
      <4>3. First <= d /\ d <= Cutoff BY <1>0, <3>1, <3>2, <4>1
      <4> QED BY <4>2, <4>3
    <3> QED BY <3>1, <3>2
  <2> HIDE DEF dates
  <2>3. /\ queued' \subseteq [start : Int, end : AllDays] /\ \A range \in queued' : range.end <= Cutoff
        /\ NoDaySkipped' /\ Earliest <= Earliest'
    BY <2>1, <2>2, EnqueuedSkipsNone
  <2>4. SchedTyped'
    <3>1. Cutoff' = Cutoff BY <2>1 DEF Cutoff
    <3> QED BY <1>0, <2>1, <2>3, <3>1 DEF SchedTyped
  <2>5. Earliest' \in Int BY <2>4, DaysLater
  <2>6. SavedWithoutGap' BY <2>1, <2>3, <2>5, SavedLater
  <2> QED BY <2>3, <2>4, <2>6 DEF SchedInv
<1> QED BY <1>1, <1>2

LEMMA NaturalKeeps == ASSUME SchedInv, NaturalDays PROVE SchedInv'
<1> DEFINE back == Cutoff - Lookback + 1
           new == [start |-> IF queued = {} THEN back ELSE Min({LastQueued, back}), end |-> Cutoff]
<1>1. /\ scope.mode = "natural" /\ UNCHANGED <<today, evening, open, scope, saved>>
      /\ queued' = queued \union {new} /\ LastQueued < Cutoff
  BY DEF NaturalDays, Due
<1>2. /\ Cutoff \in AllDays /\ LastQueued \in Int /\ AllDays \subseteq Int /\ back \in Int
      /\ Cutoff' = Cutoff /\ LastQueued = LastOf(queued) /\ queued \subseteq [start : Int, end : AllDays]
  <2>1. Cutoff \in 0..LastDay /\ LastQueued \in 0..LastDay /\ LastQueued = LastOf(queued)
    BY Days DEF SchedInv
  <2>2. AllDays = 1..LastDay /\ LastDay \in Nat /\ Lookback \in Int BY ScheduleAssumption DEF AllDays
  <2>3. Cutoff' = Cutoff BY <1>1 DEF Cutoff
  <2> QED BY <1>1, <2>1, <2>2, <2>3 DEF SchedInv, SchedTyped
<1>3. new.end = Cutoff /\ new.start \in Int /\ new.start <= back /\ (queued # {} => new.start <= LastQueued)
      /\ new \in [start : Int, end : AllDays]
  BY <1>2, LeastOfTwo
<1> HIDE DEF new
<1>4. queued' \subseteq [start : Int, end : AllDays] /\ \A range \in queued' : range.end <= Cutoff
  BY <1>1, <1>2, <1>3 DEF SchedInv, SchedTyped
<1>5. SchedTyped' BY <1>1, <1>2, <1>4 DEF SchedInv, SchedTyped
<1>6. LastQueued' <= Cutoff /\ LastQueued' \in Int
  BY <1>2, <1>5, DaysLater
<1>7. NoDaySkipped'
  <2> SUFFICES ASSUME NEW d \in AllDays, NEW early \in queued', early.start <= d, d <= LastQueued'
               PROVE  \E range \in queued' : range.start <= d /\ d <= range.end
    BY <1>1 DEF NoDaySkipped
  <2>1. d \in Int /\ d <= Cutoff /\ Cutoff \in Int BY <1>2, <1>6
  <2>2. CASE new.start <= d BY <1>1, <1>3, <2>1, <2>2
  <2>3. CASE ~(new.start <= d)
    <3>1. early \in queued BY <1>1, <2>3
    <3>2. d <= LastQueued BY <1>2, <1>3, <2>1, <2>3, <3>1
    <3>3. \E range \in queued : range.start <= d /\ d <= range.end
      BY <1>1, <3>1, <3>2 DEF SchedInv, NoDaySkipped
    <3> QED BY <1>1, <3>3
  <2> QED BY <2>2, <2>3
<1> QED BY <1>1, <1>5, <1>7 DEF SchedInv, SavedWithoutGap

LEMMA ClockKeeps == ASSUME SchedInv, Clock PROVE SchedInv'
<1>1. UNCHANGED <<open, scope, queued, saved>>
      /\ today' \in AllDays /\ evening' \in BOOLEAN /\ today <= today' /\ today \in AllDays /\ Cutoff <= Cutoff'
  <2>1. UNCHANGED <<open, scope, queued, saved>> BY DEF Clock
  <2>2. today \in AllDays /\ today \in Int /\ AllDays = 1..LastDay /\ LastDay \in Nat
    BY ScheduleAssumption DEF SchedInv, SchedTyped, AllDays
  <2>3. CASE ~evening /\ evening' = TRUE /\ today' = today BY <2>1, <2>2, <2>3 DEF Cutoff
  <2>4. CASE evening /\ today < LastDay /\ evening' = FALSE /\ today' = today + 1
    <3>1. Cutoff = today /\ Cutoff' = today' - 1 BY <2>4 DEF Cutoff
    <3>2. today' \in AllDays /\ today <= today' /\ today' - 1 = today /\ today <= today BY <2>2, <2>4
    <3>3. evening' \in BOOLEAN BY <2>4, Zenon
    <3>4. Cutoff <= Cutoff' BY <3>1, <3>2
    <3> QED BY <2>1, <2>2, <3>2, <3>3, <3>4
  <2> QED BY <2>3, <2>4 DEF Clock
<1>2. AllDays \subseteq Int /\ Cutoff \in Int /\ Cutoff' \in Int
  <2>1. AllDays \subseteq Int BY ScheduleAssumption DEF AllDays
  <2>2. today \in Int /\ today' \in Int BY <1>1, <2>1
  <2> QED BY <2>1, <2>2 DEF Cutoff
<1>3. SchedTyped'
  <2>1. \A range \in queued : range.end <= Cutoff'
    <3> HIDE DEF Cutoff
    <3>1. \A range \in queued : range.end \in Int /\ range.end <= Cutoff BY <1>2 DEF SchedInv, SchedTyped
    <3> QED BY <1>1, <1>2, <3>1
  <2>2. \A d \in saved : d <= today'
    <3>1. \A d \in saved : d \in Int /\ d <= today /\ today \in Int /\ today' \in Int
      BY <1>1, <1>2 DEF SchedInv, SchedTyped
    <3> QED BY <1>1, <3>1
  <2>3. scope.since <= today'
    <3>1. scope.since \in Int /\ scope.since <= today /\ today \in Int /\ today' \in Int
      BY <1>1, <1>2 DEF SchedInv, SchedTyped
    <3> QED BY <1>1, <3>1
  <2> QED BY <1>1, <2>1, <2>2, <2>3 DEF SchedInv, SchedTyped
<1>4. Earliest' \in Int BY <1>3, DaysLater
<1>5. Earliest <= Earliest'
  <2>1. Earliest \in Int BY Days DEF SchedInv
  <2> QED BY <1>1, <1>2, <1>4, <2>1 DEF Earliest, LastQueued
<1> QED BY <1>1, <1>3, <1>4, <1>5, SavedLater, SkipsNoneLater DEF SchedInv

LEMMA SwitchKeeps == ASSUME SchedInv, NEW enabled \in BOOLEAN, SetEnabled(enabled) PROVE SchedInv'
<1>1. /\ UNCHANGED <<today, evening, open, queued, saved>> /\ scope'.mode = scope.mode /\ scope'.kind = scope.kind
      /\ scope'.since \in {scope.since, today}
      /\ scope' \in [kind : {"dataset", "maintenance"}, mode : {"bars", "natural"}, enabled : BOOLEAN, since : AllDays]
  BY DEF SetEnabled, SchedInv, SchedTyped
<1>2. scope.since <= today /\ scope.since \in Int /\ today \in Int
  BY ScheduleAssumption DEF SchedInv, SchedTyped, AllDays
<1>3. SchedTyped' BY <1>1, <1>2 DEF SchedInv, SchedTyped, Cutoff
<1>4. Earliest' \in Int BY <1>3, DaysLater
<1>5. Earliest <= Earliest'
  <2>1. Earliest \in Int BY Days DEF SchedInv
  <2> QED BY <1>1, <1>2, <1>4, <2>1 DEF Earliest, LastQueued, Cutoff
<1> QED BY <1>1, <1>3, <1>4, <1>5, SavedLater, SkipsNoneLater DEF SchedInv

\* The only step of others that touches what is saved.
LEMMA ObservedKeeps ==
  ASSUME ~OthersLeaveGaps, SchedInv, NEW from \in AllDays, from <= today, DaysObserved(from..today)
  PROVE  SchedInv'
<1>1. /\ saved' = saved \union (from..today \intersect open) /\ UNCHANGED <<today, evening, open, scope, queued>>
      /\ \A d \in open : Earliest <= d /\ d < Min(from..today) => d \in saved
  BY DEF DaysObserved
<1>2. AllDays \subseteq Int /\ from \in Int /\ today \in Int /\ open \subseteq Int
  BY ScheduleAssumption DEF SchedInv, SchedTyped, AllDays
<1>3. Min(from..today) = from
  <2>1. from \in Nat /\ today \in Nat BY <1>2, ScheduleAssumption DEF SchedInv, SchedTyped, AllDays
  <2>2. from..today \in SUBSET Nat /\ from \in from..today BY <2>1
  <2>3. Min(from..today) \in from..today /\ \A y \in from..today : Min(from..today) <= y BY <2>2, Least
  <2> HIDE DEF Min
  <2> QED BY <2>1, <2>2, <2>3
<1>4. SchedTyped'
  <2>1. Cutoff' = Cutoff BY <1>1 DEF Cutoff
  <2>2. \A d \in saved' : d \in open /\ d <= today BY <1>1, <1>2 DEF SchedInv, SchedTyped
  <2> QED BY <1>1, <2>1, <2>2 DEF SchedInv, SchedTyped
<1>5. Earliest' = Earliest BY <1>1 DEF Earliest, LastQueued, Cutoff
<1>6. SavedWithoutGap'
  <2> SUFFICES ASSUME scope.mode = "bars", NEW e \in saved', NEW d \in open, Earliest <= d, d < e PROVE d \in saved'
    BY <1>1, <1>5 DEF SavedWithoutGap
  <2>1. CASE e \in saved BY <1>1, <2>1 DEF SchedInv, SavedWithoutGap
  <2>2. CASE e \in from..today
    <3>1. CASE d < from BY <1>1, <1>3, <3>1
    <3>2. CASE ~(d < from) BY <1>1, <1>2, <2>2, <3>2
    <3> QED BY <3>1, <3>2
  <2> QED BY <1>1, <2>1, <2>2
<1> QED BY <1>1, <1>4, <1>6, SkipsNoneLater DEF SchedInv

LEMMA SchedStep == ASSUME ~OthersLeaveGaps PROVE SchedInv /\ [SchedNext]_schedVars => SchedInv'
<1> SUFFICES ASSUME SchedInv, [SchedNext]_schedVars PROVE SchedInv'
  OBVIOUS
<1>1. CASE CalendarAnswers BY <1>1, CalendarKeeps
<1>2. CASE \E refused \in BOOLEAN : CalendarFails(refused) BY <1>2, CalendarKeeps
<1>3. CASE NaturalDays BY <1>3, NaturalKeeps
<1>4. CASE \E enabled \in BOOLEAN : SetEnabled(enabled) BY <1>4, SwitchKeeps
<1>5. CASE Unblocked \/ ProviderChanges \/ UNCHANGED schedVars
  <2>1. UNCHANGED <<today, evening, open, scope, queued, saved>>
    BY <1>5 DEF Unblocked, ProviderChanges, schedVars
  <2> QED BY <2>1 DEF SchedInv, SchedTyped, SavedWithoutGap, NoDaySkipped, LastQueued, Earliest, Cutoff
<1>6. CASE \E d \in AllDays : d <= today /\ DaysObserved(d..today) BY <1>6, ObservedKeeps
<1>7. CASE Clock BY <1>7, ClockKeeps
<1> QED BY <1>1, <1>2, <1>3, <1>4, <1>5, <1>6, <1>7 DEF SchedNext

(* Between the first and the last day of a scope's jobs every trading day is in
   one of them, for any calendar of the market, length of time, lookback and
   sequence of outages, late answers, refused accounts and times when the scope
   was disabled; as long as the other jobs of the market save no day after one
   they left out, without which it fails (maintenance.py schedule_scope,
   tasks.py calendar). *)
THEOREM NoDayIsSkipped == ASSUME ~OthersLeaveGaps PROVE SchedSpec => []NoDaySkipped
<1>1. SchedInv => NoDaySkipped BY DEF SchedInv
<1> QED BY <1>1, SchedStart, SchedStep, PTL DEF SchedSpec

-----------------------------------------------------------------------------
(* The exports.  The partial file of a run is what its snapshot holds up   *)
(* to the offset in the member that is read, in order, whatever the lanes  *)
(* have stored since.                                                      *)

\* The rank of the elements of a finite set of numbers grows with them, and there is one of each rank.
LEMMA RankGrows ==
  ASSUME NEW S \in SUBSET Nat, IsFiniteSet(S), NEW a \in S, NEW b \in S, a < b
  PROVE  Cardinality({u \in S : u <= a}) < Cardinality({u \in S : u <= b})
<1> DEFINE upA == {u \in S : u <= a}  upB == {u \in S : u <= b}
<1>1. upA \in SUBSET upB
  <2>1. \A u \in S : u \in Nat /\ a \in Nat /\ b \in Nat OBVIOUS
  <2>2. \A u \in S : u <= a => u <= b BY <2>1
  <2> QED BY <2>2
<1>2. b \in upB /\ b \notin upA OBVIOUS
<1>3. IsFiniteSet(upA) /\ IsFiniteSet(upB) /\ Cardinality(upA) \in Nat /\ Cardinality(upB) \in Nat
  BY FS_Subset, FS_CardinalityType
<1> HIDE DEF upA, upB
<1>4. Cardinality(upA) <= Cardinality(upB) /\ (Cardinality(upB) = Cardinality(upA) => upB = upA)
  BY <1>1, <1>3, FS_Subset
<1>5. Cardinality(upA) < Cardinality(upB) BY <1>2, <1>3, <1>4
<1> QED BY <1>5 DEF upA, upB

LEMMA RankOf ==
  ASSUME NEW m \in Nat, NEW S \in SUBSET (0..m), NEW t \in S
  PROVE  Cardinality({u \in S : u <= t}) \in 1..Cardinality(S)
<1> DEFINE upTo == {u \in S : u <= t}
<1>1. IsFiniteSet(S)
  <2>1. IsFiniteSet(0..m) BY FS_Interval
  <2> QED BY <2>1, FS_Subset
<1>2. upTo \in SUBSET S /\ t \in upTo /\ upTo # {} OBVIOUS
<1> HIDE DEF upTo
<1>3. IsFiniteSet(upTo) /\ Cardinality(upTo) \in Nat /\ Cardinality(upTo) <= Cardinality(S) /\ Cardinality(S) \in Nat
  BY <1>1, <1>2, FS_Subset, FS_CardinalityType
<1>4. Cardinality(upTo) # 0 BY <1>2, <1>3, FS_EmptySet
<1>5. Cardinality(upTo) \in 1..Cardinality(S) BY <1>3, <1>4
<1> QED BY <1>5 DEF upTo

LEMMA NthTimeIsThere ==
  ASSUME NEW m \in Nat, NEW S \in SUBSET (0..m), NEW n \in 1..Cardinality(S)
  PROVE  NthTime(S, n) \in S /\ Cardinality({u \in S : u <= NthTime(S, n)}) = n
<1>1. IsFiniteSet(S) /\ Cardinality(S) \in Nat
  <2>1. IsFiniteSet(0..m) BY FS_Interval
  <2> QED BY <2>1, FS_Subset, FS_CardinalityType
<1> DEFINE k == Cardinality(S) - n + 1
<1>2. k \in Nat \ {0} /\ Cardinality(S) >= k BY <1>1
<1>3. PICK d \in S : Cardinality({e \in S : e >= d}) = k
  <2> HIDE DEF k
  <2> QED BY <1>2, NthIsThere
<1> DEFINE from == {e \in S : e >= d}  upTo == {u \in S : u <= d}
<1>4. IsFiniteSet(from) /\ IsFiniteSet(upTo) /\ Cardinality(upTo) \in Nat BY <1>1, FS_Subset, FS_CardinalityType
<1>5. from \union upTo = S /\ from \intersect upTo = {d}
  <2>1. \A e \in S : e \in Nat /\ d \in Nat OBVIOUS
  <2>2. \A e \in S : e >= d \/ e <= d BY <2>1
  <2>3. \A e \in S : e >= d /\ e <= d <=> e = d BY <2>1
  <2> QED BY <2>2, <2>3
<1>6. Cardinality(from) = k BY <1>3
<1> HIDE DEF from, upTo
<1>7. Cardinality(S) = Cardinality(from) + Cardinality(upTo) - 1
  <2>1. Cardinality({d}) = 1 BY FS_Singleton
  <2>2. Cardinality(from \union upTo) = Cardinality(from) + Cardinality(upTo) - Cardinality(from \intersect upTo)
    BY <1>4, FS_Union
  <2> QED BY <1>5, <2>1, <2>2
<1>8. Cardinality(upTo) = n BY <1>1, <1>4, <1>6, <1>7
<1>9. \E t \in S : Cardinality({u \in S : u <= t}) = n BY <1>8 DEF upTo
<1> QED BY <1>9 DEF NthTime

BarsType == [Codes -> [Times -> Nat]]
RowType == Codes \X Times \X Nat

LEMMA RowsAreInOrder ==
  ASSUME NEW data \in BarsType, NEW code \in Codes
  PROVE  /\ RowsOf(data, code) \in Seq(RowType)
         /\ \A n \in 1..Len(RowsOf(data, code)) :
              RowsOf(data, code)[n][1] = code /\ RowsOf(data, code)[n] \in Stored(data)
         /\ \A n, k \in 1..Len(RowsOf(data, code)) :
              n < k => RowsOf(data, code)[n][2] < RowsOf(data, code)[k][2]
         /\ \A t \in TimesOf(data, code) :
              \E n \in 1..Len(RowsOf(data, code)) : RowsOf(data, code)[n] = <<code, t, data[code][t]>>
<1> DEFINE S == TimesOf(data, code)  K == Cardinality(S)  T(n) == NthTime(S, n)
<1>0. LastTime \in Nat BY ExportAssumption
<1>1. S \in SUBSET (0..LastTime) /\ S \in SUBSET Times /\ S \in SUBSET Nat
  BY <1>0 DEF TimesOf, Times
<1>2. IsFiniteSet(S) /\ K \in Nat
  <2>1. IsFiniteSet(0..LastTime) BY <1>0, FS_Interval
  <2> HIDE DEF S
  <2> QED BY <1>1, <2>1, FS_Subset, FS_CardinalityType
<1>3. RowsOf(data, code) = [n \in 1..K |-> <<code, T(n), data[code][T(n)]>>] BY DEF RowsOf
<1>4. \A t \in S : data[code][t] \in Nat /\ <<code, t, data[code][t]>> \in Stored(data)
  BY DEF TimesOf, BarsType, Stored
<1> HIDE DEF S, K
<1>5. \A n \in 1..K : T(n) \in S /\ Cardinality({u \in S : u <= T(n)}) = n
  BY <1>0, <1>1, NthTimeIsThere DEF K
<1> HIDE DEF T
<1>6. RowsOf(data, code) \in Seq(RowType) /\ Len(RowsOf(data, code)) = K
  <2>1. \A n \in 1..K : <<code, T(n), data[code][T(n)]>> \in RowType BY <1>1, <1>4, <1>5 DEF RowType
  <2> DEFINE row(n) == <<code, T(n), data[code][T(n)]>>
  <2>2. \A n \in 1..K : row(n) \in RowType BY <2>1
  <2> HIDE DEF row
  <2>3. [n \in 1..K |-> row(n)] \in Seq(RowType) /\ Len([n \in 1..K |-> row(n)]) = K BY <1>2, <2>2
  <2> QED BY <1>3, <2>3 DEF row
<1>7. \A n \in 1..K : RowsOf(data, code)[n] = <<code, T(n), data[code][T(n)]>> BY <1>3
<1>8. ASSUME NEW n \in 1..K, NEW k \in 1..K, n < k PROVE T(n) < T(k)
  <2>1. T(n) \in Nat /\ T(k) \in Nat BY <1>1, <1>5
  <2>2. T(k) # T(n)
    <3>1. n # k BY <1>2, <1>8
    <3> QED BY <1>5, <3>1
  <2>3. ASSUME T(k) < T(n) PROVE FALSE
    <3>1. Cardinality({u \in S : u <= T(k)}) < Cardinality({u \in S : u <= T(n)})
      BY <1>1, <1>2, <1>5, <2>3, RankGrows
    <3>2. k < n BY <1>5, <3>1
    <3> QED BY <1>2, <1>8, <3>2
  <2> QED BY <2>1, <2>2, <2>3
<1>9. ASSUME NEW t \in S PROVE \E n \in 1..K : T(n) = t
  <2> DEFINE n == Cardinality({u \in S : u <= t})
  <2>1. n \in 1..K BY <1>0, <1>1, RankOf DEF K
  <2>2. T(n) \in S /\ Cardinality({u \in S : u <= T(n)}) = n BY <1>5, <2>1
  <2>3. T(n) \in Nat /\ t \in Nat BY <1>1, <2>2
  <2>4. ~(T(n) < t)
    <3>1. ASSUME T(n) < t PROVE Cardinality({u \in S : u <= T(n)}) < n BY <1>1, <1>2, <2>2, <3>1, RankGrows
    <3> QED BY <2>1, <2>2, <3>1
  <2>5. ~(t < T(n))
    <3>1. ASSUME t < T(n) PROVE n < Cardinality({u \in S : u <= T(n)}) BY <1>1, <1>2, <2>2, <3>1, RankGrows
    <3> QED BY <2>1, <2>2, <3>1
  <2>6. T(n) = t BY <2>3, <2>4, <2>5
  <2> HIDE DEF n
  <2> QED BY <2>1, <2>6
<1>10. \A n \in 1..K : RowsOf(data, code)[n][1] = code /\ RowsOf(data, code)[n][2] = T(n)
                       /\ RowsOf(data, code)[n] \in Stored(data)
  <2> SUFFICES ASSUME NEW n \in 1..K
               PROVE  RowsOf(data, code)[n][1] = code /\ RowsOf(data, code)[n][2] = T(n)
                      /\ RowsOf(data, code)[n] \in Stored(data)
    OBVIOUS
  <2>1. RowsOf(data, code)[n] = <<code, T(n), data[code][T(n)]>> BY <1>7
  <2>2. <<code, T(n), data[code][T(n)]>> \in Stored(data) BY <1>4, <1>5
  <2> QED BY <2>1, <2>2
<1>11. \A n, k \in 1..K : n < k => RowsOf(data, code)[n][2] < RowsOf(data, code)[k][2] BY <1>8, <1>10
<1>12. \A t \in S : \E n \in 1..K : RowsOf(data, code)[n] = <<code, t, data[code][t]>> BY <1>7, <1>9
<1> QED BY <1>6, <1>10, <1>11, <1>12 DEF S

LEMMA MembersAreAll ==
  /\ Members \in Seq(Codes) /\ \A m, n \in 1..Len(Members) : Members[m] = Members[n] => m = n
  /\ \A c \in Codes : \E m \in 1..Len(Members) : Members[m] = c
  /\ DOMAIN Members = 1..Len(Members) /\ Len(Members) \in Nat
<1> DEFINE K == Cardinality(Codes)
<1>1. K \in Nat /\ ExistsBijection(1..K, Codes) BY ExportAssumption, FS_CardinalityType
<1>2. PICK f : f \in Bijection(1..K, Codes) BY <1>1 DEF ExistsBijection
<1>3. f \in [1..K -> Codes] /\ IsInjective(f) BY <1>2 DEF Bijection, Injection
<1>4. Members \in [1..K -> Codes] /\ IsInjective(Members) BY <1>3 DEF Members
<1>5. Members \in Injection(1..K, Codes) BY <1>4 DEF Injection
<1>6. Cardinality(1..K) = K /\ IsFiniteSet(1..K) BY <1>1, FS_Interval
<1>7. Members \in Surjection(1..K, Codes)
  <2> HIDE DEF K
  <2>1. Cardinality(1..K) = Cardinality(Codes) BY <1>6 DEF K
  <2> QED BY <1>5, <2>1, ExportAssumption, FS_Injection
<1> HIDE DEF K
<1>8. Members \in Seq(Codes) /\ Len(Members) = K /\ DOMAIN Members = 1..K BY <1>1, <1>4
<1> QED BY <1>1, <1>4, <1>7, <1>8 DEF IsInjective, Surjection

\* The places of the rows in what is read, those read up to a member and an offset in it.
Places(data) ==
  {p \in (1..Len(Members)) \X (Nat \ {0}) : p[2] <= Len(RowsOf(data, Members[p[1]]))}
RowAt(data, p) == RowsOf(data, Members[p[1]])[p[2]]
Reached(pos, p) == p[1] < pos.member \/ (p[1] = pos.member /\ p[2] <= pos.offset)

Copied(copy, data, pos) ==
  /\ copy \in Seq(RowType)
  /\ \A i \in 1..Len(copy) : \E p \in Places(data) : Reached(pos, p) /\ copy[i] = RowAt(data, p)
  /\ \A p \in Places(data) : Reached(pos, p) => \E i \in 1..Len(copy) : copy[i] = RowAt(data, p)
  /\ \A i, j \in 1..Len(copy) : i < j => Precedes(copy[i], copy[j])

Positions == [member : 1..Len(Members) + 1, offset : Nat]
Start == [member |-> 1, offset |-> 0]

LEMMA PlacesInOrder ==
  ASSUME NEW data \in BarsType, NEW p \in Places(data), NEW q \in Places(data),
         p[1] < q[1] \/ (p[1] = q[1] /\ p[2] < q[2])
  PROVE  Precedes(RowAt(data, p), RowAt(data, q))
<1>1. /\ p[1] \in 1..Len(Members) /\ p[2] \in 1..Len(RowsOf(data, Members[p[1]]))
      /\ q[1] \in 1..Len(Members) /\ q[2] \in 1..Len(RowsOf(data, Members[q[1]]))
  <2>1. Members[p[1]] \in Codes /\ Members[q[1]] \in Codes BY MembersAreAll DEF Places
  <2>2. /\ Len(RowsOf(data, Members[p[1]])) \in Nat /\ Len(RowsOf(data, Members[q[1]])) \in Nat
    BY <2>1, RowsAreInOrder
  <2> QED BY <2>2 DEF Places
<1>2. Members[p[1]] \in Codes /\ Members[q[1]] \in Codes BY <1>1, MembersAreAll
<1>3. RowAt(data, p)[1] = Members[p[1]] /\ RowAt(data, q)[1] = Members[q[1]]
  BY <1>1, <1>2, RowsAreInOrder DEF RowAt
<1>4. p[1] = q[1] /\ p[2] < q[2] => RowAt(data, p)[2] < RowAt(data, q)[2]
  BY <1>1, <1>2, RowsAreInOrder DEF RowAt
<1> QED BY <1>1, <1>3, <1>4, MembersAreAll DEF Precedes

LEMMA CopyStarts == ASSUME NEW data \in BarsType PROVE Copied(<<>>, data, Start)
<1>1. ASSUME NEW p \in Places(data) PROVE ~Reached(Start, p)
  <2>1. p[1] \in Nat /\ p[1] >= 1 /\ p[2] \in Nat /\ p[2] # 0 BY MembersAreAll DEF Places
  <2> QED BY <2>1 DEF Reached, Start
<1> QED BY <1>1 DEF Copied

\* A copy of everything lists the snapshot.
LEMMA CopyEnds ==
  ASSUME NEW data \in BarsType, NEW pos \in Positions, pos.member > Len(Members), NEW copy, Copied(copy, data, pos)
  PROVE  Lists(copy, data)
<1>1. ASSUME NEW p \in Places(data) PROVE Reached(pos, p)
  <2>1. p[1] \in 1..Len(Members) /\ pos.member \in Nat BY MembersAreAll DEF Places, Positions
  <2> QED BY <2>1, MembersAreAll DEF Reached
<1>2. copy \in Seq(RowType) /\ DOMAIN copy = 1..Len(copy) BY DEF Copied
<1>3. ASSUME NEW i \in 1..Len(copy) PROVE copy[i] \in Stored(data)
  <2>1. PICK p \in Places(data) : copy[i] = RowAt(data, p) BY DEF Copied
  <2>2. p[1] \in 1..Len(Members) /\ p[2] \in Nat \ {0} /\ p[2] <= Len(RowsOf(data, Members[p[1]])) BY DEF Places
  <2>3. Members[p[1]] \in Codes BY <2>2, MembersAreAll
  <2>4. p[2] \in 1..Len(RowsOf(data, Members[p[1]]))
    <3>1. Len(RowsOf(data, Members[p[1]])) \in Nat BY <2>3, RowsAreInOrder
    <3> QED BY <2>2, <3>1
  <2> QED BY <2>1, <2>3, <2>4, RowsAreInOrder DEF RowAt
<1>4. ASSUME NEW row \in Stored(data) PROVE \E i \in 1..Len(copy) : copy[i] = row
  <2>1. PICK c \in Codes : row \in {<<c, t, data[c][t]>> : t \in TimesOf(data, c)} BY DEF Stored
  <2>2. PICK t \in TimesOf(data, c) : row = <<c, t, data[c][t]>> BY <2>1
  <2>3. PICK n \in 1..Len(RowsOf(data, c)) : RowsOf(data, c)[n] = row BY <2>2, RowsAreInOrder
  <2>4. PICK m \in 1..Len(Members) : Members[m] = c BY MembersAreAll
  <2>5. <<m, n>> \in Places(data) /\ RowAt(data, <<m, n>>) = row
    <3>1. Len(RowsOf(data, c)) \in Nat BY RowsAreInOrder
    <3> QED BY <2>3, <2>4, <3>1 DEF Places, RowAt
  <2> QED BY <1>1, <2>5 DEF Copied
<1>5. Range(copy) = Stored(data) BY <1>2, <1>3, <1>4 DEF Range
<1> QED BY <1>2, <1>5 DEF Lists, Copied

\* A copy goes on with the rows of a member after the offset.
LEMMA CopyGoesOn ==
  ASSUME NEW data \in BarsType, NEW pos \in Positions, pos.member <= Len(Members), NEW copy, Copied(copy, data, pos),
         NEW page \in Seq(RowType), NEW next \in Positions,
         \A n \in 1..Len(page) :
           /\ <<pos.member, pos.offset + n>> \in Places(data)
           /\ page[n] = RowAt(data, <<pos.member, pos.offset + n>>),
         \A p \in Places(data) :
           Reached(next, p) <=> Reached(pos, p) \/ (p[1] = pos.member /\ p[2] \in pos.offset + 1..pos.offset + Len(page))
  PROVE  Copied(copy \o page, data, next)
<1> DEFINE more == copy \o page  place(n) == <<pos.member, pos.offset + n>>
<1>1. /\ copy \in Seq(RowType) /\ more \in Seq(RowType) /\ Len(more) = Len(copy) + Len(page)
      /\ Len(copy) \in Nat /\ Len(page) \in Nat
      /\ \A i \in 1..Len(copy) : more[i] = copy[i]
      /\ \A n \in 1..Len(page) : more[Len(copy) + n] = page[n]
  <2>1. copy \in Seq(RowType) BY DEF Copied
  <2> QED BY <2>1
<1>2. pos.member \in Nat /\ pos.offset \in Nat BY MembersAreAll DEF Positions
<1> HIDE DEF more
<1>3. ASSUME NEW i \in 1..Len(more) PROVE i \in 1..Len(copy) \/ \E n \in 1..Len(page) : i = Len(copy) + n
  <2>1. CASE i <= Len(copy) BY <1>1, <2>1
  <2>2. CASE ~(i <= Len(copy))
    <3>1. i - Len(copy) \in 1..Len(page) /\ i = Len(copy) + (i - Len(copy)) BY <1>1, <2>2
    <3> QED BY <3>1
  <2> QED BY <2>1, <2>2
<1>4. \A n \in 1..Len(page) : place(n) \in Places(data) /\ Reached(next, place(n)) /\ page[n] = RowAt(data, place(n))
  <2> SUFFICES ASSUME NEW n \in 1..Len(page) PROVE place(n) \in Places(data) /\ Reached(next, place(n)) /\ page[n] = RowAt(data, place(n))
    OBVIOUS
  <2>1. pos.offset + n \in pos.offset + 1..pos.offset + Len(page) BY <1>1, <1>2
  <2> QED BY <2>1
<1>5. ASSUME NEW i \in 1..Len(more)
      PROVE  \E p \in Places(data) : Reached(next, p) /\ more[i] = RowAt(data, p)
  <2>1. CASE i \in 1..Len(copy) BY <1>1, <2>1 DEF Copied
  <2>2. CASE \E n \in 1..Len(page) : i = Len(copy) + n BY <1>1, <1>4, <2>2
  <2> QED BY <1>3, <2>1, <2>2
<1>6. ASSUME NEW p \in Places(data), Reached(next, p)
      PROVE  \E i \in 1..Len(more) : more[i] = RowAt(data, p)
  <2>1. CASE Reached(pos, p)
    <3>1. PICK i \in 1..Len(copy) : copy[i] = RowAt(data, p) BY <2>1 DEF Copied
    <3> QED BY <1>1, <3>1
  <2>2. CASE p[1] = pos.member /\ p[2] \in pos.offset + 1..pos.offset + Len(page)
    <3> DEFINE n == p[2] - pos.offset
    <3>1. n \in 1..Len(page) /\ p[2] = pos.offset + n BY <1>1, <1>2, <2>2
    <3>2. p = place(n) BY <2>2, <3>1 DEF Places
    <3> HIDE DEF n
    <3>3. Len(copy) + n \in 1..Len(more) /\ more[Len(copy) + n] = RowAt(data, p) BY <1>1, <1>4, <3>1, <3>2
    <3> QED BY <3>3
  <2> QED BY <1>6, <2>1, <2>2
<1>7. ASSUME NEW i \in 1..Len(more), NEW j \in 1..Len(more), i < j PROVE Precedes(more[i], more[j])
  <2>1. CASE j \in 1..Len(copy)
    <3>1. i \in 1..Len(copy) BY <1>7, <2>1
    <3> QED BY <1>1, <1>7, <2>1, <3>1 DEF Copied
  <2>2. CASE \E n \in 1..Len(page) : j = Len(copy) + n
    <3>1. PICK n \in 1..Len(page) : j = Len(copy) + n BY <2>2
    <3>2. more[j] = RowAt(data, place(n)) /\ place(n) \in Places(data) BY <1>1, <1>4, <3>1
    <3>3. CASE i \in 1..Len(copy)
      <4>1. PICK p \in Places(data) : Reached(pos, p) /\ copy[i] = RowAt(data, p) BY <3>3 DEF Copied
      <4>2. p[1] \in Nat /\ p[2] \in Nat BY MembersAreAll DEF Places
      <4>3. p[1] < place(n)[1] \/ (p[1] = place(n)[1] /\ p[2] < place(n)[2]) BY <1>1, <1>2, <4>1, <4>2 DEF Reached
      <4> QED BY <1>1, <3>2, <3>3, <4>1, <4>3, PlacesInOrder
    <3>4. CASE \E k \in 1..Len(page) : i = Len(copy) + k
      <4>1. PICK k \in 1..Len(page) : i = Len(copy) + k BY <3>4
      <4>2. more[i] = RowAt(data, place(k)) /\ place(k) \in Places(data) BY <1>1, <1>4, <4>1
      <4>3. place(k)[1] = place(n)[1] /\ place(k)[2] < place(n)[2] BY <1>1, <1>2, <1>7, <3>1, <4>1
      <4> QED BY <3>2, <4>2, <4>3, PlacesInOrder
    <3> QED BY <1>3, <3>3, <3>4
  <2> QED BY <1>3, <2>1, <2>2
<1> QED BY <1>1, <1>5, <1>6, <1>7 DEF Copied, more

ExportTyped ==
  /\ bars \in BarsType /\ writes \in Nat
  /\ step \in {"idle", "reading", "replaced", "noted"}
  /\ step # "idle" => job = "running" /\ bars \in moments /\ moments \subseteq BarsType

OfOneMoment == \E data \in moments : Lists(target, data)

Copying(copy, seen, pos) ==
  /\ pos \in Positions
  /\ IF seen = NotYet THEN copy = <<>> /\ pos = Start ELSE seen \in moments /\ Copied(copy, seen, pos)

ExportInv ==
  /\ ExportTyped
  /\ step = "reading" => Copying(partial, snapshot, at)
  /\ step \in {"replaced", "noted"} \/ job = "succeeded" => OfOneMoment
  /\ step = "noted" \/ job = "succeeded" => note = Len(target)

LEMMA ExportStart == ExportInit => ExportInv
<1> SUFFICES ASSUME ExportInit PROVE ExportInv
  OBVIOUS
<1>1. bars \in BarsType BY DEF ExportInit, BarsType
<1> QED BY <1>1 DEF ExportInit, ExportInv, ExportTyped

LEMMA WriteKeeps ==
  ASSUME ExportInv, NEW code \in Codes, NEW time \in Times, Write(code, time)
  PROVE  ExportInv'
<1>1. writes' \in Nat /\ bars' \in BarsType
  <2>1. writes' \in Nat BY DEF Write, ExportInv, ExportTyped
  <2>2. bars' = [bars EXCEPT ![code] = [bars[code] EXCEPT ![time] = writes']] BY DEF Write
  <2> QED BY <2>1, <2>2 DEF ExportInv, ExportTyped, BarsType
<1>2. UNCHANGED <<job, step, snapshot, at, partial, target, note>> BY DEF Write
<1>3. moments' = IF step = "idle" THEN moments ELSE moments \union {bars'} BY DEF Write
<1>4. ExportTyped' BY <1>1, <1>2, <1>3 DEF ExportInv, ExportTyped
<1>5. moments \subseteq moments' BY <1>3
<1>6. Copying(partial, snapshot, at) => Copying(partial, snapshot, at)' BY <1>2, <1>5 DEF Copying
<1>7. OfOneMoment => OfOneMoment' BY <1>2, <1>5 DEF OfOneMoment
<1> QED BY <1>2, <1>4, <1>6, <1>7 DEF ExportInv

\* The rows after an offset, up to the size of a page.
LEMMA PageOf ==
  ASSUME NEW T, NEW list \in Seq(T), NEW offset \in Nat, NEW size \in Nat \ {0}
  PROVE  LET page == SubSeq(list, offset + 1, Min({offset + size, Len(list)})) IN
         /\ page \in Seq(T) /\ Len(page) \in 0..size
         /\ \A n \in 1..Len(page) : page[n] = list[offset + n] /\ offset + n \in 1..Len(list)
         /\ Len(page) # size => \A k \in Nat : k <= Len(list) => k <= offset \/ k \in offset + 1..offset + Len(page)
<1> DEFINE last == Min({offset + size, Len(list)})  page == SubSeq(list, offset + 1, last)
<1>1. Len(list) \in Nat OBVIOUS
<1>2. last \in {offset + size, Len(list)} /\ last <= offset + size /\ last <= Len(list)
  <2>1. offset + size \in Int /\ Len(list) \in Int BY <1>1
  <2> QED BY <2>1, LeastOfTwo
<1>3. CASE offset + 1 <= last
  <2>1. offset + 1 \in 1..Len(list) /\ last \in 1..Len(list) BY <1>1, <1>2, <1>3
  <2> HIDE DEF last
  <2>2. /\ page \in Seq(T) /\ Len(page) = last - (offset + 1) + 1
        /\ \A n \in 1..last - (offset + 1) + 1 : page[n] = list[offset + 1 + n - 1]
    BY <1>3, <2>1, SubSeqProperties
  <2> HIDE DEF page
  <2>3. Len(page) = last - offset /\ \A n \in 1..Len(page) : page[n] = list[offset + n] /\ offset + n \in 1..Len(list)
    <3>1. Len(page) = last - offset BY <1>1, <1>2, <2>2
    <3>2. ASSUME NEW n \in 1..Len(page) PROVE page[n] = list[offset + n] /\ offset + n \in 1..Len(list)
      <4>1. n \in Nat /\ n >= 1 /\ n <= last - offset /\ last \in Nat BY <1>1, <1>2, <3>1
      <4>2. n \in 1..last - (offset + 1) + 1 /\ offset + 1 + n - 1 = offset + n BY <4>1
      <4>3. page[n] = list[offset + n] BY <2>2, <4>2
      <4> QED BY <1>1, <1>2, <4>1, <4>3
    <3> QED BY <3>1, <3>2
  <2>4. Len(page) # size => last = Len(list) BY <1>2, <2>3
  <2>5. page \in Seq(T) /\ Len(page) \in 0..size BY <1>1, <1>2, <1>3, <2>2, <2>3
  <2>6. Len(page) # size => \A k \in Nat : k <= Len(list) => k <= offset \/ k \in offset + 1..offset + Len(page)
    BY <1>1, <1>2, <2>3, <2>4
  <2> QED BY <2>3, <2>5, <2>6 DEF page, last
<1>4. CASE ~(offset + 1 <= last)
  <2>0. last \in Int BY <1>1, <1>2
  <2> HIDE DEF last
  <2>1. page = <<>> BY <1>4, <2>0
  <2>2. last = Len(list) /\ Len(list) <= offset BY <1>1, <1>2, <1>4
  <2> HIDE DEF page
  <2>3. page \in Seq(T) /\ Len(page) = 0 /\ 0 \in 0..size BY <2>1
  <2>4. \A k \in Nat : k <= Len(list) => k <= offset BY <1>1, <2>2
  <2>5. \A n \in 1..Len(page) : page[n] = list[offset + n] /\ offset + n \in 1..Len(list) BY <2>3
  <2> QED BY <2>3, <2>4, <2>5 DEF page, last
<1> QED BY <1>3, <1>4

\* A page of the snapshot, which is what the database holds when it is the first.
LEMMA PageKeeps == ASSUME ExportInv, ReadPage PROVE ExportInv'
<1> DEFINE code == Members[at.member]
           rest == RowsOf(Visible, code)
           page == SubSeq(rest, at.offset + 1, Min({at.offset + PageSize, Len(rest)}))
<1>1. /\ step = "reading" /\ at.member <= Len(Members) /\ snapshot' = Visible /\ partial' = partial \o page
      /\ at' = IF Len(page) = PageSize THEN [at EXCEPT !.offset = @ + PageSize]
                                       ELSE [member |-> at.member + 1, offset |-> 0]
      /\ UNCHANGED <<bars, writes, runs, job, step, target, note, moments>>
  BY DEF ReadPage
<1>2. PICK seen : seen = Visible OBVIOUS
<1>3. seen \in moments /\ seen \in BarsType /\ Copied(partial, seen, at) /\ at \in Positions
  <2>1. bars \in moments /\ moments \subseteq BarsType /\ Copying(partial, snapshot, at)
    BY <1>1 DEF ExportInv, ExportTyped
  <2>2. CASE snapshot = NotYet BY <1>2, <2>1, <2>2, CopyStarts DEF Copying, Visible
  <2>3. CASE snapshot # NotYet BY <1>2, <2>1, <2>3 DEF Copying, Visible
  <2> QED BY <2>2, <2>3
<1>4. at.member \in 1..Len(Members) /\ at.offset \in Nat /\ code \in Codes /\ Len(Members) \in Nat
      /\ at = [member |-> at.member, offset |-> at.offset]
  <2>1. at.member \in 1..Len(Members) + 1 /\ at.offset \in Nat /\ Len(Members) \in Nat
        /\ at = [member |-> at.member, offset |-> at.offset]
    BY <1>3, MembersAreAll DEF Positions
  <2>2. at.member \in 1..Len(Members) BY <1>1, <2>1
  <2> QED BY <2>1, <2>2, MembersAreAll
<1>5. rest = RowsOf(seen, code) /\ rest \in Seq(RowType) /\ Len(rest) \in Nat
  BY <1>2, <1>3, <1>4, RowsAreInOrder
<1>6. PageSize \in Nat \ {0} BY ExportAssumption
<1> HIDE DEF rest, code
<1>7. /\ page \in Seq(RowType) /\ Len(page) \in 0..PageSize
      /\ \A n \in 1..Len(page) : page[n] = rest[at.offset + n] /\ at.offset + n \in 1..Len(rest)
      /\ Len(page) # PageSize =>
           \A k \in Nat : k <= Len(rest) => k <= at.offset \/ k \in at.offset + 1..at.offset + Len(page)
  <2>1. rest \in Seq(RowType) /\ at.offset \in Nat BY <1>4, <1>5
  <2> QED BY <1>6, <2>1, PageOf, Zenon
<1> HIDE DEF page
<1>8. PICK next : next = at' OBVIOUS
<1>9. next \in Positions /\ \/ /\ Len(page) = PageSize /\ next.member = at.member
                               /\ next.offset = at.offset + PageSize
                            \/ /\ Len(page) # PageSize /\ next.member = at.member + 1 /\ next.offset = 0
  <2>1. CASE Len(page) = PageSize
    <3>1. next = [member |-> at.member, offset |-> at.offset + PageSize] BY <1>1, <1>4, <1>8, <2>1
    <3> QED BY <1>4, <1>6, <2>1, <3>1 DEF Positions
  <2>2. CASE Len(page) # PageSize
    <3>1. next = [member |-> at.member + 1, offset |-> 0] BY <1>1, <1>8, <2>2
    <3> QED BY <1>4, <2>2, <3>1 DEF Positions
  <2> QED BY <2>1, <2>2
<1>10. ASSUME NEW n \in 1..Len(page)
       PROVE  <<at.member, at.offset + n>> \in Places(seen) /\ page[n] = RowAt(seen, <<at.member, at.offset + n>>)
  BY <1>4, <1>5, <1>7 DEF Places, RowAt, code
<1>11. ASSUME NEW p \in Places(seen)
       PROVE  Reached(next, p) <=> Reached(at, p) \/ (p[1] = at.member /\ p[2] \in at.offset + 1..at.offset + Len(page))
  <2>1. p[1] \in Nat /\ p[2] \in Nat \ {0} /\ (p[1] = at.member => p[2] <= Len(rest))
    BY <1>5, MembersAreAll DEF Places, code
  <2>2. Len(page) \in Nat BY <1>7
  <2>3. CASE Len(page) = PageSize BY <1>4, <1>6, <1>9, <2>1, <2>2, <2>3 DEF Reached
  <2>4. CASE Len(page) # PageSize
    <3>1. \A k \in Nat : k <= Len(rest) => k <= at.offset \/ k \in at.offset + 1..at.offset + Len(page)
      BY <1>7, <2>4
    <3> QED BY <1>4, <1>6, <1>9, <2>1, <2>2, <2>4, <3>1 DEF Reached
  <2> QED BY <2>3, <2>4
<1>12. Copied(partial \o page, seen, next)
  BY <1>1, <1>3, <1>7, <1>9, <1>10, <1>11, CopyGoesOn
<1>13. seen # NotYet
  <2>1. DOMAIN seen = Codes /\ DOMAIN NotYet = {} BY <1>3 DEF BarsType, NotYet
  <2> QED BY <1>4, <2>1
<1>14. Copying(partial, snapshot, at)' BY <1>1, <1>2, <1>3, <1>8, <1>9, <1>12, <1>13 DEF Copying
<1>15. ExportTyped' BY <1>1 DEF ExportInv, ExportTyped
<1>16. job # "succeeded" BY <1>1 DEF ExportInv, ExportTyped
<1> QED BY <1>1, <1>14, <1>15, <1>16 DEF ExportInv

LEMMA ReplaceKeeps == ASSUME ExportInv, Replace PROVE ExportInv'
<1>1. /\ step = "reading" /\ at.member > Len(Members) /\ step' = "replaced" /\ target' = partial
      /\ UNCHANGED <<bars, writes, job, moments>> /\ job = "running"
  BY DEF Replace, ExportInv, ExportTyped
<1>2. Copying(partial, snapshot, at) /\ bars \in moments /\ moments \subseteq BarsType
  BY <1>1 DEF ExportInv, ExportTyped
<1>3. PICK seen \in moments : Copied(partial, seen, at)
  <2>1. CASE snapshot = NotYet BY <1>2, <2>1, CopyStarts DEF Copying
  <2>2. CASE snapshot # NotYet BY <1>2, <2>2 DEF Copying
  <2> QED BY <2>1, <2>2
<1>4. Lists(partial, seen) BY <1>1, <1>2, <1>3, CopyEnds DEF Copying
<1>5. OfOneMoment' BY <1>1, <1>4 DEF OfOneMoment
<1>6. ExportTyped' BY <1>1 DEF ExportInv, ExportTyped
<1> QED BY <1>1, <1>5, <1>6 DEF ExportInv

LEMMA ExportStep == ExportInv /\ [ExportNext]_exportVars => ExportInv'
<1> SUFFICES ASSUME ExportInv, [ExportNext]_exportVars PROVE ExportInv'
  OBVIOUS
<1>1. CASE \E code \in Codes, time \in Times : Write(code, time) BY <1>1, WriteKeeps
<1>2. CASE Begin
  <2>1. /\ step' = "reading" /\ job' = "running" /\ snapshot' = NotYet /\ at' = Start /\ partial' = <<>>
        /\ moments' = {bars} /\ UNCHANGED <<bars, writes>>
    BY <1>2 DEF Begin, Start
  <2>2. Start \in Positions BY MembersAreAll DEF Positions, Start
  <2>3. Copying(partial, snapshot, at)' BY <2>1, <2>2 DEF Copying
  <2>4. ExportTyped' BY <2>1 DEF ExportInv, ExportTyped
  <2> QED BY <2>1, <2>3, <2>4 DEF ExportInv
<1>3. CASE ReadPage BY <1>3, PageKeeps
<1>4. CASE Replace BY <1>4, ReplaceKeeps
<1>5. CASE WriteNote \/ Succeed
  <2>1. UNCHANGED <<bars, writes, target, moments>> /\ note' \in {note, Len(target)} BY <1>5 DEF WriteNote, Succeed
  <2>2. OfOneMoment' <=> OfOneMoment BY <2>1 DEF OfOneMoment
  <2> QED BY <1>5, <2>1, <2>2 DEF WriteNote, Succeed, ExportInv, ExportTyped
<1>6. CASE EndsEarly \/ Crash \/ Recover
  <2>1. UNCHANGED <<bars, writes, target, moments, note>> /\ step' = "idle" BY <1>6 DEF EndsEarly, Crash, Recover
  <2>2. OfOneMoment' <=> OfOneMoment BY <2>1 DEF OfOneMoment
  <2>3. job' = "succeeded" => job = "succeeded" BY <1>6 DEF EndsEarly, Crash, Recover
  <2> QED BY <2>1, <2>2, <2>3 DEF ExportInv, ExportTyped
<1>7. CASE UNCHANGED exportVars
  BY <1>7 DEF exportVars, ExportInv, ExportTyped, Copying, OfOneMoment
<1> QED BY <1>1, <1>2, <1>3, <1>4, <1>5, <1>6, <1>7 DEF ExportNext

(* The file of a succeeded export lists one moment of the run that wrote it, for
   any number of members, bars, pages, writes of the other lanes, failures,
   cancellations, crashes and attempts (tasks.py export, storage.py history). *)
THEOREM ExportListsOneMoment == ExportSpec => []ExportIsSnapshot
<1>1. ExportInv => ExportIsSnapshot BY DEF ExportInv, OfOneMoment, ExportIsSnapshot
<1> QED BY <1>1, ExportStart, ExportStep, PTL DEF ExportSpec

-----------------------------------------------------------------------------
(* The verifications.  A unit's pages are of one snapshot and add up to it, *)
(* the days found missing are cut into ranges that share none, and a       *)
(* verification that has ended is not judged again, so that what its       *)
(* repairs fetch stays among those ranges.                                 *)

\* A page that is not full is the last one.
LEMMA FullPages ==
  ASSUME NEW m \in Nat, NEW S \in SUBSET (0..m), NEW lo \in Nat, NEW size \in Nat \ {0},
         NEW d \in S, Place(S, d) > lo + size
  PROVE  Cardinality({e \in S : Place(S, e) \in lo + 1..lo + size}) = size
<1> DEFINE page == {e \in S : Place(S, e) \in lo + 1..lo + size}  f == [e \in page |-> Place(S, e) - lo]
<1>1. IsFiniteSet(S) /\ S \in SUBSET Nat /\ Cardinality(S) \in Nat
  <2>1. IsFiniteSet(0..m) BY FS_Interval
  <2>2. S \subseteq Nat OBVIOUS
  <2> QED BY <2>1, <2>2, FS_Subset, FS_CardinalityType
<1>2. \A e \in S : Place(S, e) \in 1..Cardinality(S) BY RankOf DEF Place
<1>3. f \in [page -> 1..size]
  <2> SUFFICES ASSUME NEW e \in page PROVE Place(S, e) - lo \in 1..size
    OBVIOUS
  <2>1. Place(S, e) \in lo + 1..lo + size OBVIOUS
  <2> QED BY <2>1
<1>4. \A a, b \in page : f[a] = f[b] => a = b
  <2> SUFFICES ASSUME NEW a \in page, NEW b \in page, f[a] = f[b], a # b PROVE FALSE
    OBVIOUS
  <2>1. Place(S, a) \in Nat /\ Place(S, b) \in Nat /\ a \in S /\ b \in S /\ a \in Nat /\ b \in Nat BY <1>1, <1>2
  <2>2. Place(S, a) = Place(S, b) BY <2>1
  <2>3. a < b \/ b < a BY <2>1
  <2>4. Place(S, a) < Place(S, b) \/ Place(S, b) < Place(S, a) BY <1>1, <2>1, <2>3, RankGrows DEF Place
  <2> QED BY <2>1, <2>2, <2>4
<1>5. \A n \in 1..size : \E e \in page : f[e] = n
  <2> SUFFICES ASSUME NEW n \in 1..size PROVE \E e \in page : f[e] = n
    OBVIOUS
  <2>1. lo + n \in 1..Cardinality(S) BY <1>1, <1>2
  <2>2. NthTime(S, lo + n) \in S /\ Place(S, NthTime(S, lo + n)) = lo + n BY <2>1, NthTimeIsThere DEF Place
  <2>3. NthTime(S, lo + n) \in page
    <3>1. lo + n \in lo + 1..lo + size OBVIOUS
    <3> QED BY <2>2, <3>1
  <2>4. f[NthTime(S, lo + n)] = n BY <2>2, <2>3
  <2> QED BY <2>3, <2>4
<1>6. IsFiniteSet(page) BY <1>1, FS_Subset
<1>7. ExistsBijection(page, 1..size)
  <2> HIDE DEF page, f
  <2>1. f \in Bijection(page, 1..size) 
    <3>1. DOMAIN f = page BY <1>3
    <3> QED BY <1>3, <1>4, <1>5, <3>1 DEF Bijection, Injection, Surjection, IsInjective
  <2> QED BY <2>1 DEF ExistsBijection
<1>8. Cardinality(1..size) = size BY FS_Interval
<1> HIDE DEF page
<1>9. Cardinality(page) = size BY <1>6, <1>7, <1>8, FS_Bijection
<1> QED BY <1>9 DEF page

\* The ranges of a set of days hold its days, each in one of them.
LEMMA RangesPartition ==
  ASSUME NEW F \in SUBSET RangeDays
  PROVE  /\ \A d \in F : \E p \in Merged(F) : d \in p[1]..p[2]
         /\ \A p \in Merged(F) : p[1]..p[2] \subseteq F
         /\ \A p, q \in Merged(F), d \in RangeDays : d \in p[1]..p[2] /\ d \in q[1]..q[2] => p = q
<1>0. LastRangeDay \in Nat \ {0} /\ RangeDays = 1..LastRangeDay /\ F \subseteq 1..LastRangeDay
  BY VerificationAssumption DEF RangeDays
<1>1. ASSUME NEW d \in F PROVE \E p \in Merged(F) : d \in p[1]..p[2]
  <2> DEFINE before == {x \in 0..d : x \notin F}  after == {x \in d..LastRangeDay + 1 : x \notin F}
  <2>1. d \in 1..LastRangeDay /\ 0 \notin F /\ LastRangeDay + 1 \notin F BY <1>0
  <2>2. before \in SUBSET (0..d) /\ before # {} /\ after \in SUBSET Nat /\ after # {}
    <3>1. 0 \in before /\ LastRangeDay + 1 \in after BY <1>0, <2>1
    <3>2. \A x \in after : x \in Nat BY <1>0, <2>1
    <3>3. \A x \in before : x \in 0..d OBVIOUS
    <3> HIDE DEF before, after
    <3> QED BY <3>1, <3>2, <3>3
  <2> DEFINE a == Max(before)  b == Min(after)
  <2> HIDE DEF before, after
  <2>3. a \in before /\ (\A y \in before : y <= a) /\ b \in after /\ (\A y \in after : b <= y)
    <3>1. d \in Nat BY <1>0, <2>1
    <3>2. a \in before /\ \A y \in before : y <= a BY <2>2, <3>1, Greatest
    <3>3. b \in after /\ \A y \in after : b <= y BY <2>2, Least
    <3> QED BY <3>2, <3>3
  <2> HIDE DEF a, b
  <2>4. a \in 0..d /\ a \notin F /\ b \in d..LastRangeDay + 1 /\ b \notin F BY <2>3 DEF before, after
  <2>5. \A x \in a + 1..b - 1 : x \in F
    <3> SUFFICES ASSUME NEW x \in a + 1..b - 1, x \notin F PROVE FALSE
      OBVIOUS
    <3>1. CASE x <= d
      <4>1. x \in before BY <2>1, <2>4, <3>1 DEF before
      <4> QED BY <2>1, <2>3, <2>4, <4>1
    <3>2. CASE ~(x <= d)
      <4>1. x \in after BY <1>0, <2>1, <2>4, <3>2 DEF after
      <4> QED BY <1>0, <2>1, <2>3, <2>4, <4>1
    <3> QED BY <3>1, <3>2
  <2>6. a + 1 <= d /\ d <= b - 1 /\ a + 1 \in 1..LastRangeDay /\ b - 1 \in 1..LastRangeDay /\ a + 1 <= b - 1
        /\ a + 1 - 1 = a /\ b - 1 + 1 = b
    <3>1. a # d /\ b # d BY <2>4
    <3> QED BY <1>0, <2>1, <2>4, <3>1
  <2>7. <<a + 1, b - 1>> \in Merged(F) BY <1>0, <2>4, <2>5, <2>6 DEF Merged
  <2> QED BY <2>1, <2>4, <2>6, <2>7
<1>2. \A p \in Merged(F) : p[1]..p[2] \subseteq F BY DEF Merged
<1>3. ASSUME NEW p \in Merged(F), NEW q \in Merged(F), NEW d \in RangeDays, d \in p[1]..p[2], d \in q[1]..q[2]
      PROVE  p = q
  <2>1. /\ p[1] \in Nat /\ p[2] \in Nat /\ q[1] \in Nat /\ q[2] \in Nat /\ p = <<p[1], p[2]>> /\ q = <<q[1], q[2]>>
        /\ \A x \in p[1]..p[2] : x \in F
        /\ \A x \in q[1]..q[2] : x \in F
        /\ p[1] - 1 \notin F /\ p[2] + 1 \notin F /\ q[1] - 1 \notin F /\ q[2] + 1 \notin F
    BY <1>0 DEF Merged
  <2>2. d \in Nat /\ p[1] <= d /\ d <= p[2] /\ q[1] <= d /\ d <= q[2] BY <1>0, <1>3, <2>1
  <2>3. ~(p[1] < q[1]) /\ ~(q[1] < p[1])
    <3>1. p[1] < q[1] => q[1] - 1 \in p[1]..p[2] BY <2>1, <2>2
    <3>2. q[1] < p[1] => p[1] - 1 \in q[1]..q[2] BY <2>1, <2>2
    <3> QED BY <2>1, <3>1, <3>2
  <2>4. ~(p[2] < q[2]) /\ ~(q[2] < p[2])
    <3>1. p[2] < q[2] => p[2] + 1 \in q[1]..q[2] BY <2>1, <2>2
    <3>2. q[2] < p[2] => q[2] + 1 \in p[1]..p[2] BY <2>1, <2>2
    <3> QED BY <2>1, <3>1, <3>2
  <2> QED BY <2>1, <2>3, <2>4
<1> QED BY <1>1, <1>2, <1>3

\* No day is in two units.
LEMMA UnitsShareNoDay ==
  ASSUME NEW u \in Units, NEW t \in Units, NEW d \in DaysOf(u), d \in DaysOf(t)
  PROVE  u = t
<1>1. ChunkWidth \in Nat \ {0} /\ d \in Int /\ u \in Int /\ t \in Int
      /\ (u - 1) * ChunkWidth < d /\ d <= u * ChunkWidth /\ (t - 1) * ChunkWidth < d /\ d <= t * ChunkWidth
  BY VerificationAssumption DEF Units, DaysOf, RangeDays
<1>2. \A a, b, w \in Int : w > 0 /\ a <= b => a * w <= b * w OBVIOUS
<1>3. u <= t - 1 => u * ChunkWidth <= (t - 1) * ChunkWidth BY <1>1, <1>2
<1>4. t <= u - 1 => t * ChunkWidth <= (u - 1) * ChunkWidth BY <1>1, <1>2
<1>5. \A n \in Int : n * ChunkWidth \in Int BY <1>1
<1>6. ~(u <= t - 1) /\ ~(t <= u - 1)
  <2>1. u * ChunkWidth \in Int /\ t * ChunkWidth \in Int /\ (u - 1) * ChunkWidth \in Int /\ (t - 1) * ChunkWidth \in Int
    BY <1>1, <1>5
  <2> QED BY <1>1, <1>3, <1>4, <2>1
<1> QED BY <1>1, <1>6

Dates == RangeDays \X RangeDays
Ended == {"queued", "running", "ended"}
VerdictType == [read : {"not yet", "all", "rejected"}, missing : SUBSET RangeDays]
VerificationType == [state : Ended, verdict : [Units -> VerdictType]]
RepairType == [of : Nat, line : Seq(Nat), parts : SUBSET Dates, state : Ended, done : SUBSET Dates]
ReadType ==
  [of : Nat, unit : Units, taken : BOOLEAN, bars : SUBSET Int, calendar : SUBSET Int, offset : Nat,
   rows : SUBSET Int, more : BOOLEAN]

VerifyTyped ==
  /\ held \subseteq Int /\ known \subseteq Int
  /\ verifications \in Seq(VerificationType) /\ repairs \in Seq(RepairType)
  /\ shown \in [Windows -> [of : Nat, units : SUBSET Units, parts : SUBSET Dates]]
  /\ \A w \in Windows : shown[w].of \in {0} \union DOMAIN verifications

\* What is found missing in a unit is of it, and the units are judged in order.
Judging ==
  \A v \in DOMAIN verifications :
    /\ \A u \in Units : verifications[v].verdict[u].missing \subseteq DaysOf(u)
    /\ \E k \in Nat : Judged(v) = 1..k

ReadsSnapshot ==
  unitRead # NoUnit =>
    LET days == unitRead.bars \cap DaysOf(unitRead.unit) IN
    /\ unitRead \in ReadType
    /\ unitRead.of \in DOMAIN verifications /\ verifications[unitRead.of].state = "running"
    /\ Judged(unitRead.of) = 1..unitRead.unit - 1
    /\ MissingDays(held, known, unitRead.unit) \in unitMoments
    /\ ~unitRead.taken => unitRead.more /\ unitRead.offset = 0 /\ unitRead.rows = {}
    /\ unitRead.taken =>
         /\ MissingDays(unitRead.bars, unitRead.calendar, unitRead.unit) \in unitMoments
         /\ unitRead.rows = IF unitRead.more THEN {d \in days : Place(days, d) <= unitRead.offset} ELSE days

AllParts(v) == UNION {Merged(Found(v, {u})) : u \in Units}

RepairsAreOfFound ==
  \A r \in DOMAIN repairs :
    /\ repairs[r].of \in DOMAIN verifications /\ ~Active(verifications[repairs[r].of])
    /\ repairs[r].parts \subseteq AllParts(repairs[r].of) /\ repairs[r].done \subseteq repairs[r].parts

VerifyInv == VerifyTyped /\ Judging /\ ReadsSnapshot /\ RepairsAreOfFound

LEMMA VerifyStart == VerifyInit => VerifyInv
<1> SUFFICES ASSUME VerifyInit PROVE VerifyInv
  OBVIOUS
<1>1. verifications = <<>> /\ repairs = <<>> /\ unitRead = NoUnit /\ held \subseteq Int /\ known \subseteq Int
  BY VerificationAssumption DEF VerifyInit, RangeDays
<1>2. /\ shown \in [Windows -> [of : Nat, units : SUBSET Units, parts : SUBSET Dates]]
      /\ \A w \in Windows : shown[w].of = 0
  BY DEF VerifyInit, NoPreview
<1> QED BY <1>1, <1>2 DEF VerifyInv, VerifyTyped, Judging, ReadsSnapshot, RepairsAreOfFound

\* A step that judges only what is at work changes no part of a repair.
LEMMA PartsStay ==
  ASSUME RepairsAreOfFound, UNCHANGED repairs, DOMAIN verifications \subseteq DOMAIN verifications',
         \A v \in DOMAIN verifications : ~Active(verifications[v]) => verifications'[v] = verifications[v]
  PROVE  RepairsAreOfFound'
<1> SUFFICES ASSUME NEW r \in DOMAIN repairs, NEW rep, rep = repairs[r]
             PROVE  /\ rep.of \in DOMAIN verifications' /\ ~Active(verifications'[rep.of])
                    /\ rep.parts \subseteq AllParts(rep.of)' /\ rep.done \subseteq rep.parts
  BY DEF RepairsAreOfFound
<1>1. rep.of \in DOMAIN verifications /\ ~Active(verifications[rep.of])
      /\ rep.parts \subseteq AllParts(rep.of) /\ rep.done \subseteq rep.parts
  BY DEF RepairsAreOfFound
<1>2. PICK v : v = rep.of OBVIOUS
<1>3. verifications'[v] = verifications[v] BY <1>1, <1>2
<1>4. AllParts(v)' = AllParts(v) BY <1>3 DEF AllParts, Found
<1> QED BY <1>1, <1>2, <1>3, <1>4

\* Another lane or a repair stores something.
LEMMA HoldsKeeps ==
  ASSUME VerifyInv, NEW first \in Int, NEW last \in Int, UNCHANGED <<verifications, unitRead>>,
         NowHold(held \union first..last, known) \/ NowHold(held, known \union first..last)
  PROVE  held' \subseteq Int /\ known' \subseteq Int /\ ReadsSnapshot' /\ Judging'
<1>1. held' \subseteq Int /\ known' \subseteq Int
  <2>1. first..last \subseteq Int /\ held \subseteq Int /\ known \subseteq Int BY DEF VerifyInv, VerifyTyped
  <2> QED BY <2>1 DEF NowHold
<1>2. \A v : Judged(v)' = Judged(v) BY DEF Judged
<1>3. unitRead # NoUnit => unitMoments' = unitMoments \union {MissingDays(held', known', unitRead.unit)}
  BY DEF NowHold
<1>4. Judging' BY <1>2 DEF VerifyInv, Judging
<1>5. ReadsSnapshot'
  <2> SUFFICES ASSUME unitRead # NoUnit PROVE ReadsSnapshot'
    BY DEF ReadsSnapshot
  <2>2. Judged(unitRead.of)' = 1..unitRead.unit - 1
    <3>1. Judged(unitRead.of)' = Judged(unitRead.of) BY DEF Judged
    <3> QED BY <3>1 DEF VerifyInv, ReadsSnapshot
  <2>3. MissingDays(held, known, unitRead.unit)' \in unitMoments' BY <1>3 DEF MissingDays
  <2>4. MissingDays(unitRead.bars, unitRead.calendar, unitRead.unit)' = MissingDays(unitRead.bars, unitRead.calendar, unitRead.unit)
    BY DEF MissingDays
  <2> QED BY <1>3, <2>2, <2>3, <2>4 DEF VerifyInv, ReadsSnapshot
<1> QED BY <1>1, <1>4, <1>5

\* A step that only changes the state of a verification.
LEMMA StateChanges ==
  ASSUME VerifyInv, NEW v \in DOMAIN verifications, Active(verifications[v]), NEW s \in Ended,
         verifications' = [verifications EXCEPT ![v].state = s],
         UNCHANGED <<held, known, shown, repairs>>,
         unitRead # NoUnit /\ UNCHANGED <<unitRead, unitMoments>> => unitRead.of # v
  PROVE  /\ VerifyTyped' /\ Judging' /\ RepairsAreOfFound'
         /\ UNCHANGED <<unitRead, unitMoments>> => ReadsSnapshot'
         /\ verifications'[v].state = s /\ Judged(v)' = Judged(v) /\ DOMAIN verifications' = DOMAIN verifications
         /\ \A x \in DOMAIN verifications : verifications'[x].verdict = verifications[x].verdict
<1> DEFINE new == [verifications[v] EXCEPT !.state = s]
<1>1. verifications \in Seq(VerificationType) /\ verifications[v] \in VerificationType
      /\ DOMAIN verifications = 1..Len(verifications)
  BY DEF VerifyInv, VerifyTyped
<1>2. new \in VerificationType /\ new.state = s /\ new.verdict = verifications[v].verdict
  BY <1>1 DEF VerificationType
<1>3. verifications' = [verifications EXCEPT ![v] = new] OBVIOUS
<1> HIDE DEF new
<1>4. /\ verifications' \in Seq(VerificationType) /\ Len(verifications') = Len(verifications)
      /\ \A x \in 1..Len(verifications) : verifications'[x] = IF x = v THEN new ELSE verifications[x]
  BY <1>1, <1>2, <1>3, ExceptSeq
<1>5. DOMAIN verifications' = DOMAIN verifications BY <1>1, <1>4
<1>6. \A x \in DOMAIN verifications : verifications'[x].verdict = verifications[x].verdict
  BY <1>1, <1>2, <1>4
<1>7. \A x \in DOMAIN verifications : Judged(x)' = Judged(x) BY <1>6 DEF Judged
<1>8. Judging' BY <1>5, <1>6, <1>7 DEF VerifyInv, Judging
<1>9. VerifyTyped' BY <1>4, <1>5 DEF VerifyInv, VerifyTyped
<1>10. RepairsAreOfFound'
  <2>1. \A x \in DOMAIN verifications : ~Active(verifications[x]) => verifications'[x] = verifications[x]
    BY <1>1, <1>4
  <2> QED BY <1>5, <2>1, PartsStay DEF VerifyInv
<1>11. ASSUME UNCHANGED <<unitRead, unitMoments>> PROVE ReadsSnapshot'
  <2> SUFFICES ASSUME unitRead # NoUnit PROVE ReadsSnapshot'
    BY <1>11 DEF ReadsSnapshot
  <2>1. unitRead.of # v /\ unitRead.of \in DOMAIN verifications BY <1>11 DEF VerifyInv, ReadsSnapshot
  <2>2. PICK of : of = unitRead.of OBVIOUS
  <2>3. Judged(of)' = Judged(of) /\ verifications'[of].state = verifications[of].state BY <1>1, <1>4, <1>7, <2>1, <2>2
  <2>4. Judged(unitRead.of)' = Judged(unitRead.of) BY <1>11, <2>2, <2>3
  <2>5. \A u : MissingDays(held, known, u)' = MissingDays(held, known, u) BY DEF MissingDays
  <2>6. \A bs, cal, u : MissingDays(bs, cal, u)' = MissingDays(bs, cal, u) BY DEF MissingDays
  <2> QED BY <1>5, <1>11, <2>1, <2>2, <2>3, <2>4, <2>5, <2>6 DEF VerifyInv, ReadsSnapshot
<1>12. verifications'[v].state = s BY <1>1, <1>2, <1>4
<1> QED BY <1>5, <1>6, <1>7, <1>8, <1>9, <1>10, <1>11, <1>12

LEMMA BeginKeeps ==
  ASSUME VerifyInv, NEW v \in DOMAIN verifications, BeginUnit(v)
  PROVE  VerifyInv'
<1> DEFINE unit == Cardinality(Judged(v)) + 1
<1>1. /\ Active(verifications[v]) /\ unitRead = NoUnit /\ unit \in Units
      /\ verifications' = [verifications EXCEPT ![v].state = "running"]
      /\ unitRead' = [of |-> v, unit |-> unit, taken |-> FALSE, bars |-> {}, calendar |-> {}, offset |-> 0, rows |-> {}, more |-> TRUE]
      /\ unitMoments' = {MissingDays(held, known, unit)}
      /\ UNCHANGED <<held, known, shown, repairs>>
  BY DEF BeginUnit
<1>2. /\ VerifyTyped' /\ Judging' /\ RepairsAreOfFound' /\ verifications'[v].state = "running"
      /\ Judged(v)' = Judged(v) /\ DOMAIN verifications' = DOMAIN verifications
  BY <1>1, StateChanges DEF Ended
<1>3. Judged(v) = 1..unit - 1
  <2>1. PICK k \in Nat : Judged(v) = 1..k BY DEF VerifyInv, Judging
  <2>2. Cardinality(1..k) = k BY <2>1, FS_Interval
  <2> QED BY <2>1, <2>2
<1>4. v \in Nat BY DEF VerifyInv, VerifyTyped
<1> HIDE DEF unit
<1>5. PICK read : read = unitRead' OBVIOUS
<1>6. /\ read \in ReadType /\ read.of = v /\ read.unit = unit /\ read.taken = FALSE /\ read.offset = 0
      /\ read.rows = {} /\ read.more = TRUE
  BY <1>1, <1>4, <1>5 DEF ReadType
<1>7. Judged(unitRead.of)' = 1..unit - 1
  <2>1. Judged(unitRead.of)' = Judged(v)' BY <1>5, <1>6 DEF Judged
  <2> QED BY <1>2, <1>3, <2>1
<1>8. MissingDays(held, known, unitRead.unit)' = MissingDays(held, known, unit)
  BY <1>1, <1>5, <1>6 DEF MissingDays
<1>9. ReadsSnapshot'
  BY <1>1, <1>2, <1>5, <1>6, <1>7, <1>8 DEF ReadsSnapshot
<1> QED BY <1>2, <1>9 DEF VerifyInv

LEMMA CreateKeeps == ASSUME VerifyInv, CreateVerification PROVE VerifyInv'
<1> DEFINE e == [state |-> "queued", verdict |-> [u \in Units |-> Unjudged]]
<1>1. verifications' = Append(verifications, e) /\ UNCHANGED <<held, known, unitRead, unitMoments, shown, repairs>>
  BY DEF CreateVerification
<1>2. e \in VerificationType /\ e.verdict = [u \in Units |-> Unjudged] BY DEF VerificationType, VerdictType, Unjudged, Ended
<1> HIDE DEF e
<1>3. /\ verifications' \in Seq(VerificationType) /\ DOMAIN verifications' = DOMAIN verifications \union {Len(verifications) + 1}
      /\ verifications'[Len(verifications) + 1] = e
      /\ \A v \in DOMAIN verifications : verifications'[v] = verifications[v]
  <2>1. verifications \in Seq(VerificationType) BY DEF VerifyInv, VerifyTyped
  <2> QED BY <1>1, <1>2, <2>1
<1>4. \A v \in DOMAIN verifications : Judged(v)' = Judged(v) BY <1>3 DEF Judged
<1>5. Judging'
  <2> SUFFICES ASSUME NEW v \in DOMAIN verifications'
               PROVE  /\ \A u \in Units : verifications'[v].verdict[u].missing \subseteq DaysOf(u)
                      /\ \E k \in Nat : Judged(v)' = 1..k
    BY DEF Judging
  <2>1. CASE v \in DOMAIN verifications BY <1>3, <1>4, <2>1 DEF VerifyInv, Judging
  <2>2. CASE v = Len(verifications) + 1
    <3>1. Judged(v)' = {} BY <1>2, <1>3, <2>2 DEF Judged
    <3>2. \A u \in Units : verifications'[v].verdict[u].missing = {}
      <4>1. verifications'[v].verdict = [u \in Units |-> Unjudged] BY <1>2, <1>3, <2>2
      <4>2. Unjudged.missing = {} BY DEF Unjudged
      <4> QED BY <4>1, <4>2
    <3>3. 1..0 = {} /\ 0 \in Nat OBVIOUS
    <3> QED BY <3>1, <3>2, <3>3
  <2> QED BY <1>3, <2>1, <2>2
<1>6. VerifyTyped' BY <1>1, <1>3 DEF VerifyInv, VerifyTyped
<1>7. RepairsAreOfFound' BY <1>1, <1>3, PartsStay DEF VerifyInv
<1>8. ReadsSnapshot'
  <2> SUFFICES ASSUME unitRead # NoUnit PROVE ReadsSnapshot'
    BY <1>1 DEF ReadsSnapshot
  <2>1. PICK of : of = unitRead.of OBVIOUS
  <2>2. of \in DOMAIN verifications BY <2>1 DEF VerifyInv, ReadsSnapshot
  <2>3. Judged(of)' = Judged(of) /\ verifications'[of] = verifications[of] BY <1>3, <1>4, <2>2
  <2>4. Judged(unitRead.of)' = Judged(unitRead.of) BY <1>1, <2>1, <2>3
  <2>5. \A bs, cal, u : MissingDays(bs, cal, u)' = MissingDays(bs, cal, u) BY DEF MissingDays
  <2>6. MissingDays(held, known, unitRead.unit)' = MissingDays(held, known, unitRead.unit) BY <1>1 DEF MissingDays
  <2> QED BY <1>1, <1>3, <2>1, <2>2, <2>3, <2>4, <2>5, <2>6 DEF VerifyInv, ReadsSnapshot
<1> QED BY <1>5, <1>6, <1>7, <1>8 DEF VerifyInv

\* The pages of a unit are of what its first query saw.
LEMMA RowsKeep == ASSUME VerifyInv, ReadRows PROVE VerifyInv'
<1> DEFINE see == Seen  days == see.bars \cap DaysOf(unitRead.unit)
           page == {d \in days : Place(days, d) \in unitRead.offset + 1..unitRead.offset + RowsOfPage}
<1>1. /\ unitRead # NoUnit /\ unitRead.more
      /\ unitRead' = [see EXCEPT !.rows = @ \cup page, !.offset = @ + Cardinality(page), !.more = Cardinality(page) = RowsOfPage]
      /\ UNCHANGED <<held, known, verifications, unitMoments, shown, repairs>>
  BY DEF ReadRows
<1>2. /\ unitRead \in ReadType /\ unitRead.of \in DOMAIN verifications
      /\ verifications[unitRead.of].state = "running" /\ Judged(unitRead.of) = 1..unitRead.unit - 1
      /\ MissingDays(held, known, unitRead.unit) \in unitMoments
  BY <1>1 DEF VerifyInv, ReadsSnapshot
<1>3. /\ see \in ReadType /\ see.of = unitRead.of /\ see.unit = unitRead.unit /\ see.taken = TRUE
      /\ see.offset = unitRead.offset /\ see.rows = unitRead.rows
  <2>1. CASE unitRead.taken
    <3>1. see = unitRead BY <2>1 DEF Seen
    <3> QED BY <1>2, <2>1, <3>1 DEF ReadType
  <2>2. CASE ~unitRead.taken
    <3>1. see = [unitRead EXCEPT !.taken = TRUE, !.bars = held, !.calendar = known] BY <2>2 DEF Seen, SeenNow
    <3>2. held \in SUBSET Int /\ known \in SUBSET Int BY DEF VerifyInv, VerifyTyped
    <3> HIDE DEF see
    <3> QED BY <1>2, <3>1, <3>2 DEF ReadType
  <2> QED BY <2>1, <2>2
<1>4. MissingDays(see.bars, see.calendar, unitRead.unit) \in unitMoments
  <2>1. CASE unitRead.taken
    <3>1. see = unitRead BY <2>1 DEF Seen
    <3> QED BY <1>1, <2>1, <3>1 DEF VerifyInv, ReadsSnapshot
  <2>2. CASE ~unitRead.taken
    <3>1. see = [unitRead EXCEPT !.taken = TRUE, !.bars = held, !.calendar = known] BY <2>2 DEF Seen, SeenNow
    <3>2. see.bars = held /\ see.calendar = known
      <4> HIDE DEF see
      <4> QED BY <1>2, <3>1 DEF ReadType
    <3> QED BY <1>2, <3>2
  <2> QED BY <2>1, <2>2
<1>5. days \in SUBSET (0..LastRangeDay) /\ LastRangeDay \in Nat /\ RowsOfPage \in Nat \ {0} /\ days \subseteq RangeDays
  BY VerificationAssumption DEF DaysOf, RangeDays
<1>6. see.offset \in Nat /\ see.rows = {d \in days : Place(days, d) <= see.offset}
  <2>1. see.offset \in Nat BY <1>3 DEF ReadType
  <2>2. CASE unitRead.taken
    <3>1. see = unitRead BY <2>2 DEF Seen
    <3> QED BY <1>1, <2>1, <2>2, <3>1 DEF VerifyInv, ReadsSnapshot
  <2>3. CASE ~unitRead.taken
    <3>1. see.offset = 0 /\ see.rows = {} BY <1>1, <1>3, <2>3 DEF VerifyInv, ReadsSnapshot
    <3> HIDE DEF days
    <3>2. ASSUME NEW d \in days PROVE ~(Place(days, d) <= 0)
      <4>1. Place(days, d) \in 1..Cardinality(days) BY <1>5, RankOf DEF Place
      <4> QED BY <4>1
    <3> QED BY <3>1, <3>2
  <2> QED BY <2>2, <2>3
<1> HIDE DEF days
<1>7. page \subseteq days /\ IsFiniteSet(page) /\ Cardinality(page) \in Nat
  <2>1. page \subseteq days OBVIOUS
  <2>2. IsFiniteSet(0..LastRangeDay) BY <1>5, FS_Interval
  <2> HIDE DEF page
  <2>3. page \in SUBSET (0..LastRangeDay) BY <1>5, <2>1
  <2> QED BY <2>1, <2>2, <2>3, FS_Subset, FS_CardinalityType
<1> DEFINE offset == see.offset + Cardinality(page)  more == Cardinality(page) = RowsOfPage  rows2 == see.rows \cup page
<1>8. rows2 = IF more THEN {d \in days : Place(days, d) <= offset} ELSE days
  <2>1. \A d \in days : Place(days, d) \in Nat
    <3> SUFFICES ASSUME NEW d \in days PROVE Place(days, d) \in Nat
      OBVIOUS
    <3>1. Place(days, d) \in 1..Cardinality(days) BY <1>5, RankOf DEF Place
    <3> QED BY <3>1
  <2>2. see.offset = unitRead.offset /\ see.offset \in Nat BY <1>3, <1>6
  <2>3. page = {d \in days : Place(days, d) > see.offset /\ Place(days, d) <= see.offset + RowsOfPage}
    <3>1. \A k \in Nat : k \in unitRead.offset + 1..unitRead.offset + RowsOfPage
                          <=> k > see.offset /\ k <= see.offset + RowsOfPage
      BY <1>5, <2>2
    <3> HIDE DEF see
    <3> QED BY <2>1, <3>1
  <2>4. rows2 = {d \in days : Place(days, d) <= see.offset + RowsOfPage}
    <3> HIDE DEF page
    <3>1. \A d \in days : Place(days, d) <= see.offset + RowsOfPage
            <=> Place(days, d) <= see.offset \/ (Place(days, d) > see.offset /\ Place(days, d) <= see.offset + RowsOfPage)
      BY <1>5, <2>1, <2>2
    <3> QED BY <1>6, <2>3, <3>1
  <2>5. CASE more BY <2>4, <2>5
  <2>6. CASE ~more
    <3>1. ASSUME NEW d \in days, Place(days, d) > see.offset + RowsOfPage PROVE FALSE
      <4>1. Cardinality({e \in days : Place(days, e) \in see.offset + 1..see.offset + RowsOfPage}) = RowsOfPage
        BY <1>5, <2>2, <3>1, FullPages
      <4> QED BY <2>2, <2>6, <4>1
    <3>2. \A d \in days : Place(days, d) <= see.offset + RowsOfPage BY <1>5, <2>1, <2>2, <3>1
    <3>3. rows2 = days BY <2>4, <3>2
    <3> QED BY <2>6, <3>3
  <2> QED BY <2>5, <2>6
<1> HIDE DEF page
<1>9. rows2 \subseteq Int /\ offset \in Nat /\ more \in BOOLEAN
  <2>1. see.rows \subseteq days BY <1>6
  <2>2. days \subseteq Int
    <3>1. RangeDays \subseteq Int BY DEF RangeDays
    <3> QED BY <1>5, <3>1
  <2>3. rows2 \subseteq Int BY <1>7, <2>1, <2>2
  <2>4. offset \in Nat BY <1>6, <1>7
  <2> QED BY <2>3, <2>4
<1>10. PICK read : read = unitRead' OBVIOUS
<1> HIDE DEF see
<1>11. /\ read \in ReadType /\ read.of = unitRead.of /\ read.unit = unitRead.unit /\ read.taken = TRUE
       /\ read.bars = see.bars /\ read.calendar = see.calendar
       /\ read.offset = offset /\ read.rows = rows2 /\ (read.more <=> more)
  BY <1>1, <1>3, <1>9, <1>10 DEF ReadType
<1> HIDE DEF rows2, offset, more
<1>12. ReadsSnapshot'
  <2>1. days = read.bars \cap DaysOf(read.unit) BY <1>11 DEF days
  <2>2. read.rows = IF read.more THEN {d \in days : Place(days, d) <= read.offset} ELSE days BY <1>8, <1>11
  <2>3. Judged(unitRead.of)' = 1..read.unit - 1
    <3>1. Judged(unitRead.of)' = Judged(unitRead.of) BY <1>1, <1>10, <1>11 DEF Judged
    <3> QED BY <1>2, <1>11, <3>1
  <2>4. MissingDays(held, known, unitRead.unit)' = MissingDays(held, known, unitRead.unit)
    BY <1>1, <1>10, <1>11 DEF MissingDays
  <2>5. MissingDays(unitRead.bars, unitRead.calendar, unitRead.unit)' = MissingDays(see.bars, see.calendar, unitRead.unit)
    BY <1>10, <1>11 DEF MissingDays
  <2>7. /\ MissingDays(held, known, unitRead.unit)' \in unitMoments'
        /\ MissingDays(unitRead.bars, unitRead.calendar, unitRead.unit)' \in unitMoments'
    BY <1>1, <1>2, <1>4, <2>4, <2>5
  <2>8. read.of \in DOMAIN verifications' /\ verifications'[read.of].state = "running" BY <1>1, <1>2, <1>11
  <2>9. read.rows = IF read.more THEN {d \in read.bars \cap DaysOf(read.unit) :
                                         Place(read.bars \cap DaysOf(read.unit), d) <= read.offset}
                                 ELSE read.bars \cap DaysOf(read.unit)
    BY <2>1, <2>2
  <2> QED BY <1>10, <1>11, <2>3, <2>7, <2>8, <2>9 DEF ReadsSnapshot
<1>13. VerifyTyped' BY <1>1 DEF VerifyInv, VerifyTyped
<1>14. Judging' BY <1>1 DEF VerifyInv, Judging, Judged
<1>15. RepairsAreOfFound' BY <1>1, PartsStay DEF VerifyInv
<1> QED BY <1>12, <1>13, <1>14, <1>15 DEF VerifyInv

\* A verdict that names only days of its unit.
LEMMA VerdictKeeps ==
  ASSUME VerifyInv, unitRead # NoUnit, NEW read \in {"all", "rejected"},
         NEW missing \in SUBSET DaysOf(unitRead.unit), Verdict(read, missing)
  PROVE  /\ VerifyInv'
         /\ \A v \in DOMAIN verifications, u \in Units :
              \/ verifications'[v].verdict[u] = verifications[v].verdict[u]
              \/ u = unitRead.unit /\ verifications'[v].verdict[u] = [read |-> read, missing |-> missing]
<1> DEFINE e == [read |-> read, missing |-> missing]
<1>1. PICK v : v = unitRead.of OBVIOUS
<1>2. PICK unit : unit = unitRead.unit OBVIOUS
<1>3. /\ v \in DOMAIN verifications /\ unit \in Units /\ verifications[v].state = "running"
      /\ Judged(v) = 1..unit - 1 /\ missing \in SUBSET DaysOf(unit)
  BY <1>1, <1>2 DEF VerifyInv, ReadsSnapshot, ReadType
<1>4. missing \in SUBSET RangeDays /\ e \in VerdictType /\ e # Unjudged /\ e.missing = missing
  BY <1>3 DEF DaysOf, VerdictType, Unjudged
<1> HIDE DEF e
<1>5. verifications \in Seq(VerificationType) /\ verifications[v] \in VerificationType
      /\ DOMAIN verifications = 1..Len(verifications)
  BY <1>3 DEF VerifyInv, VerifyTyped
<1> DEFINE new == [verifications[v] EXCEPT !.verdict = [verifications[v].verdict EXCEPT ![unit] = e]]
<1>6. /\ verifications' = [verifications EXCEPT ![v] = new] /\ unitRead' = NoUnit /\ unitMoments' = {}
      /\ UNCHANGED <<held, known, shown, repairs>>
  <2>1. verifications' = [verifications EXCEPT ![v].verdict[unit] = e] BY <1>1, <1>2 DEF Verdict, e
  <2> QED BY <2>1 DEF Verdict
<1>7. /\ new \in VerificationType /\ new.state = verifications[v].state
      /\ new.verdict = [verifications[v].verdict EXCEPT ![unit] = e]
  BY <1>3, <1>4, <1>5 DEF VerificationType
<1> HIDE DEF new
<1>8. /\ verifications' \in Seq(VerificationType) /\ DOMAIN verifications' = DOMAIN verifications
      /\ \A x \in DOMAIN verifications : verifications'[x] = IF x = v THEN new ELSE verifications[x]
  BY <1>3, <1>5, <1>6, <1>7, ExceptSeq
<1>9. \A u \in Units : new.verdict[u] = IF u = unit THEN e ELSE verifications[v].verdict[u]
  BY <1>5, <1>7 DEF VerificationType
<1>10. Judged(v)' = 1..unit
  <2>1. Judged(v)' = {u \in Units : new.verdict[u] # Unjudged} BY <1>3, <1>8 DEF Judged
  <2>2. {u \in Units : new.verdict[u] # Unjudged} = Judged(v) \union {unit} BY <1>3, <1>4, <1>9 DEF Judged
  <2>3. unit \in Nat /\ unit >= 1 BY <1>3 DEF Units
  <2>4. (1..unit - 1) \union {unit} = 1..unit BY <2>3
  <2> QED BY <1>3, <2>1, <2>2, <2>4
<1>11. Judging'
  <2> SUFFICES ASSUME NEW x \in DOMAIN verifications
               PROVE  /\ \A u \in Units : verifications'[x].verdict[u].missing \subseteq DaysOf(u)
                      /\ \E k \in Nat : Judged(x)' = 1..k
    BY <1>8 DEF Judging
  <2>1. CASE x = v
    <3>1. unit \in Nat BY <1>3 DEF Units
    <3>2. \A u \in Units : verifications'[x].verdict[u].missing \subseteq DaysOf(u)
      BY <1>3, <1>4, <1>8, <1>9, <2>1 DEF VerifyInv, Judging
    <3> QED BY <1>10, <2>1, <3>1, <3>2
  <2>2. CASE x # v
    <3>1. verifications'[x] = verifications[x] BY <1>8, <2>2
    <3>2. Judged(x)' = Judged(x) BY <3>1 DEF Judged
    <3> QED BY <3>1, <3>2 DEF VerifyInv, Judging
  <2> QED BY <2>1, <2>2
<1>12. VerifyTyped' BY <1>6, <1>8 DEF VerifyInv, VerifyTyped
<1>13. RepairsAreOfFound'
  <2>1. \A x \in DOMAIN verifications : ~Active(verifications[x]) => verifications'[x] = verifications[x]
    BY <1>3, <1>8 DEF Active
  <2> QED BY <1>6, <1>8, <2>1, PartsStay DEF VerifyInv
<1>14. ReadsSnapshot' BY <1>6 DEF ReadsSnapshot, NoUnit
<1>15. \A x \in DOMAIN verifications, u \in Units :
         \/ verifications'[x].verdict[u] = verifications[x].verdict[u]
         \/ u = unitRead.unit /\ verifications'[x].verdict[u] = e
  BY <1>2, <1>8, <1>9
<1> QED BY <1>11, <1>12, <1>13, <1>14, <1>15 DEF VerifyInv, e

\* The days a full reading misses are those of the snapshot.
LEMMA ReadingIsComplete ==
  ASSUME VerifyInv, unitRead # NoUnit, ~unitRead.more
  PROVE  /\ MissingDays(unitRead.rows, unitRead.calendar, unitRead.unit) \in unitMoments
         /\ MissingDays(unitRead.rows, unitRead.calendar, unitRead.unit) \subseteq DaysOf(unitRead.unit)
<1>1. unitRead.taken BY DEF VerifyInv, ReadsSnapshot
<1>2. /\ unitRead.rows = unitRead.bars \cap DaysOf(unitRead.unit)
      /\ MissingDays(unitRead.bars, unitRead.calendar, unitRead.unit) \in unitMoments
  BY <1>1 DEF VerifyInv, ReadsSnapshot
<1>3. MissingDays(unitRead.rows, unitRead.calendar, unitRead.unit) = MissingDays(unitRead.bars, unitRead.calendar, unitRead.unit)
  BY <1>2 DEF MissingDays
<1> QED BY <1>2, <1>3 DEF MissingDays

\* A step that leaves what is read and judged alone.
LEMMA ReadingStays ==
  ASSUME VerifyInv, UNCHANGED <<held, known, verifications, unitRead, unitMoments>>
  PROVE  ReadsSnapshot' /\ Judging'
BY DEF VerifyInv, ReadsSnapshot, Judging, Judged, MissingDays, Place

LEMMA RepairAdded ==
  ASSUME VerifyInv, NEW v \in DOMAIN verifications, ~Active(verifications[v]), NEW parts \in SUBSET AllParts(v),
         NEW line \in Seq(Nat), NewRepair(v, parts, line)
  PROVE  VerifyInv'
<1> DEFINE e == [of |-> v, line |-> line, parts |-> parts, state |-> "queued", done |-> {}]
<1>1. /\ repairs' = Append(repairs, e)
      /\ UNCHANGED <<held, known, verifications, unitRead, unitMoments, shown>>
  BY DEF NewRepair
<1>2. e \in RepairType /\ e.of = v /\ e.parts = parts /\ e.done = {}
  <2>1. AllParts(v) \subseteq Dates BY DEF AllParts, Merged, Dates
  <2>2. v \in Nat BY DEF VerifyInv, VerifyTyped
  <2> QED BY <2>1, <2>2 DEF RepairType, Ended
<1> HIDE DEF e
<1>3. /\ repairs' \in Seq(RepairType) /\ DOMAIN repairs' = DOMAIN repairs \union {Len(repairs) + 1}
      /\ repairs'[Len(repairs) + 1] = e /\ \A r \in DOMAIN repairs : repairs'[r] = repairs[r]
  <2>1. repairs \in Seq(RepairType) BY DEF VerifyInv, VerifyTyped
  <2> QED BY <1>1, <1>2, <2>1
<1>4. VerifyTyped' BY <1>1, <1>3 DEF VerifyInv, VerifyTyped
<1>5. RepairsAreOfFound'
  <2>0. \A x : AllParts(x)' = AllParts(x) BY <1>1 DEF AllParts, Found
  <2> SUFFICES ASSUME NEW r \in DOMAIN repairs', NEW rep, rep = repairs'[r]
               PROVE  /\ rep.of \in DOMAIN verifications /\ ~Active(verifications[rep.of])
                      /\ rep.parts \subseteq AllParts(rep.of) /\ rep.done \subseteq rep.parts
    BY <1>1, <2>0 DEF RepairsAreOfFound
  <2>1. CASE r \in DOMAIN repairs
    <3>1. rep = repairs[r] BY <1>3, <2>1
    <3> QED BY <2>1, <3>1 DEF VerifyInv, RepairsAreOfFound
  <2>2. CASE r = Len(repairs) + 1
    <3>1. rep.of = v /\ rep.parts = parts /\ rep.done = {} BY <1>2, <1>3, <2>2
    <3> QED BY <3>1
  <2> QED BY <1>3, <2>1, <2>2
<1> QED BY <1>1, <1>4, <1>5, ReadingStays DEF VerifyInv

LEMMA RepairChanges ==
  ASSUME VerifyInv, NEW r \in DOMAIN repairs, NEW s \in Ended, NEW done \in SUBSET repairs[r].parts,
         repairs' = [repairs EXCEPT ![r].state = s, ![r].done = done] \/ repairs' = [repairs EXCEPT ![r].state = s],
         UNCHANGED <<verifications, shown>>, held' \subseteq Int, known' \subseteq Int
  PROVE  VerifyTyped' /\ RepairsAreOfFound'
<1>1. repairs \in Seq(RepairType) /\ repairs[r] \in RepairType /\ DOMAIN repairs = 1..Len(repairs)
  BY DEF VerifyInv, VerifyTyped
<1>2. PICK new \in RepairType : /\ new.of = repairs[r].of /\ new.parts = repairs[r].parts
                                /\ new.done \subseteq repairs[r].parts
                                /\ repairs' = [repairs EXCEPT ![r] = new]
  <2>0. done \in SUBSET Dates BY <1>1 DEF RepairType
  <2>1. CASE repairs' = [repairs EXCEPT ![r].state = s, ![r].done = done]
    <3> DEFINE new == [repairs[r] EXCEPT !.state = s, !.done = done]
    <3>1. new \in RepairType /\ new.of = repairs[r].of /\ new.parts = repairs[r].parts /\ new.done = done
      BY <1>1, <2>0 DEF RepairType
    <3>2. repairs' = [repairs EXCEPT ![r] = new] BY <1>1, <2>1
    <3> QED BY <3>1, <3>2
  <2>2. CASE repairs' = [repairs EXCEPT ![r].state = s]
    <3> DEFINE new == [repairs[r] EXCEPT !.state = s]
    <3>1. new \in RepairType /\ new.of = repairs[r].of /\ new.parts = repairs[r].parts /\ new.done = repairs[r].done
      BY <1>1 DEF RepairType
    <3>2. repairs' = [repairs EXCEPT ![r] = new] BY <1>1, <2>2
    <3>3. repairs[r].done \subseteq repairs[r].parts BY DEF VerifyInv, RepairsAreOfFound
    <3> QED BY <3>1, <3>2, <3>3
  <2> QED BY <2>1, <2>2
<1>3. /\ repairs' \in Seq(RepairType) /\ DOMAIN repairs' = DOMAIN repairs
      /\ \A x \in DOMAIN repairs : repairs'[x] = IF x = r THEN new ELSE repairs[x]
  BY <1>1, <1>2, ExceptSeq
<1>4. VerifyTyped' BY <1>3 DEF VerifyInv, VerifyTyped
<1>5. RepairsAreOfFound'
  <2>0. \A y : AllParts(y)' = AllParts(y) BY DEF AllParts, Found
  <2> SUFFICES ASSUME NEW x \in DOMAIN repairs, NEW rep, rep = repairs'[x]
               PROVE  /\ rep.of \in DOMAIN verifications /\ ~Active(verifications[rep.of])
                      /\ rep.parts \subseteq AllParts(rep.of) /\ rep.done \subseteq rep.parts
    BY <1>3, <2>0 DEF RepairsAreOfFound
  <2>1. rep.of = repairs[x].of /\ rep.parts = repairs[x].parts /\ rep.done \subseteq rep.parts
    BY <1>2, <1>3 DEF VerifyInv, RepairsAreOfFound
  <2> QED BY <2>1 DEF VerifyInv, RepairsAreOfFound
<1> QED BY <1>4, <1>5

LEMMA VerifyStep == VerifyInv /\ [VerifyNext]_verifyVars => VerifyInv'
<1> SUFFICES ASSUME VerifyInv, [VerifyNext]_verifyVars PROVE VerifyInv'
  OBVIOUS
<1>1. ASSUME NEW first \in RangeDays, NEW last \in RangeDays, OthersStore(first, last) PROVE VerifyInv'
  <2>1. UNCHANGED <<verifications, unitRead, shown, repairs>>
        /\ (NowHold(held \union first..last, known) \/ NowHold(held, known \union first..last))
    BY <1>1 DEF OthersStore
  <2>2. first \in Int /\ last \in Int BY DEF RangeDays
  <2>3. held' \subseteq Int /\ known' \subseteq Int /\ ReadsSnapshot' /\ Judging' BY <2>1, <2>2, HoldsKeeps
  <2>4. VerifyTyped' BY <2>1, <2>3 DEF VerifyInv, VerifyTyped
  <2>5. RepairsAreOfFound' BY <2>1, PartsStay DEF VerifyInv
  <2> QED BY <2>3, <2>4, <2>5 DEF VerifyInv
<1>2. CASE CreateVerification BY <1>2, CreateKeeps
<1>3. CASE ReadRows BY <1>3, RowsKeep
<1>4. CASE JudgeUnit BY <1>4, ReadingIsComplete, VerdictKeeps DEF JudgeUnit
<1>5. CASE RejectUnit
  <2>1. {} \in SUBSET DaysOf(unitRead.unit) OBVIOUS
  <2> QED BY <1>5, <2>1, VerdictKeeps DEF RejectUnit
<1>6. ASSUME NEW v \in DOMAIN verifications, BeginUnit(v) \/ VerifyEnds(v) \/ VerifyStops(v) PROVE VerifyInv'
  <2>1. CASE BeginUnit(v) BY <2>1, BeginKeeps
  <2>2. CASE VerifyEnds(v)
    <3>1. /\ Active(verifications[v]) /\ Judged(v) = Units
          /\ verifications' = [verifications EXCEPT ![v].state = "ended"]
          /\ UNCHANGED <<held, known, unitRead, unitMoments, shown, repairs>>
      BY <2>2 DEF VerifyEnds, Active
    <3>2. ASSUME unitRead # NoUnit, unitRead.of = v PROVE FALSE
      <4>1. Judged(v) = 1..unitRead.unit - 1 /\ unitRead.unit \in Units
        BY <3>2 DEF VerifyInv, ReadsSnapshot, ReadType
      <4>2. unitRead.unit \in Int BY <4>1 DEF Units
      <4>3. unitRead.unit \notin 1..unitRead.unit - 1 BY <4>2
      <4> QED BY <3>1, <4>1, <4>3
    <3> QED BY <3>1, <3>2, StateChanges DEF Ended, VerifyInv
  <2>3. CASE VerifyStops(v)
    <3>1. PICK s \in {"queued", "ended"} : verifications' = [verifications EXCEPT ![v].state = s]
      BY <2>3 DEF VerifyStops
    <3>2. /\ Active(verifications[v]) /\ unitRead' = NoUnit /\ UNCHANGED <<held, known, shown, repairs>>
      BY <2>3 DEF VerifyStops
    <3>3. s \in Ended BY DEF Ended
    <3>4. VerifyTyped' /\ Judging' /\ RepairsAreOfFound'
      <4>1. ~(unitRead # NoUnit /\ UNCHANGED <<unitRead, unitMoments>>) BY <3>2
      <4> QED BY <3>1, <3>2, <3>3, <4>1, StateChanges
    <3>5. ReadsSnapshot' BY <3>2 DEF ReadsSnapshot, NoUnit
    <3> QED BY <3>4, <3>5 DEF VerifyInv
  <2> QED BY <1>6, <2>1, <2>2, <2>3
<1>7. ASSUME NEW w \in Windows, NEW v \in DOMAIN verifications, NEW units \in SUBSET Units, PreviewRepair(w, v, units)
      PROVE  VerifyInv'
  <2> DEFINE e == [of |-> v, units |-> units, parts |-> Wanted(v, units)]
  <2>1. shown' = [shown EXCEPT ![w] = e] /\ UNCHANGED <<held, known, verifications, unitRead, unitMoments, repairs>>
    BY <1>7 DEF PreviewRepair
  <2>2. e \in [of : Nat, units : SUBSET Units, parts : SUBSET Dates] /\ e.of = v
    <3>1. Wanted(v, units) \subseteq Dates BY DEF Wanted, Merged, Dates
    <3>2. v \in Nat BY DEF VerifyInv, VerifyTyped
    <3> QED BY <3>1, <3>2
  <2> HIDE DEF e
  <2>3. VerifyTyped' BY <2>1, <2>2 DEF VerifyInv, VerifyTyped
  <2>4. RepairsAreOfFound' BY <2>1, PartsStay DEF VerifyInv
  <2> QED BY <2>1, <2>3, <2>4, ReadingStays DEF VerifyInv
<1>8. ASSUME NEW w \in Windows, CreateRepair(w) PROVE VerifyInv'
  <2>1. PICK v : v = shown[w].of OBVIOUS
  <2>2. PICK units : units = shown[w].units OBVIOUS
  <2>3. v # 0 /\ ~Active(verifications[v]) /\ NewRepair(v, Wanted(v, units), <<>>)
    BY <1>8, <2>1, <2>2 DEF CreateRepair
  <2>4. v \in DOMAIN verifications /\ units \subseteq Units BY <2>1, <2>2, <2>3 DEF VerifyInv, VerifyTyped
  <2>5. Wanted(v, units) \in SUBSET AllParts(v) BY <2>4 DEF Wanted, AllParts
  <2>6. <<>> \in Seq(Nat) OBVIOUS
  <2> QED BY <2>3, <2>4, <2>5, <2>6, RepairAdded
<1>9. ASSUME NEW q \in DOMAIN repairs, RetryRepair(q) PROVE VerifyInv'
  <2>1. PICK v : v = repairs[q].of OBVIOUS
  <2>2. PICK left \in SUBSET repairs[q].parts : NewRepair(v, left, Append(repairs[q].line, q))
    BY <1>9, <2>1 DEF RetryRepair
  <2>3. v \in DOMAIN verifications /\ ~Active(verifications[v]) /\ left \in SUBSET AllParts(v)
    BY <2>1, <2>2 DEF VerifyInv, RepairsAreOfFound
  <2>4. Append(repairs[q].line, q) \in Seq(Nat)
    <3>1. repairs \in Seq(RepairType) /\ q \in Nat BY DEF VerifyInv, VerifyTyped
    <3>0. repairs[q] \in RepairType BY <3>1
    <3>2. repairs[q].line \in Seq(Nat) BY <3>0 DEF RepairType
    <3> QED BY <3>1, <3>2
  <2> QED BY <2>2, <2>3, <2>4, RepairAdded
<1>10. ASSUME NEW q \in DOMAIN repairs, NEW p \in repairs[q].parts, RepairFetches(q, p) PROVE VerifyInv'
  <2>1. /\ repairs' = [repairs EXCEPT ![q].state = "running", ![q].done = repairs[q].done \union {p}]
        /\ NowHold(held \union p[1]..p[2], known) /\ UNCHANGED <<verifications, unitRead, shown>>
    BY <1>10 DEF RepairFetches
  <2>2. p[1] \in Int /\ p[2] \in Int
    <3>1. repairs \in Seq(RepairType) BY DEF VerifyInv, VerifyTyped
    <3>0. repairs[q] \in RepairType BY <3>1
    <3>2. p \in Dates BY <3>0 DEF RepairType
    <3> QED BY <3>2 DEF Dates, RangeDays
  <2>3. held' \subseteq Int /\ known' \subseteq Int /\ ReadsSnapshot' /\ Judging' BY <2>1, <2>2, HoldsKeeps
  <2>4. repairs[q].done \union {p} \in SUBSET repairs[q].parts BY DEF VerifyInv, RepairsAreOfFound
  <2>5. "running" \in Ended BY DEF Ended
  <2>6. VerifyTyped' /\ RepairsAreOfFound'
    <3>1. PICK done \in SUBSET repairs[q].parts : done = repairs[q].done \union {p} BY <2>4
    <3>2. repairs' = [repairs EXCEPT ![q].state = "running", ![q].done = done] BY <2>1, <3>1
    <3> QED BY <2>1, <2>3, <2>5, <3>2, RepairChanges
  <2> QED BY <2>3, <2>6 DEF VerifyInv
<1>11. ASSUME NEW q \in DOMAIN repairs, RepairEnds(q) PROVE VerifyInv'
  <2>1. /\ repairs' = [repairs EXCEPT ![q].state = "ended"]
        /\ UNCHANGED <<held, known, verifications, unitRead, unitMoments, shown>>
    BY <1>11 DEF RepairEnds
  <2>2. "ended" \in Ended /\ {} \in SUBSET repairs[q].parts /\ held' \subseteq Int /\ known' \subseteq Int
    BY <2>1 DEF Ended, VerifyInv, VerifyTyped
  <2>3. VerifyTyped' /\ RepairsAreOfFound' BY <2>1, <2>2, RepairChanges
  <2> QED BY <2>1, <2>3, ReadingStays DEF VerifyInv
<1>12. CASE UNCHANGED verifyVars
  <2>1. UNCHANGED <<held, known, verifications, unitRead, unitMoments, shown, repairs>> BY <1>12 DEF verifyVars
  <2>2. VerifyTyped' BY <2>1 DEF VerifyInv, VerifyTyped
  <2>3. RepairsAreOfFound' BY <2>1, PartsStay DEF VerifyInv
  <2> QED BY <2>1, <2>2, <2>3, ReadingStays DEF VerifyInv
<1> QED BY <1>1, <1>2, <1>3, <1>4, <1>5, <1>6, <1>7, <1>8, <1>9, <1>10, <1>11, <1>12 DEF VerifyNext

(* What a verification records as missing in a unit was missing at one moment of
   the transaction that read it, for any number of days, widths of units and
   pages, verifications, and writes of the other lanes; rests on every page and
   the calendar coming from the snapshot of the first query, and on a page that
   is not full being the last one (tasks.py verify). *)
THEOREM VerdictsAreOfOneMoment == VerifySpec => VerdictOfOneMoment
<1> DEFINE Kept == \A v \in DOMAIN verifications, u \in Units :
                     verifications[v].verdict[u] = Unjudged /\ verifications'[v].verdict[u].read = "all"
                       => verifications'[v].verdict[u].missing \in unitMoments
           Same == \A v \in DOMAIN verifications : verifications'[v].verdict = verifications[v].verdict
<1>1. VerifyInv /\ [VerifyNext]_verifyVars => [Kept]_verifyVars
  <2> SUFFICES ASSUME VerifyInv, VerifyNext PROVE Kept
    OBVIOUS
  <2>0. Unjudged.read # "all" BY DEF Unjudged
  <2>1. CASE Same BY <2>0, <2>1
  <2>2. CASE JudgeUnit
    <3> DEFINE missing == MissingDays(unitRead.rows, unitRead.calendar, unitRead.unit)
    <3>1. missing \in unitMoments /\ missing \in SUBSET DaysOf(unitRead.unit) /\ unitRead # NoUnit /\ Verdict("all", missing)
      BY <2>2, ReadingIsComplete DEF JudgeUnit
    <3> HIDE DEF missing
    <3>2. \A v \in DOMAIN verifications, u \in Units :
            \/ verifications'[v].verdict[u] = verifications[v].verdict[u]
            \/ u = unitRead.unit /\ verifications'[v].verdict[u] = [read |-> "all", missing |-> missing]
      BY <3>1, VerdictKeeps
    <3> QED BY <2>0, <3>1, <3>2
  <2>3. CASE RejectUnit
    <3>1. {} \in SUBSET DaysOf(unitRead.unit) /\ unitRead # NoUnit /\ Verdict("rejected", {}) BY <2>3 DEF RejectUnit
    <3>2. \A v \in DOMAIN verifications, u \in Units :
            \/ verifications'[v].verdict[u] = verifications[v].verdict[u]
            \/ u = unitRead.unit /\ verifications'[v].verdict[u] = [read |-> "rejected", missing |-> {}]
      BY <3>1, VerdictKeeps
    <3> QED BY <2>0, <3>2
  <2>4. CASE CreateVerification
    <3>1. verifications \in Seq(VerificationType) BY DEF VerifyInv, VerifyTyped
    <3>2. Same BY <2>4, <3>1 DEF CreateVerification
    <3> QED BY <2>1, <3>2
  <2>5. ASSUME NEW x \in DOMAIN verifications, BeginUnit(x) \/ VerifyEnds(x) \/ VerifyStops(x) PROVE Kept
    <3>1. PICK s \in Ended : verifications' = [verifications EXCEPT ![x].state = s]
      BY <2>5 DEF BeginUnit, VerifyEnds, VerifyStops, Ended
    <3>2. verifications \in Seq(VerificationType) /\ verifications[x] \in VerificationType BY DEF VerifyInv, VerifyTyped
    <3>3. Same BY <3>1, <3>2 DEF VerificationType
    <3> QED BY <2>1, <3>3
  <2>6. CASE UNCHANGED verifications
    <3>1. Same BY <2>6
    <3> QED BY <2>1, <3>1
  <2>7. /\ \A first, last : OthersStore(first, last) => UNCHANGED verifications
        /\ ReadRows => UNCHANGED verifications
        /\ \A w, v, units : PreviewRepair(w, v, units) => UNCHANGED verifications
        /\ \A v, parts, line : NewRepair(v, parts, line) => UNCHANGED verifications
        /\ \A q, p : RepairFetches(q, p) => UNCHANGED verifications
        /\ \A q : RepairEnds(q) => UNCHANGED verifications
    BY DEF OthersStore, ReadRows, PreviewRepair, NewRepair, RepairFetches, RepairEnds
  <2>8. /\ \A w : CreateRepair(w) => UNCHANGED verifications
        /\ \A q : RetryRepair(q) => UNCHANGED verifications
    BY <2>7 DEF CreateRepair, RetryRepair
  <2> HIDE DEF Kept
  <2> QED BY <2>2, <2>3, <2>4, <2>5, <2>6, <2>7, <2>8 DEF VerifyNext
<1> QED BY <1>1, VerifyStart, VerifyStep, PTL DEF VerifySpec, VerdictOfOneMoment
\* No day is in two of the parts a verification's repairs are made of.
LEMMA PartsShareNoDay ==
  ASSUME VerifyInv, NEW v \in DOMAIN verifications,
         NEW p \in AllParts(v), NEW q \in AllParts(v), NEW d \in p[1]..p[2], d \in q[1]..q[2]
  PROVE  p = q
<1>1. PICK u \in Units : p \in Merged(Found(v, {u})) BY DEF AllParts
<1>2. PICK t \in Units : q \in Merged(Found(v, {t})) BY DEF AllParts
<1>3. Found(v, {u}) \subseteq DaysOf(u) /\ Found(v, {t}) \subseteq DaysOf(t) BY DEF Found, VerifyInv, Judging
<1>4. Found(v, {u}) \in SUBSET RangeDays /\ Found(v, {t}) \in SUBSET RangeDays BY <1>3 DEF DaysOf
<1>5. d \in Found(v, {u}) /\ d \in Found(v, {t}) BY <1>1, <1>2, <1>4, RangesPartition
<1>6. u = t BY <1>3, <1>5, UnitsShareNoDay
<1> QED BY <1>1, <1>2, <1>4, <1>5, <1>6, RangesPartition

\* What is wanted of some units covers what they miss and nothing has fetched.
LEMMA WantedIsMissing ==
  ASSUME VerifyInv, NEW v \in DOMAIN verifications, NEW units \in SUBSET Units
  PROVE  /\ UNION {p[1]..p[2] : p \in Wanted(v, units)} = Found(v, units) \ UNION {p[1]..p[2] : p \in Fetched(v)}
         /\ \A p, q \in Wanted(v, units) : p # q => p[1]..p[2] \cap q[1]..q[2] = {}
<1>1. Wanted(v, units) \subseteq AllParts(v) \ Fetched(v) BY DEF Wanted, AllParts
<1>2. Fetched(v) \subseteq AllParts(v)
  BY DEF Fetched, RepairsOf, VerifyInv, RepairsAreOfFound
<1>3. ASSUME NEW u \in units PROVE Found(v, {u}) \in SUBSET RangeDays /\ Found(v, {u}) \subseteq Found(v, units)
  <2>1. Found(v, {u}) \subseteq DaysOf(u) BY DEF Found, VerifyInv, Judging
  <2> QED BY <2>1 DEF Found, DaysOf
<1>4. ASSUME NEW p \in Wanted(v, units), NEW d \in p[1]..p[2]
      PROVE  d \in Found(v, units) /\ \A q \in Fetched(v) : d \notin q[1]..q[2]
  <2>1. PICK u \in units : p \in Merged(Found(v, {u})) BY DEF Wanted
  <2>2. d \in Found(v, units) BY <1>3, <2>1, RangesPartition
  <2>3. \A q \in Fetched(v) : d \notin q[1]..q[2] BY <1>1, <1>2, PartsShareNoDay
  <2> QED BY <2>2, <2>3
<1>5. ASSUME NEW d \in Found(v, units), \A q \in Fetched(v) : d \notin q[1]..q[2]
      PROVE  \E p \in Wanted(v, units) : d \in p[1]..p[2]
  <2>1. PICK u \in units : d \in Found(v, {u}) BY DEF Found
  <2>2. PICK p \in Merged(Found(v, {u})) : d \in p[1]..p[2] BY <1>3, <2>1, RangesPartition
  <2>3. p \in Wanted(v, units) BY <1>5, <2>2 DEF Wanted
  <2> QED BY <2>2, <2>3
<1>6. \A p, q \in Wanted(v, units) : p # q => p[1]..p[2] \cap q[1]..q[2] = {} BY <1>1, PartsShareNoDay
<1> HIDE DEF Wanted, Fetched, Found
<1>7. UNION {p[1]..p[2] : p \in Wanted(v, units)} = Found(v, units) \ UNION {p[1]..p[2] : p \in Fetched(v)} BY <1>4, <1>5
<1> QED BY <1>6, <1>7

(* A repair asks for what its window was showing: exactly the days its units
   were found to miss and nothing has fetched since, each of them once, and none
   other is at work on its verification; for any number of windows, repairs,
   days and units.  Rests on the key of the preview being compared under the
   lock of the verification's row, on the verification being over, so that what
   it found stays, and on what was fetched being whole ranges of it (storage.py
   verification_repair). *)
THEOREM RepairsAskForWhatWasShown == VerifySpec => RepairAsksForWhatWasShown
<1> DEFINE Asked ==
             Len(repairs') > Len(repairs) /\ Last(repairs').line = <<>> =>
               LET new == Last(repairs')
                   fetched == UNION {p[1]..p[2] : p \in Fetched(new.of)}
               IN \E w \in Windows :
                    /\ shown[w].of = new.of /\ shown[w].parts = new.parts
                    /\ UNION {p[1]..p[2] : p \in new.parts} = Found(new.of, shown[w].units) \ fetched
                    /\ \A p, q \in new.parts : p # q => p[1]..p[2] \cap q[1]..q[2] = {}
                    /\ ActiveOf(new.of) = {}
<1>1. VerifyInv /\ [VerifyNext]_verifyVars => [Asked]_verifyVars
  <2> SUFFICES ASSUME VerifyInv, VerifyNext PROVE Asked
    OBVIOUS
  <2>0. repairs \in Seq(RepairType) /\ Len(repairs) \in Nat BY DEF VerifyInv, VerifyTyped
  <2>1. CASE Len(repairs') = Len(repairs) BY <2>0, <2>1
  <2>2. ASSUME NEW w \in Windows, CreateRepair(w) PROVE Asked
    <3>1. PICK v : v = shown[w].of OBVIOUS
    <3>2. PICK units : units = shown[w].units OBVIOUS
    <3>3. PICK parts : parts = Wanted(v, units) OBVIOUS
    <3>4. v # 0 /\ ActiveOf(v) = {} /\ shown[w].parts = parts /\ NewRepair(v, parts, <<>>)
      BY <2>2, <3>1, <3>2, <3>3 DEF CreateRepair, StillShown
    <3>5. v \in DOMAIN verifications /\ units \in SUBSET Units BY <3>1, <3>2, <3>4 DEF VerifyInv, VerifyTyped
    <3>6. PICK e : /\ e = [of |-> v, line |-> <<>>, parts |-> parts, state |-> "queued", done |-> {}]
                   /\ repairs' = Append(repairs, e)
      BY <3>4 DEF NewRepair
    <3>7. Last(repairs') = e BY <2>0, <3>6 DEF Last
    <3>8. /\ UNION {p[1]..p[2] : p \in parts} = Found(v, units) \ UNION {p[1]..p[2] : p \in Fetched(v)}
          /\ \A p, q \in parts : p # q => p[1]..p[2] \cap q[1]..q[2] = {}
      BY <3>3, <3>5, WantedIsMissing
    <3>9. Last(repairs').of = v /\ Last(repairs').parts = parts BY <3>6, <3>7
    <3> QED BY <3>1, <3>2, <3>4, <3>8, <3>9
  <2>3. ASSUME NEW r \in DOMAIN repairs, RetryRepair(r) PROVE Asked
    <3>1. PICK v, parts : NewRepair(v, parts, Append(repairs[r].line, r)) BY <2>3 DEF RetryRepair
    <3>2. PICK line : line = Append(repairs[r].line, r) OBVIOUS
    <3>3. PICK e : e = [of |-> v, line |-> line, parts |-> parts, state |-> "queued", done |-> {}]
                   /\ repairs' = Append(repairs, e)
      BY <3>1, <3>2 DEF NewRepair
    <3>4. Last(repairs') = e BY <2>0, <3>3 DEF Last
    <3>5. repairs[r] \in RepairType /\ r \in Nat BY <2>0
    <3>6. line # <<>>
      <4>1. repairs[r].line \in Seq(Nat) BY <3>5 DEF RepairType
      <4> QED BY <3>2, <3>5, <4>1
    <3>7. Last(repairs').line # <<>> BY <3>3, <3>4, <3>6
    <3> QED BY <3>7
  <2>4. ASSUME NEW q \in DOMAIN repairs, NEW p \in repairs[q].parts, RepairFetches(q, p) PROVE Len(repairs') = Len(repairs)
    BY <2>0, <2>4 DEF RepairFetches
  <2>5. ASSUME NEW q \in DOMAIN repairs, RepairEnds(q) PROVE Len(repairs') = Len(repairs)
    BY <2>0, <2>5 DEF RepairEnds
  <2>6. CASE UNCHANGED repairs BY <2>1, <2>6
  <2>7. /\ \A first, last : OthersStore(first, last) => UNCHANGED repairs
        /\ CreateVerification => UNCHANGED repairs
        /\ ReadRows => UNCHANGED repairs
        /\ JudgeUnit => UNCHANGED repairs
        /\ RejectUnit => UNCHANGED repairs
        /\ \A v : BeginUnit(v) => UNCHANGED repairs
        /\ \A v : VerifyEnds(v) => UNCHANGED repairs
        /\ \A v : VerifyStops(v) => UNCHANGED repairs
        /\ \A w, v, units : PreviewRepair(w, v, units) => UNCHANGED repairs
    BY DEF OthersStore, CreateVerification, ReadRows, JudgeUnit, RejectUnit, Verdict, BeginUnit, VerifyEnds, VerifyStops,
           PreviewRepair
  <2> HIDE DEF Asked
  <2> QED BY <2>1, <2>2, <2>3, <2>4, <2>5, <2>6, <2>7 DEF VerifyNext
<1> QED BY <1>1, VerifyStart, VerifyStep, PTL DEF VerifySpec, RepairAsksForWhatWasShown
=============================================================================
