-------------------------- MODULE MaintenanceProofs --------------------------
(***************************************************************************)
(* Proofs about Maintenance.  An edit is tested when its transaction       *)
(* begins and written when it commits; what the tests established must     *)
(* still hold then.  The invariant therefore speaks of two tables: the     *)
(* rows as they are, and as they will be when the edit in progress is      *)
(* committed.  A revision says which configuration somebody saw.           *)
(***************************************************************************)
EXTENDS Maintenance, TLAPS

RowT == [status : {"absent", "live", "deleted"}, enabled : BOOLEAN, payload : Payloads \union {"none"},
         setting : Settings, last : Nat, revision : Nat]

\* A plan has a scope once it exists, and nothing that does not exist is enabled or has a revision.
RowFits(i, r) ==
  /\ r \in RowT
  /\ i \in Plans /\ r.status # "absent" => r.payload \in Payloads
  /\ r.status = "absent" => ~r.enabled /\ r.revision = 0

JobT == [by : {"schedule", "preview", "user"}, plan : Plans \union {"none"}, dataset : Datasets \union {"none"},
         payload : Payloads \union {"none"}, end : Nat, key : Nat, active : BOOLEAN]

PreviewT == [plan : Plans, revision : Nat, payload : Payloads, state : {"kept", "done", "gone"}]

Typed ==
  /\ row = [i \in Scopes |-> row[i]] /\ \A i \in Scopes : RowFits(i, row[i])
  /\ editor = Idle \/ editor \in [id : Scopes, window : Windows \union {"none"}, new : RowT]
  /\ window = [w \in Windows |-> window[w]]
  /\ \A w \in Windows : window[w] = Blank \/ window[w] \in [id : Scopes, row : RowT]
  /\ copy = Blank \/ copy \in [id : Scopes, row : RowT]
  /\ preview \in Seq(PreviewT)
  /\ jobs \in Seq(JobT)

\* OneMaintainer and RecycledIsQuiet of a table of rows.
Alone(r) ==
  \A p \in Plans : r[p].enabled =>
    /\ DatasetOf[r[p].payload] # "none" => ~r[DatasetOf[r[p].payload]].enabled
    /\ \A q \in Plans \ {p} : ~(r[q].enabled /\ r[q].payload = r[p].payload)

Quiet(r) ==
  \A i \in Scopes : r[i].status = "deleted" =>
    /\ ~r[i].enabled
    /\ Linked(i) = {}
    /\ \A p \in Plans : r[p].status = "live" => DatasetOf[r[p].payload] # i

\* The second row is the first one, or has another revision.
Newer(old, new) ==
  /\ old.revision <= new.revision
  /\ old.revision = new.revision => Content(old) = Content(new)

Committed == [row EXCEPT ![editor.id] = editor.new]

EditorFits ==
  editor # Idle =>
    /\ RowFits(editor.id, editor.new) /\ Newer(row[editor.id], editor.new)
    /\ Alone(Committed) /\ Quiet(Committed)
    /\ editor.window # "none" =>
         window[editor.window].id = editor.id /\ Content(window[editor.window].row) = Content(row[editor.id])

WindowsFit ==
  \A w \in Windows : window[w] # Blank => Newer(window[w].row, row[window[w].id])

PreviewsFit ==
  \A k \in 1..Len(preview) :
    LET p == preview[k].plan IN
    /\ preview[k].revision <= row[p].revision
    /\ preview[k].revision = row[p].revision => row[p].status = "live" /\ row[p].payload = preview[k].payload
    /\ preview[k].state = "kept" => \A n \in 1..Len(jobs) : jobs[n].key # k

KeysFit == \A n \in 1..Len(jobs) : jobs[n].key <= Len(preview)

MInv ==
  /\ Typed /\ EditorFits /\ WindowsFit /\ PreviewsFit /\ KeysFit
  /\ Alone(row) /\ Quiet(row)

USE MaintenanceAssumption

(* "none" is the name of nothing. *)
LEMMA Names ==
  /\ \A i \in Scopes : i # "none"
  /\ \A i \in Plans : i \in Scopes /\ i \notin Datasets
  /\ \A i \in Datasets : i \in Scopes /\ i \notin Plans
  /\ \A p \in Payloads : DatasetOf[p] = "none" \/ DatasetOf[p] \in Datasets
  /\ \A w \in Windows : w # "none"
BY DEF Scopes

LEMMA MStarts == Init => MInv
<1> SUFFICES ASSUME Init PROVE MInv OBVIOUS
<1>1. PICK s \in Settings :
        row = [i \in Scopes |-> [status |-> IF i \in Datasets THEN "live" ELSE "absent", enabled |-> FALSE,
                                 payload |-> "none", setting |-> s, last |-> 0,
                                 revision |-> IF i \in Datasets THEN 1 ELSE 0]]
  BY DEF Init
<1>2. \A i \in Scopes : RowFits(i, row[i]) /\ ~row[i].enabled /\ row[i].status # "deleted"
  <2> SUFFICES ASSUME NEW i \in Scopes PROVE RowFits(i, row[i]) /\ ~row[i].enabled /\ row[i].status # "deleted" OBVIOUS
  <2>1. row[i] = [status |-> IF i \in Datasets THEN "live" ELSE "absent", enabled |-> FALSE,
                  payload |-> "none", setting |-> s, last |-> 0, revision |-> IF i \in Datasets THEN 1 ELSE 0]
    BY <1>1
  <2>2. row[i] \in RowT BY <2>1 DEF RowT
  <2> QED BY <2>1, <2>2, Names DEF RowFits
<1>3. Typed
  <2>1. jobs = <<>> /\ preview = <<>> /\ editor = Idle /\ copy = Blank /\ window = [w \in Windows |-> Blank]
    BY DEF Init
  <2>2. row = [i \in Scopes |-> row[i]] BY <1>1
  <2> QED BY <1>2, <2>1, <2>2 DEF Typed
<1>4. EditorFits /\ WindowsFit /\ PreviewsFit /\ KeysFit
  BY DEF Init, EditorFits, WindowsFit, PreviewsFit, KeysFit
<1>5. Alone(row) /\ Quiet(row)
  BY <1>2, Names DEF Alone, Quiet
<1> QED BY <1>3, <1>4, <1>5 DEF MInv

(* Of an edit the revision says whether it changes the configuration. *)
LEMMA BumpedNewer ==
  ASSUME NEW old \in RowT, NEW new \in RowT, new.revision = old.revision
  PROVE  Bumped(old, new) \in RowT /\ Newer(old, Bumped(old, new))
         /\ Bumped(old, new).status = new.status /\ Bumped(old, new).enabled = new.enabled
         /\ Bumped(old, new).payload = new.payload
<1>1. CASE Content(new) = Content(old)
  <2>1. Bumped(old, new) = [new EXCEPT !.revision = old.revision] BY <1>1 DEF Bumped, RowT
  <2>2. Bumped(old, new) = new BY <2>1 DEF RowT
  <2> QED BY <1>1, <2>2 DEF Newer, RowT
<1>2. CASE Content(new) # Content(old)
  <2>1. Bumped(old, new) = [new EXCEPT !.revision = old.revision + 1] BY <1>2 DEF Bumped
  <2> QED BY <2>1 DEF Newer, RowT
<1> QED BY <1>1, <1>2

(* Whoever saw a row before it is replaced by a newer one saw one that is older still. *)
LEMMA NewerThanSeen ==
  ASSUME NEW seen \in RowT, NEW old \in RowT, NEW new \in RowT, Newer(seen, old), Newer(old, new)
  PROVE  Newer(seen, new)
BY DEF Newer, RowT

(***************************************************************************)
(* What the tests of an edit establish of the rows as they will be.        *)
(***************************************************************************)
LEMMA PlanAlone ==
  ASSUME MInv, NEW p \in Plans, NEW new \in RowT,
         new.enabled => new.payload \in Payloads /\ NoConflict(p, new.payload)
  PROVE  Alone([row EXCEPT ![p] = new])
<1> DEFINE T == [row EXCEPT ![p] = new]
<1>1. \A i \in Scopes : T[i] = IF i = p THEN new ELSE row[i] BY Names DEF MInv, Typed
<1>3. ASSUME NEW q \in Plans, T[q].enabled, DatasetOf[T[q].payload] # "none" PROVE ~T[DatasetOf[T[q].payload]].enabled
  <2>1. CASE q = p
    <3>1. T[q] = new BY <1>1, <2>1, Names
    <3>2. DatasetOf[new.payload] \in Datasets BY <1>3, <3>1, Names
    <3>3. ~row[DatasetOf[new.payload]].enabled BY <1>3, <3>1 DEF NoConflict
    <3> QED BY <1>1, <2>1, <3>1, <3>2, <3>3, Names
  <2>2. CASE q # p
    <3>1. T[q] = row[q] /\ row[q].payload \in Payloads BY <1>1, <1>3, <2>2, Names DEF MInv, Typed, RowFits
    <3>2. DatasetOf[row[q].payload] \in Datasets BY <1>3, <3>1, Names
    <3> QED BY <1>1, <1>3, <3>1, <3>2, Names DEF MInv, Alone
  <2> QED BY <2>1, <2>2
<1>4. ASSUME NEW q \in Plans, T[q].enabled, NEW q2 \in Plans \ {q} PROVE ~(T[q2].enabled /\ T[q2].payload = T[q].payload)
  BY <1>1, <1>4, Names DEF NoConflict, MInv, Alone
<1> QED BY <1>3, <1>4 DEF Alone

LEMMA DatasetAlone ==
  ASSUME MInv, NEW d \in Datasets, NEW new \in RowT, new.enabled => EnabledPlans(d) = {}
  PROVE  Alone([row EXCEPT ![d] = new])
<1> DEFINE T == [row EXCEPT ![d] = new]
<1>1. \A i \in Scopes : T[i] = IF i = d THEN new ELSE row[i] BY Names DEF MInv, Typed
<1>2. ASSUME NEW q \in Plans, T[q].enabled
      PROVE  /\ DatasetOf[T[q].payload] # "none" => ~T[DatasetOf[T[q].payload]].enabled
             /\ \A q2 \in Plans \ {q} : ~(T[q2].enabled /\ T[q2].payload = T[q].payload)
  <2>1. T[q] = row[q] /\ row[q].payload \in Payloads BY <1>1, <1>2, Names DEF MInv, Typed, RowFits
  <2>2. ASSUME DatasetOf[row[q].payload] # "none" PROVE ~T[DatasetOf[row[q].payload]].enabled
    <3>1. DatasetOf[row[q].payload] \in Datasets BY <2>1, <2>2, Names
    <3>2. ~row[DatasetOf[row[q].payload]].enabled BY <1>2, <2>1, <2>2 DEF MInv, Alone
    <3> QED BY <1>1, <1>2, <2>1, <3>1, <3>2, Names DEF EnabledPlans
  <2>3. \A q2 \in Plans \ {q} : ~(T[q2].enabled /\ T[q2].payload = T[q].payload)
    BY <1>1, <1>2, <2>1, Names DEF MInv, Alone
  <2> QED BY <2>1, <2>2, <2>3
<1> QED BY <1>2 DEF Alone

LEMMA EditQuiet ==
  ASSUME MInv, NEW i \in Scopes, NEW new \in RowT,
         new.status = "deleted" =>
           /\ ~new.enabled /\ Linked(i) = {}
           /\ \A p \in Plans : row[p].status = "live" => DatasetOf[row[p].payload] # i,
         i \in Plans /\ new.status = "live" => new.payload \in Payloads /\ ScopeFound(new.payload)
  PROVE  Quiet([row EXCEPT ![i] = new])
<1> DEFINE T == [row EXCEPT ![i] = new]
<1>1. \A j \in Scopes : T[j] = IF j = i THEN new ELSE row[j] BY DEF MInv, Typed
<1>2. ASSUME NEW j \in Scopes, T[j].status = "deleted" PROVE ~T[j].enabled /\ Linked(j) = {}
  BY <1>1, <1>2 DEF MInv, Quiet
<1>3. ASSUME NEW j \in Scopes, T[j].status = "deleted", NEW p \in Plans, T[p].status = "live"
      PROVE  DatasetOf[T[p].payload] # j
  <2>1. CASE p = i
    <3>1. DatasetOf[new.payload] # i BY <1>1, <1>3, <2>1, Names
    <3>2. j # i BY <1>1, <1>3, <2>1, Names
    <3> QED BY <1>1, <1>3, <2>1, <3>1, <3>2, Names DEF ScopeFound
  <2>2. CASE p # i
    BY <1>1, <1>3, <2>2, Names DEF MInv, Quiet
  <2> QED BY <2>1, <2>2
<1> QED BY <1>2, <1>3 DEF Quiet

(***************************************************************************)
(* The steps.                                                              *)
(***************************************************************************)
(* An edit may begin when its row is newer and what it makes of the table is consistent. *)
LEMMA BeginKeeps ==
  ASSUME MInv, NEW i \in Scopes, NEW w \in Windows \union {"none"}, NEW new,
         Begin(i, w, new), RowFits(i, new), Newer(row[i], new),
         Alone([row EXCEPT ![i] = new]), Quiet([row EXCEPT ![i] = new]),
         w # "none" => Current(w, i)
  PROVE  MInv'
<1>1. editor' = [id |-> i, window |-> w, new |-> new] /\ UNCHANGED <<row, account, window, copy, preview, jobs>>
  BY DEF Begin
<1>2. Typed'
  BY <1>1 DEF MInv, Typed, RowFits
<1>3. (WindowsFit /\ PreviewsFit /\ KeysFit)' BY <1>1 DEF MInv, WindowsFit, PreviewsFit, KeysFit
<1>4. Alone(row)' BY <1>1 DEF MInv, Alone
<1>5. Quiet(row)' BY <1>1 DEF MInv, Quiet, Linked
<1>6. EditorFits'
  <2>1. Committed' = [row EXCEPT ![i] = new] BY <1>1 DEF Committed
  <2>2. Alone(Committed)' BY <2>1 DEF Alone
  <2>3. Quiet(Committed)' BY <2>1, <1>1 DEF Quiet, Linked
  <2>4. ASSUME w # "none" PROVE window[w].id = i /\ Content(window[w].row) = Content(row[i])
    <3>1. window[w].id = i /\ window[w].row.revision = row[i].revision BY <2>4 DEF Current
    <3>2. window[w] # Blank BY <3>1, Names DEF Blank
    <3>3. Newer(window[w].row, row[i]) BY <2>4, <3>1, <3>2 DEF MInv, WindowsFit
    <3> QED BY <3>1, <3>3 DEF Newer
  <2>5. (editor.id = i /\ editor.window = w /\ editor.new = new)' BY <1>1
  <2>6. (window = window' /\ row = row') BY <1>1
  <2>7. (RowFits(editor.id, editor.new))' BY <2>5 DEF RowFits
  <2>8. (Newer(row[editor.id], editor.new))' BY <2>5, <2>6 DEF Newer
  <2>9. (editor.window # "none" =>
           window[editor.window].id = editor.id /\ Content(window[editor.window].row) = Content(row[editor.id]))'
    BY <2>4, <2>5, <2>6 DEF Content
  <2> QED BY <2>2, <2>3, <2>7, <2>8, <2>9 DEF EditorFits
<1> QED BY <1>2, <1>3, <1>4, <1>5, <1>6 DEF MInv

(* The revision and the cursor are not part of the configuration; the scope is. *)
LEMMA SameContent ==
  ASSUME NEW a \in RowT, NEW b \in RowT, Content(a) = Content(b)
  PROVE  a.status = b.status /\ a.enabled = b.enabled /\ a.payload = b.payload
<1>1. /\ Content(a).status = a.status /\ Content(a).enabled = a.enabled /\ Content(a).payload = a.payload
      /\ Content(b).status = b.status /\ Content(b).enabled = b.enabled /\ Content(b).payload = b.payload
  BY DEF Content, RowT
<1> QED BY <1>1

LEMMA CreatePlanKeeps ==
  ASSUME MInv, NEW p \in Plans, NEW payload \in Payloads, NEW setting \in Settings, NEW enabled \in BOOLEAN,
         NEW console \in BOOLEAN, CreatePlan(p, payload, setting, enabled, console)
  PROVE  MInv'
<1> DEFINE new == [status |-> "live", enabled |-> enabled, payload |-> payload, setting |-> setting,
                   last |-> 0, revision |-> 1]
<1>1. new \in RowT BY DEF RowT
<1>2. RowFits(p, new) BY <1>1, Names DEF RowFits
<1>3. row[p].status = "absent" /\ row[p].revision = 0 BY Names DEF CreatePlan, MInv, Typed, RowFits
<1>4. Newer(row[p], new) BY <1>3 DEF Newer
<1>5. enabled => NoConflict(p, payload) BY DEF CreatePlan
<1>6. ScopeFound(payload) BY <1>5 DEF CreatePlan, NoConflict, ScopeFound
<1>7. Alone([row EXCEPT ![p] = new]) BY <1>1, <1>5, PlanAlone
<1>8. Quiet([row EXCEPT ![p] = new]) BY <1>1, <1>6, Names, EditQuiet
<1>9. Begin(p, "none", new) BY DEF CreatePlan
<1> HIDE DEF new
<1> QED BY <1>2, <1>4, <1>7, <1>8, <1>9, Names, BeginKeeps

(* What every edit of a row that exists has in common. *)
LEMMA EditKeeps ==
  ASSUME MInv, NEW i \in Scopes, NEW w \in Windows \union {"none"}, NEW new \in RowT,
         Begin(i, w, Bumped(row[i], new)), new.revision = row[i].revision,
         new.status # "absent", i \in Plans => new.payload \in Payloads,
         new.enabled => IF i \in Plans THEN NoConflict(i, new.payload) ELSE EnabledPlans(i) = {},
         new.status = "deleted" =>
           /\ ~new.enabled /\ Linked(i) = {}
           /\ \A p \in Plans : row[p].status = "live" => DatasetOf[row[p].payload] # i,
         i \in Plans /\ new.status = "live" => ScopeFound(new.payload),
         w # "none" => Current(w, i)
  PROVE  MInv'
<1> DEFINE bumped == Bumped(row[i], new)
<1>1. row[i] \in RowT BY DEF MInv, Typed, RowFits
<1>2. /\ bumped \in RowT /\ Newer(row[i], bumped)
      /\ bumped.status = new.status /\ bumped.enabled = new.enabled /\ bumped.payload = new.payload
  BY <1>1, BumpedNewer
<1> HIDE DEF bumped
<1>3. RowFits(i, bumped) BY <1>2 DEF RowFits
<1>4. Alone([row EXCEPT ![i] = bumped])
  <2>1. CASE i \in Plans BY <1>2, <2>1, PlanAlone
  <2>2. CASE i \notin Plans BY <1>2, <2>2, DatasetAlone DEF Scopes
  <2> QED BY <2>1, <2>2
<1>5. Quiet([row EXCEPT ![i] = bumped]) BY <1>2, EditQuiet
<1>6. Begin(i, w, bumped) BY DEF bumped
<1> QED BY <1>2, <1>3, <1>4, <1>5, <1>6, BeginKeeps

(* A plan or dataset that is not recycled: what its row says of it. *)
LEMMA LiveRow ==
  ASSUME MInv, NEW i \in Scopes
  PROVE  /\ row[i] \in RowT
         /\ i \in Plans /\ row[i].status # "absent" => row[i].payload \in Payloads
         /\ i \in Plans /\ row[i].status = "live" => ScopeFound(row[i].payload)
<1>1. row[i] \in RowT /\ (i \in Plans /\ row[i].status # "absent" => row[i].payload \in Payloads) BY DEF MInv, Typed, RowFits
<1>2. ASSUME i \in Plans, row[i].status = "live" PROVE ScopeFound(row[i].payload)
  BY <1>1, <1>2, Names DEF ScopeFound, MInv, Quiet
<1> QED BY <1>1, <1>2

LEMMA SavePlanKeeps ==
  ASSUME MInv, NEW w \in Windows, NEW p \in Plans, NEW payload \in Payloads, NEW setting \in Settings,
         NEW enabled \in BOOLEAN, SavePlan(w, p, payload, setting, enabled)
  PROVE  MInv'
<1> DEFINE new == [row[p] EXCEPT !.payload = payload, !.setting = setting, !.enabled = enabled,
                                 !.last = IF payload = row[p].payload THEN @ ELSE 0]
<1>1. row[p] \in RowT /\ row[p].status = "live" BY LiveRow, Names DEF SavePlan
<1>2. new \in RowT BY <1>1 DEF RowT
<1>3. /\ new.revision = row[p].revision /\ new.status = "live"
      /\ new.payload = payload /\ new.enabled = enabled
  BY <1>1 DEF RowT
<1>4. Begin(p, w, Bumped(row[p], new)) /\ Current(w, p) BY DEF SavePlan
<1>5. enabled => NoConflict(p, payload) BY DEF SavePlan
<1>6. ScopeFound(payload) BY <1>1, LiveRow, Names DEF SavePlan
<1> HIDE DEF new
<1> QED BY <1>2, <1>3, <1>4, <1>5, <1>6, Names, EditKeeps

LEMMA UpdatePlanKeeps ==
  ASSUME MInv, NEW p \in Plans, NEW setting \in Settings, NEW enabled \in BOOLEAN, UpdatePlan(p, setting, enabled)
  PROVE  MInv'
<1> DEFINE new == [row[p] EXCEPT !.setting = setting, !.enabled = enabled]
<1>1. row[p] \in RowT /\ row[p].status = "live" /\ row[p].payload \in Payloads /\ ScopeFound(row[p].payload)
  BY LiveRow, Names DEF UpdatePlan
<1>2. new \in RowT BY <1>1 DEF RowT
<1>3. /\ new.revision = row[p].revision /\ new.status = "live"
      /\ new.payload = row[p].payload /\ new.enabled = enabled
  BY <1>1 DEF RowT
<1>4. Begin(p, "none", Bumped(row[p], new)) /\ (enabled => NoConflict(p, row[p].payload)) BY DEF UpdatePlan
<1> HIDE DEF new
<1> QED BY <1>1, <1>2, <1>3, <1>4, Names, EditKeeps

LEMMA EditDatasetKeeps ==
  ASSUME MInv, NEW w \in Windows, NEW d \in Datasets, NEW setting \in Settings, NEW enabled \in BOOLEAN,
         EditDataset(w, d, setting, enabled)
  PROVE  MInv'
<1> DEFINE new == [row[d] EXCEPT !.setting = setting, !.enabled = enabled]
<1>1. row[d] \in RowT /\ row[d].status = "live" BY LiveRow, Names DEF EditDataset
<1>2. new \in RowT BY <1>1 DEF RowT
<1>3. new.revision = row[d].revision /\ new.status = "live" /\ new.enabled = enabled BY <1>1 DEF RowT
<1>4. Begin(d, w, Bumped(row[d], new)) /\ Current(w, d) /\ (enabled => EnabledPlans(d) = {}) BY DEF EditDataset
<1> HIDE DEF new
<1> QED BY <1>2, <1>3, <1>4, Names, EditKeeps

LEMMA SetDatasetScheduleKeeps ==
  ASSUME MInv, NEW d \in Datasets, NEW enabled \in BOOLEAN, SetDatasetSchedule(d, enabled)
  PROVE  MInv'
<1> DEFINE new == [row[d] EXCEPT !.enabled = enabled]
<1>1. row[d] \in RowT /\ row[d].status = "live" BY LiveRow, Names DEF SetDatasetSchedule
<1>2. new \in RowT BY <1>1 DEF RowT
<1>3. new.revision = row[d].revision /\ new.status = "live" /\ new.enabled = enabled BY <1>1 DEF RowT
<1>4. Begin(d, "none", Bumped(row[d], new)) /\ (enabled => EnabledPlans(d) = {}) BY DEF SetDatasetSchedule
<1> HIDE DEF new
<1> QED BY <1>2, <1>3, <1>4, Names, EditKeeps

LEMMA RecycleKeeps ==
  ASSUME MInv, NEW w \in Windows, NEW i \in Scopes, Recycle(w, i)
  PROVE  MInv'
<1> DEFINE new == [row[i] EXCEPT !.status = "deleted", !.enabled = FALSE]
<1>1. row[i] \in RowT /\ (i \in Plans => row[i].payload \in Payloads) BY LiveRow DEF Recycle
<1>2. new \in RowT BY <1>1 DEF RowT
<1>3. new.revision = row[i].revision /\ new.status = "deleted" /\ ~new.enabled /\ new.payload = row[i].payload
  BY <1>1 DEF RowT
<1>4. /\ Begin(i, w, Bumped(row[i], new)) /\ Current(w, i) /\ Linked(i) = {}
      /\ \A p \in Plans : row[p].status = "live" => DatasetOf[row[p].payload] # i
  BY DEF Recycle
<1> HIDE DEF new
<1> QED BY <1>1, <1>2, <1>3, <1>4, EditKeeps

LEMMA RestoreKeeps ==
  ASSUME MInv, NEW w \in Windows, NEW i \in Scopes, Restore(w, i)
  PROVE  MInv'
<1> DEFINE new == [row[i] EXCEPT !.status = "live", !.enabled = FALSE]
<1>1. row[i] \in RowT /\ (i \in Plans => row[i].payload \in Payloads) BY LiveRow DEF Restore
<1>2. new \in RowT BY <1>1 DEF RowT
<1>3. new.revision = row[i].revision /\ new.status = "live" /\ ~new.enabled /\ new.payload = row[i].payload
  BY <1>1 DEF RowT
<1>4. /\ Begin(i, w, Bumped(row[i], new)) /\ Current(w, i)
      /\ i \in Plans => ScopeFound(row[i].payload)
  BY DEF Restore
<1> HIDE DEF new
<1> QED BY <1>1, <1>2, <1>3, <1>4, EditKeeps

LEMMA RollbackKeeps == ASSUME MInv, Rollback PROVE MInv'
<1>1. editor' = Idle /\ UNCHANGED <<row, account, edits, window, copy, preview, jobs>> BY DEF Rollback
<1>2. Typed' BY <1>1 DEF MInv, Typed, RowFits
<1>3. (EditorFits /\ WindowsFit /\ PreviewsFit /\ KeysFit)' BY <1>1 DEF MInv, EditorFits, WindowsFit, PreviewsFit, KeysFit
<1>4. Alone(row)' BY <1>1 DEF MInv, Alone
<1>5. Quiet(row)' BY <1>1 DEF MInv, Quiet, Linked
<1> QED BY <1>2, <1>3, <1>4, <1>5 DEF MInv

LEMMA CommitKeeps == ASSUME MInv, Commit PROVE MInv'
<1>1. /\ editor # Idle /\ row' = Committed /\ editor' = Idle
      /\ UNCHANGED <<account, edits, window, copy, preview, jobs>>
  BY DEF Commit, Committed
<1>2. editor.id \in Scopes /\ RowFits(editor.id, editor.new) /\ Newer(row[editor.id], editor.new)
  BY <1>1 DEF MInv, Typed, EditorFits
<1>3. \A i \in Scopes : row'[i] = IF i = editor.id THEN editor.new ELSE row[i]
  BY <1>1 DEF MInv, Typed, Committed
<1>4. \A i \in Scopes : RowFits(i, row'[i]) BY <1>2, <1>3 DEF MInv, Typed
<1>5. row' = [i \in Scopes |-> row'[i]] BY <1>1 DEF MInv, Typed, Committed
<1>6. \A i \in Scopes : row[i] \in RowT /\ row'[i] \in RowT /\ Newer(row[i], row'[i])
  <2> SUFFICES ASSUME NEW i \in Scopes PROVE row[i] \in RowT /\ row'[i] \in RowT /\ Newer(row[i], row'[i]) OBVIOUS
  <2>1. row[i] \in RowT /\ row'[i] \in RowT BY <1>4 DEF MInv, Typed, RowFits
  <2>2. Newer(row[i], row[i]) BY <2>1 DEF Newer, RowT
  <2>3. CASE i = editor.id
    <3>1. row'[i] = editor.new BY <1>3, <2>3
    <3> QED BY <1>2, <2>1, <2>3, <3>1
  <2>4. CASE i # editor.id
    <3>1. row'[i] = row[i] BY <1>3, <2>4
    <3> QED BY <2>1, <2>2, <3>1
  <2> QED BY <2>3, <2>4
<1>7. Typed' BY <1>1, <1>4, <1>5 DEF MInv, Typed, RowFits
<1>8. EditorFits' BY <1>1 DEF EditorFits
<1>9. WindowsFit'
  <2> SUFFICES ASSUME NEW w \in Windows, window[w] # Blank PROVE Newer(window[w].row, row'[window[w].id])
    BY <1>1 DEF WindowsFit, Newer
  <2>1. window[w].id \in Scopes /\ window[w].row \in RowT BY DEF MInv, Typed
  <2>2. Newer(window[w].row, row[window[w].id]) BY DEF MInv, WindowsFit
  <2> QED BY <1>6, <2>1, <2>2, NewerThanSeen
<1>10. PreviewsFit'
  <2> SUFFICES ASSUME NEW k \in 1..Len(preview)
               PROVE  LET p == preview[k].plan IN
                      /\ preview[k].revision <= row'[p].revision
                      /\ preview[k].revision = row'[p].revision =>
                           row'[p].status = "live" /\ row'[p].payload = preview[k].payload
                      /\ preview[k].state = "kept" => \A n \in 1..Len(jobs) : jobs[n].key # k
    BY <1>1 DEF PreviewsFit
  <2>1. preview[k] \in PreviewT BY DEF MInv, Typed
  <2>2. preview[k].plan \in Scopes /\ preview[k].revision \in Nat BY <2>1, Names DEF PreviewT
  <2>3. Newer(row[preview[k].plan], row'[preview[k].plan]) /\ row[preview[k].plan] \in RowT /\ row'[preview[k].plan] \in RowT
    BY <1>6, <2>2
  <2>4. /\ preview[k].revision <= row[preview[k].plan].revision
        /\ preview[k].revision = row[preview[k].plan].revision =>
             row[preview[k].plan].status = "live" /\ row[preview[k].plan].payload = preview[k].payload
        /\ preview[k].state = "kept" => \A n \in 1..Len(jobs) : jobs[n].key # k
    BY DEF MInv, PreviewsFit
  <2> DEFINE p == preview[k].plan
  <2>5. row[p].revision \in Nat /\ row'[p].revision \in Nat BY <2>3 DEF RowT
  <2>6. preview[k].revision <= row'[p].revision BY <2>2, <2>3, <2>4, <2>5 DEF Newer
  <2>7. ASSUME preview[k].revision = row'[p].revision
        PROVE  row'[p].status = "live" /\ row'[p].payload = preview[k].payload
    <3>1. row[p].revision = row'[p].revision /\ preview[k].revision = row[p].revision
      BY <2>2, <2>3, <2>4, <2>5, <2>7 DEF Newer
    <3>2. row'[p].status = row[p].status /\ row'[p].payload = row[p].payload
      BY <2>3, <3>1, SameContent DEF Newer
    <3> QED BY <2>4, <3>1, <3>2
  <2> QED BY <2>4, <2>6, <2>7
<1>11. KeysFit' BY <1>1 DEF MInv, KeysFit
<1>12. Alone(row)' BY <1>1 DEF MInv, EditorFits, Alone
<1>13. Quiet(row)' BY <1>1 DEF MInv, EditorFits, Quiet, Linked
<1> QED BY <1>7, <1>8, <1>9, <1>10, <1>11, <1>12, <1>13 DEF MInv

(***************************************************************************)
(* A job for a row that nobody edits and that is not deleted leaves the    *)
(* table quiet, as it is and as the edit in progress makes it.             *)
(***************************************************************************)
LEMMA JobsKeep ==
  ASSUME MInv, UNCHANGED <<row, editor>>,
         \A i \in Scopes : Linked(i) = {} => Linked(i)' = {} \/ (~Locked(i) /\ row[i].status # "deleted")
  PROVE  /\ (Alone(row) /\ Quiet(row))'
         /\ (editor # Idle => Alone(Committed) /\ Quiet(Committed))'
<1>1. Alone(row)' BY DEF MInv, Alone
<1>2. Quiet(row)' BY DEF MInv, Quiet
<1>3. ASSUME editor # Idle PROVE (Alone(Committed) /\ Quiet(Committed))'
  <2>1. editor.id \in Scopes /\ Alone(Committed) /\ Quiet(Committed) BY <1>3 DEF MInv, Typed, EditorFits
  <2>2. Committed' = Committed BY DEF Committed
  <2>3. \A i \in Scopes : ~Locked(i) => Committed[i] = row[i] BY DEF MInv, Typed, Committed, Locked
  <2>4. Alone(Committed)' BY <2>1, <2>2 DEF Alone
  <2>5. \A i \in Scopes : Committed[i].status = "deleted" => Linked(i)' = {} BY <2>1, <2>3 DEF Quiet
  <2>6. Quiet(Committed)' BY <2>1, <2>2, <2>5 DEF Quiet
  <2> QED BY <2>4, <2>6
<1> QED BY <1>1, <1>2, <1>3

(* What a queued job does to the jobs of every scope. *)
LEMMA Queueing ==
  ASSUME MInv, NEW job \in JobT, Queue(job)
  PROVE  /\ jobs' \in Seq(JobT) /\ Len(jobs') = Len(jobs) + 1 /\ jobs'[Len(jobs) + 1] = job
         /\ \A n \in 1..Len(jobs) : jobs'[n] = jobs[n]
         /\ \A i \in Scopes : Linked(i) = {} => Linked(i)' = {} \/ (~Locked(i) /\ row[i].status # "deleted")
<1>1. jobs \in Seq(JobT) /\ jobs' = Append(jobs, job) BY DEF MInv, Typed, Queue
<1>2. /\ jobs' \in Seq(JobT) /\ Len(jobs') = Len(jobs) + 1 /\ jobs'[Len(jobs) + 1] = job
      /\ \A n \in 1..Len(jobs) : jobs'[n] = jobs[n]
  BY <1>1
<1>3. DOMAIN jobs' = 1..Len(jobs) + 1 /\ DOMAIN jobs = 1..Len(jobs) /\ Len(jobs) \in Nat BY <1>1, <1>2
<1>4. ASSUME NEW i \in Scopes, Linked(i) = {}, Linked(i)' # {} PROVE ~Locked(i) /\ row[i].status # "deleted"
  <2>1. PICK n \in DOMAIN jobs' : jobs'[n].active /\ i \in {jobs'[n].plan, jobs'[n].dataset} BY <1>4 DEF Linked
  <2>2. CASE n \in 1..Len(jobs) BY <1>2, <1>3, <1>4, <2>1, <2>2 DEF Linked
  <2>3. CASE n = Len(jobs) + 1 BY <1>2, <1>4, <2>1, <2>3, Names DEF Queue, Guarded
  <2> QED BY <1>3, <2>1, <2>2, <2>3
<1> QED BY <1>2, <1>4

LEMMA UserQueuesKeeps == ASSUME MInv, NEW d \in Datasets, UserQueues(d) PROVE MInv'
<1> DEFINE job == [by |-> "user", plan |-> "none", dataset |-> d, payload |-> "none", end |-> 0, key |-> 0, active |-> TRUE]
<1>1. Queue(job) /\ UNCHANGED <<row, account, editor, edits, window, copy, preview>> BY DEF UserQueues
<1>2. job \in JobT /\ job.key = 0 BY DEF JobT
<1> HIDE DEF job
<1>3. /\ jobs' \in Seq(JobT) /\ Len(jobs') = Len(jobs) + 1 /\ jobs'[Len(jobs) + 1] = job
      /\ \A n \in 1..Len(jobs) : jobs'[n] = jobs[n]
      /\ \A i \in Scopes : Linked(i) = {} => Linked(i)' = {} \/ (~Locked(i) /\ row[i].status # "deleted")
  BY <1>1, <1>2, Queueing
<1>4. Typed' BY <1>1, <1>3 DEF MInv, Typed, RowFits
<1>5. Len(jobs) \in Nat /\ Len(preview) \in Nat BY DEF MInv, Typed
<1>6. (PreviewsFit /\ KeysFit)' BY <1>1, <1>2, <1>3, <1>5 DEF MInv, PreviewsFit, KeysFit
<1>7. WindowsFit' BY <1>1 DEF MInv, WindowsFit
<1>8. (Alone(row) /\ Quiet(row))' /\ (editor # Idle => Alone(Committed) /\ Quiet(Committed))' BY <1>1, <1>3, JobsKeep
<1>9. EditorFits' BY <1>1, <1>8 DEF MInv, EditorFits
<1> QED BY <1>4, <1>6, <1>7, <1>8, <1>9 DEF MInv

LEMMA RunKeeps == ASSUME MInv, NEW k \in DOMAIN preview, Run(k) PROVE MInv'
<1> DEFINE job == [by |-> "preview", plan |-> preview[k].plan, dataset |-> DatasetOf[preview[k].payload],
                   payload |-> preview[k].payload, end |-> 0, key |-> k, active |-> TRUE]
<1>1. /\ Queue(job) /\ preview' = [preview EXCEPT ![k].state = "done"]
      /\ UNCHANGED <<row, account, editor, edits, window, copy>>
  BY DEF Run
<1>2. preview \in Seq(PreviewT) /\ preview[k] \in PreviewT /\ k \in 1..Len(preview) BY DEF MInv, Typed
<1>3. job \in JobT /\ job.key = k BY <1>2 DEF JobT, PreviewT
<1> HIDE DEF job
<1>4. /\ jobs' \in Seq(JobT) /\ Len(jobs') = Len(jobs) + 1 /\ jobs'[Len(jobs) + 1] = job
      /\ \A n \in 1..Len(jobs) : jobs'[n] = jobs[n]
      /\ \A i \in Scopes : Linked(i) = {} => Linked(i)' = {} \/ (~Locked(i) /\ row[i].status # "deleted")
  BY <1>1, <1>3, Queueing
<1>5. /\ preview' \in Seq(PreviewT) /\ Len(preview') = Len(preview)
      /\ \A m \in 1..Len(preview) :
           preview'[m] = IF m = k THEN [preview[m] EXCEPT !.state = "done"] ELSE preview[m]
  <2>1. Len(preview) \in Nat /\ preview = [m \in 1..Len(preview) |-> preview[m]] BY <1>2
  <2>2. preview' = [m \in 1..Len(preview) |-> IF m = k THEN [preview[m] EXCEPT !.state = "done"] ELSE preview[m]]
    BY <1>1, <1>2, <2>1
  <2>3. ASSUME NEW m \in 1..Len(preview) PROVE preview[m] \in PreviewT /\ [preview[m] EXCEPT !.state = "done"] \in PreviewT
    <3>1. preview[m] \in PreviewT BY <1>2
    <3> QED BY <3>1 DEF PreviewT
  <2>4. \A m \in 1..Len(preview) : preview'[m] \in PreviewT BY <2>2, <2>3
  <2>5. preview' \in [1..Len(preview) -> PreviewT] BY <2>2, <2>4
  <2>6. preview' \in Seq(PreviewT) BY <2>1, <2>5
  <2>7. Len(preview') = Len(preview) BY <2>1, <2>5, <2>6
  <2> QED BY <2>2, <2>6, <2>7
<1>6. Typed' BY <1>1, <1>4, <1>5 DEF MInv, Typed, RowFits
<1>7. Len(jobs) \in Nat /\ Len(preview) \in Nat BY DEF MInv, Typed
<1>8. PreviewsFit'
  <2> SUFFICES ASSUME NEW m \in 1..Len(preview)
               PROVE  LET p == preview'[m].plan IN
                      /\ preview'[m].revision <= row[p].revision
                      /\ preview'[m].revision = row[p].revision =>
                           row[p].status = "live" /\ row[p].payload = preview'[m].payload
                      /\ preview'[m].state = "kept" => \A n \in 1..Len(jobs') : jobs'[n].key # m
    BY <1>1, <1>5 DEF PreviewsFit
  <2>1. preview[m] \in PreviewT BY <1>2
  <2>2. /\ preview'[m].plan = preview[m].plan /\ preview'[m].revision = preview[m].revision
        /\ preview'[m].payload = preview[m].payload
        /\ preview'[m].state = "kept" => m # k /\ preview[m].state = "kept"
    BY <1>5, <2>1 DEF PreviewT
  <2> QED BY <1>3, <1>4, <1>7, <2>2 DEF MInv, PreviewsFit
<1>9. KeysFit' BY <1>2, <1>3, <1>4, <1>5, <1>7 DEF MInv, KeysFit
<1>10. WindowsFit' BY <1>1 DEF MInv, WindowsFit
<1>11. (Alone(row) /\ Quiet(row))' /\ (editor # Idle => Alone(Committed) /\ Quiet(Committed))' BY <1>1, <1>4, JobsKeep
<1>12. EditorFits' BY <1>1, <1>11 DEF MInv, EditorFits
<1> QED BY <1>6, <1>8, <1>9, <1>10, <1>11, <1>12 DEF MInv

(* The scheduler advances the cursor of a plan nobody edits: its configuration stays. *)
LEMMA EnqueueKeeps == ASSUME MInv, NEW end \in Ends, Enqueue(end) PROVE MInv'
<1> DEFINE i == copy.id
           job == ScheduledJob(i, copy.row, end)
<1>1. /\ i # "none" /\ ~Locked(i) /\ StillWanted(i, copy.row)
      /\ row' = IF i \in Plans /\ row[i].last < end THEN [row EXCEPT ![i].last = end] ELSE row
      /\ UNCHANGED <<account, editor, edits, window, copy, preview>>
  BY DEF Enqueue
<1>2. i \in Scopes /\ copy.row \in RowT BY <1>1 DEF MInv, Typed, Blank
<1>3. end \in Nat BY DEF MaintenanceAssumption
<1>4. row[i].enabled /\ row[i].payload = copy.row.payload BY <1>1 DEF StillWanted
<1>5. job \in JobT /\ job.key = 0
  <2>1. i \in Plans => copy.row.payload \in Payloads BY <1>2, <1>4, Names DEF MInv, Typed, RowFits
  <2>2. copy.row.payload \in Payloads \union {"none"} BY <1>2 DEF RowT
  <2>3. CASE i \in Plans BY <1>3, <2>1, <2>3, Names DEF ScheduledJob, JobT
  <2>4. CASE i \notin Plans BY <1>2, <1>3, <2>2, <2>4, Names DEF ScheduledJob, JobT, Scopes
  <2> QED BY <2>3, <2>4
<1>6. \/ Queue(job)
      \/ UNCHANGED jobs
  BY DEF Enqueue
<1> HIDE DEF job
<1>7. /\ jobs' \in Seq(JobT) /\ Len(jobs) \in Nat
      /\ \A n \in 1..Len(jobs') : jobs'[n].key = 0 \/ (n \in 1..Len(jobs) /\ jobs'[n] = jobs[n])
      /\ \A x \in Scopes : Linked(x) = {} => Linked(x)' = {} \/ (~Locked(x) /\ row[x].status # "deleted")
  <2>1. Len(jobs) \in Nat BY DEF MInv, Typed
  <2>2. CASE Queue(job) BY <1>5, <2>1, <2>2, Queueing
  <2>3. CASE UNCHANGED jobs BY <2>1, <2>3 DEF MInv, Typed, Linked
  <2> QED BY <1>6, <2>2, <2>3
<1>8. \A x \in Scopes :
        /\ RowFits(x, row'[x]) /\ Content(row'[x]) = Content(row[x]) /\ row'[x].revision = row[x].revision
        /\ row'[x].status = row[x].status /\ row'[x].enabled = row[x].enabled /\ row'[x].payload = row[x].payload
        /\ Locked(x) => row'[x] = row[x]
  <2> SUFFICES ASSUME NEW x \in Scopes
               PROVE  /\ RowFits(x, row'[x]) /\ Content(row'[x]) = Content(row[x])
                      /\ row'[x].revision = row[x].revision
                      /\ row'[x].status = row[x].status /\ row'[x].enabled = row[x].enabled
                      /\ row'[x].payload = row[x].payload
                      /\ Locked(x) => row'[x] = row[x]
    OBVIOUS
  <2>1. RowFits(x, row[x]) /\ row[x] \in RowT BY DEF MInv, Typed, RowFits
  <2>2. CASE row'[x] = row[x] BY <2>1, <2>2
  <2>3. CASE row'[x] # row[x]
    <3>1. x = i /\ row'[x] = [row[x] EXCEPT !.last = end] BY <1>1, <1>2, <2>3 DEF MInv, Typed
    <3>2. row'[x] \in RowT BY <1>3, <2>1, <3>1 DEF RowT
    <3>3. /\ row'[x].revision = row[x].revision /\ row'[x].status = row[x].status
          /\ row'[x].enabled = row[x].enabled /\ row'[x].payload = row[x].payload
      BY <2>1, <3>1 DEF RowT
    <3>4. Content(row'[x]) = Content(row[x]) BY <2>1, <3>1 DEF Content, RowT
    <3> QED BY <1>1, <2>1, <3>1, <3>2, <3>3, <3>4 DEF RowFits
  <2> QED BY <2>2, <2>3
<1>9. row' = [x \in Scopes |-> row'[x]]
  <2>1. row = [x \in Scopes |-> row[x]] BY DEF MInv, Typed
  <2> QED BY <1>1, <2>1
<1>10. Typed'
  <2>1. \A x \in Scopes : RowFits(x, row[x])' BY <1>8 DEF RowFits
  <2> QED BY <1>1, <1>7, <1>9, <2>1 DEF MInv, Typed
<1>11. (PreviewsFit /\ KeysFit)'
  <2>1. \A k \in 1..Len(preview) : preview[k].plan \in Scopes /\ Len(preview) \in Nat
    <3>1. preview \in Seq(PreviewT) BY DEF MInv, Typed
    <3>2. \A k \in 1..Len(preview) : preview[k] \in PreviewT /\ Len(preview) \in Nat BY <3>1
    <3> QED BY <3>2, Names DEF PreviewT
  <2>2. PreviewsFit'
    <3> SUFFICES ASSUME NEW k \in 1..Len(preview)
                 PROVE  LET p == preview[k].plan IN
                        /\ preview[k].revision <= row'[p].revision
                        /\ preview[k].revision = row'[p].revision =>
                             row'[p].status = "live" /\ row'[p].payload = preview[k].payload
                        /\ preview[k].state = "kept" => \A n \in 1..Len(jobs') : jobs'[n].key # k
      BY <1>1 DEF PreviewsFit
    <3> QED BY <1>7, <1>8, <2>1 DEF MInv, PreviewsFit
  <2>3. KeysFit' BY <1>1, <1>7, <2>1 DEF MInv, Typed, KeysFit
  <2> QED BY <2>2, <2>3
<1>12. WindowsFit'
  <2> SUFFICES ASSUME NEW w \in Windows, window[w] # Blank PROVE Newer(window[w].row, row'[window[w].id])
    BY <1>1 DEF WindowsFit, Newer
  <2>1. window[w].id \in Scopes BY DEF MInv, Typed
  <2> QED BY <1>8, <2>1 DEF MInv, WindowsFit, Newer
<1>13. Alone(row)'
  <2>1. \A p \in Plans : row[p].enabled => row[p].payload \in Payloads BY Names DEF MInv, Typed, RowFits
  <2> SUFFICES ASSUME NEW p \in Plans, row'[p].enabled
               PROVE  /\ DatasetOf[row'[p].payload] # "none" => ~row'[DatasetOf[row'[p].payload]].enabled
                      /\ \A q \in Plans \ {p} : ~(row'[q].enabled /\ row'[q].payload = row'[p].payload)
    BY DEF Alone
  <2>2. p \in Scopes /\ row[p].enabled /\ row'[p].payload = row[p].payload BY <1>8, Names
  <2>3. /\ DatasetOf[row[p].payload] # "none" => ~row[DatasetOf[row[p].payload]].enabled
        /\ \A q \in Plans \ {p} : ~(row[q].enabled /\ row[q].payload = row[p].payload)
    BY <2>2 DEF MInv, Alone
  <2>4. DatasetOf[row[p].payload] # "none" => DatasetOf[row[p].payload] \in Scopes BY <2>1, <2>2, Names
  <2> QED BY <1>8, <2>2, <2>3, <2>4, Names
<1>14. Quiet(row)'
  <2> SUFFICES ASSUME NEW x \in Scopes, row'[x].status = "deleted"
               PROVE  /\ ~row'[x].enabled /\ Linked(x)' = {}
                      /\ \A p \in Plans : row'[p].status = "live" => DatasetOf[row'[p].payload] # x
    BY DEF Quiet
  <2>1. row[x].status = "deleted" BY <1>8
  <2>2. /\ ~row[x].enabled /\ Linked(x) = {}
        /\ \A p \in Plans : row[p].status = "live" => DatasetOf[row[p].payload] # x
    BY <2>1 DEF MInv, Quiet
  <2> QED BY <1>7, <1>8, <2>1, <2>2, Names
<1>15. EditorFits'
  <2> SUFFICES ASSUME editor # Idle PROVE EditorFits' BY <1>1 DEF EditorFits
  <2>1. editor.id \in Scopes /\ editor.new \in RowT /\ Locked(editor.id) /\ editor.id # i
    BY <1>1 DEF MInv, Typed, Locked
  <2>2. row'[editor.id] = row[editor.id] BY <1>8, <2>1
  <2>3. \A x \in Scopes : Committed[x] = IF x = editor.id THEN editor.new ELSE row[x] BY <2>1 DEF MInv, Typed, Committed
  <2>4. \A x \in Scopes : Committed'[x] = IF x = editor.id THEN editor.new ELSE row'[x] BY <1>1, <1>10, <2>1 DEF Typed, Committed
  <2>5. \A x \in Scopes : /\ Committed'[x].status = Committed[x].status /\ Committed'[x].enabled = Committed[x].enabled
                          /\ Committed'[x].payload = Committed[x].payload
    BY <1>8, <2>3, <2>4
  <2>6. \A p \in Plans : Committed[p].enabled => Committed[p].payload \in Payloads
    <3>1. RowFits(editor.id, editor.new) BY DEF MInv, EditorFits
    <3>2. \A x \in Scopes : RowFits(x, row[x]) BY DEF MInv, Typed
    <3> QED BY <2>3, <3>1, <3>2, Names DEF RowFits
  <2>7. Alone(Committed)'
    <3> SUFFICES ASSUME NEW p \in Plans, Committed'[p].enabled
                 PROVE  /\ DatasetOf[Committed'[p].payload] # "none" => ~Committed'[DatasetOf[Committed'[p].payload]].enabled
                        /\ \A q \in Plans \ {p} : ~(Committed'[q].enabled /\ Committed'[q].payload = Committed'[p].payload)
      BY DEF Alone
    <3>1. p \in Scopes /\ Committed[p].enabled /\ Committed'[p].payload = Committed[p].payload BY <2>5, Names
    <3>2. /\ DatasetOf[Committed[p].payload] # "none" => ~Committed[DatasetOf[Committed[p].payload]].enabled
          /\ \A q \in Plans \ {p} : ~(Committed[q].enabled /\ Committed[q].payload = Committed[p].payload)
      BY <3>1 DEF MInv, EditorFits, Alone
    <3>3. DatasetOf[Committed[p].payload] # "none" => DatasetOf[Committed[p].payload] \in Scopes BY <2>6, <3>1, Names
    <3> QED BY <2>5, <3>1, <3>2, <3>3, Names
  <2>8. Quiet(Committed)'
    <3> SUFFICES ASSUME NEW x \in Scopes, Committed'[x].status = "deleted"
                 PROVE  /\ ~Committed'[x].enabled /\ Linked(x)' = {}
                        /\ \A p \in Plans : Committed'[p].status = "live" => DatasetOf[Committed'[p].payload] # x
      BY DEF Quiet
    <3>1. Committed[x].status = "deleted" BY <2>5
    <3>2. /\ ~Committed[x].enabled /\ Linked(x) = {}
          /\ \A p \in Plans : Committed[p].status = "live" => DatasetOf[Committed[p].payload] # x
      BY <3>1 DEF MInv, EditorFits, Quiet
    <3>3. Linked(x)' = {} BY <1>7, <2>3, <3>1, <3>2 DEF Locked
    <3> QED BY <2>5, <3>2, <3>3, Names
  <2>9. RowFits(editor.id, editor.new) /\ Newer(row[editor.id], editor.new)
        /\ (editor.window # "none" =>
              window[editor.window].id = editor.id /\ Content(window[editor.window].row) = Content(row[editor.id]))
    BY DEF MInv, EditorFits
  <2>10. RowFits(editor.id, editor.new)' BY <1>1, <2>9 DEF RowFits
  <2>11. Newer(row[editor.id], editor.new)' BY <1>1, <2>2, <2>9 DEF Newer
  <2>12. (editor.window # "none" =>
              window[editor.window].id = editor.id /\ Content(window[editor.window].row) = Content(row[editor.id]))'
    BY <1>1, <2>2, <2>9 DEF Content
  <2> QED BY <2>7, <2>8, <2>10, <2>11, <2>12 DEF EditorFits
<1> QED BY <1>10, <1>11, <1>12, <1>13, <1>14, <1>15 DEF MInv

(* A job ends or is retried: its number and what it names stay. *)
LEMMA JobsFlip ==
  ASSUME MInv, NEW n \in DOMAIN jobs, NEW active \in BOOLEAN, active => Guarded(jobs[n]),
         jobs' = [jobs EXCEPT ![n].active = active], UNCHANGED <<row, account, editor, edits, window, copy, preview>>
  PROVE  MInv'
<1>1. jobs \in Seq(JobT) /\ n \in 1..Len(jobs) /\ Len(jobs) \in Nat BY DEF MInv, Typed
<1>2. \A m \in 1..Len(jobs) : jobs[m] \in JobT BY <1>1
<1>3. jobs' = [m \in 1..Len(jobs) |-> IF m = n THEN [jobs[m] EXCEPT !.active = active] ELSE jobs[m]]
  <2>1. jobs = [m \in 1..Len(jobs) |-> jobs[m]] BY <1>1
  <2> QED BY <1>1, <2>1
<1>4. \A m \in 1..Len(jobs) : /\ jobs'[m] \in JobT /\ jobs'[m].key = jobs[m].key
                              /\ jobs'[m].plan = jobs[m].plan /\ jobs'[m].dataset = jobs[m].dataset
                              /\ jobs'[m].active = IF m = n THEN active ELSE jobs[m].active
  <2> SUFFICES ASSUME NEW m \in 1..Len(jobs)
               PROVE  /\ jobs'[m] \in JobT /\ jobs'[m].key = jobs[m].key
                      /\ jobs'[m].plan = jobs[m].plan /\ jobs'[m].dataset = jobs[m].dataset
                      /\ jobs'[m].active = IF m = n THEN active ELSE jobs[m].active
    OBVIOUS
  <2>1. jobs[m] \in JobT BY <1>2
  <2> QED BY <1>3, <2>1 DEF JobT
<1>5. jobs' \in [1..Len(jobs) -> JobT] BY <1>3, <1>4
<1>6. jobs' \in Seq(JobT) BY <1>1, <1>5
<1>7. Len(jobs') = Len(jobs) BY <1>1, <1>5, <1>6
<1>8. \A i \in Scopes : Linked(i) = {} => Linked(i)' = {} \/ (~Locked(i) /\ row[i].status # "deleted")
  <2> SUFFICES ASSUME NEW i \in Scopes, Linked(i) = {}, Linked(i)' # {} PROVE ~Locked(i) /\ row[i].status # "deleted"
    OBVIOUS
  <2>1. PICK m \in DOMAIN jobs' : jobs'[m].active /\ i \in {jobs'[m].plan, jobs'[m].dataset} BY DEF Linked
  <2>2. m \in 1..Len(jobs) /\ m \in DOMAIN jobs BY <1>1, <1>3, <2>1
  <2>3. m = n /\ active BY <1>4, <2>1, <2>2 DEF Linked
  <2> QED BY <1>4, <2>1, <2>2, <2>3, Names DEF Guarded
<1>9. Typed' BY <1>6 DEF MInv, Typed, RowFits
<1>10. PreviewsFit' BY <1>4, <1>7 DEF MInv, PreviewsFit
<1>11. KeysFit' BY <1>4, <1>7 DEF MInv, KeysFit
<1>12. WindowsFit' BY DEF MInv, WindowsFit
<1>13. (Alone(row) /\ Quiet(row))' /\ (editor # Idle => Alone(Committed) /\ Quiet(Committed))' BY <1>8, JobsKeep
<1>14. EditorFits' BY <1>13 DEF MInv, EditorFits
<1> QED BY <1>9, <1>10, <1>11, <1>12, <1>13, <1>14 DEF MInv

(* A step that leaves the rows, the editor and the jobs keeps what is said of them. *)
LEMMA RowsKeep ==
  ASSUME MInv, UNCHANGED <<row, editor, jobs>>
  PROVE  /\ (Alone(row) /\ Quiet(row))'
         /\ (editor # Idle => Alone(Committed) /\ Quiet(Committed))'
<1>1. \A i \in Scopes : Linked(i)' = Linked(i) BY DEF Linked
<1> QED BY <1>1, JobsKeep

LEMMA SchedulerReadsKeeps == ASSUME MInv, NEW i \in Scopes, SchedulerReads(i) PROVE MInv'
<1>1. copy' = [id |-> i, row |-> Shown(i)] /\ UNCHANGED <<row, account, editor, edits, window, preview, jobs>>
  BY DEF SchedulerReads
<1>2. row[i] \in RowT BY DEF MInv, Typed, RowFits
<1>3. Shown(i) \in RowT BY <1>2 DEF Shown, RowT
<1>4. Typed' BY <1>1, <1>3 DEF MInv, Typed, RowFits
<1>5. (WindowsFit /\ PreviewsFit /\ KeysFit)' BY <1>1 DEF MInv, WindowsFit, PreviewsFit, KeysFit
<1>6. (Alone(row) /\ Quiet(row))' /\ (editor # Idle => Alone(Committed) /\ Quiet(Committed))' BY <1>1, RowsKeep
<1>7. EditorFits' BY <1>1, <1>6 DEF MInv, EditorFits
<1> QED BY <1>4, <1>5, <1>6, <1>7 DEF MInv

LEMMA WindowReadsKeeps == ASSUME MInv, NEW w \in Windows, NEW i \in Scopes, WindowReads(w, i) PROVE MInv'
<1>1. /\ editor # Idle => editor.window # w
      /\ window' = [window EXCEPT ![w] = [id |-> i, row |-> Shown(i)]]
      /\ UNCHANGED <<row, account, editor, edits, copy, preview, jobs>>
  BY DEF WindowReads
<1>2. row[i] \in RowT BY DEF MInv, Typed, RowFits
<1>3. Shown(i) \in RowT /\ Shown(i).revision = row[i].revision BY <1>2 DEF Shown, RowT
<1>4. Content(Shown(i)) = Content(row[i]) BY <1>2 DEF Shown, Content, RowT
<1>5. Newer(Shown(i), row[i]) BY <1>2, <1>3, <1>4 DEF Newer, RowT
<1>6. \A v \in Windows : window'[v] = IF v = w THEN [id |-> i, row |-> Shown(i)] ELSE window[v]
  BY <1>1 DEF MInv, Typed
<1>7. window' = [v \in Windows |-> window'[v]] BY <1>1 DEF MInv, Typed
<1>8. Typed'
  <2>1. \A v \in Windows : window'[v] = Blank \/ window'[v] \in [id : Scopes, row : RowT] BY <1>3, <1>6 DEF MInv, Typed
  <2> QED BY <1>1, <1>7, <2>1 DEF MInv, Typed, RowFits
<1>9. WindowsFit'
  <2> SUFFICES ASSUME NEW v \in Windows, window'[v] # Blank PROVE Newer(window'[v].row, row[window'[v].id])
    BY <1>1 DEF WindowsFit
  <2>1. CASE v = w BY <1>5, <1>6, <2>1
  <2>2. CASE v # w BY <1>6, <2>2 DEF MInv, WindowsFit
  <2> QED BY <2>1, <2>2
<1>10. (PreviewsFit /\ KeysFit)' BY <1>1 DEF MInv, PreviewsFit, KeysFit
<1>11. (Alone(row) /\ Quiet(row))' /\ (editor # Idle => Alone(Committed) /\ Quiet(Committed))' BY <1>1, RowsKeep
<1>12. EditorFits'
  <2> SUFFICES ASSUME editor # Idle PROVE EditorFits' BY <1>1 DEF EditorFits
  <2>1. editor.window \in Windows \union {"none"} BY DEF MInv, Typed
  <2>2. editor.window # "none" => window'[editor.window] = window[editor.window] BY <1>1, <1>6, <2>1
  <2> QED BY <1>1, <1>11, <2>2 DEF MInv, EditorFits
<1> QED BY <1>8, <1>9, <1>10, <1>11, <1>12 DEF MInv

LEMMA AccountChangesKeeps == ASSUME MInv, AccountChanges PROVE MInv'
<1>1. UNCHANGED <<row, editor, edits, window, copy, preview, jobs>> BY DEF AccountChanges
<1>2. Typed' BY <1>1 DEF MInv, Typed, RowFits
<1>3. (WindowsFit /\ PreviewsFit /\ KeysFit)' BY <1>1 DEF MInv, WindowsFit, PreviewsFit, KeysFit
<1>4. (Alone(row) /\ Quiet(row))' /\ (editor # Idle => Alone(Committed) /\ Quiet(Committed))' BY <1>1, RowsKeep
<1>5. EditorFits' BY <1>1, <1>4 DEF MInv, EditorFits
<1> QED BY <1>2, <1>3, <1>4, <1>5 DEF MInv

LEMMA PreviewKeeps == ASSUME MInv, NEW p \in Plans, Preview(p) PROVE MInv'
<1> DEFINE item == [plan |-> p, revision |-> row[p].revision, payload |-> row[p].payload, state |-> "kept"]
<1>1. /\ row[p].status = "live" /\ preview' = Append(preview, item)
      /\ UNCHANGED <<row, account, editor, edits, window, copy, jobs>>
  BY DEF Preview
<1>2. row[p] \in RowT /\ row[p].payload \in Payloads BY <1>1, LiveRow, Names
<1>3. item \in PreviewT BY <1>2 DEF PreviewT, RowT
<1>4. item.plan = p /\ item.revision = row[p].revision /\ item.payload = row[p].payload OBVIOUS
<1> HIDE DEF item
<1>5. preview \in Seq(PreviewT) /\ Len(preview) \in Nat BY DEF MInv, Typed
<1>6. /\ preview' \in Seq(PreviewT) /\ Len(preview') = Len(preview) + 1 /\ preview'[Len(preview) + 1] = item
      /\ \A k \in 1..Len(preview) : preview'[k] = preview[k]
  BY <1>1, <1>3, <1>5
<1>7. Typed' BY <1>1, <1>6 DEF MInv, Typed, RowFits
<1>8. PreviewsFit'
  <2> SUFFICES ASSUME NEW k \in 1..Len(preview) + 1
               PROVE  LET q == preview'[k].plan IN
                      /\ preview'[k].revision <= row[q].revision
                      /\ preview'[k].revision = row[q].revision =>
                           row[q].status = "live" /\ row[q].payload = preview'[k].payload
                      /\ preview'[k].state = "kept" => \A n \in 1..Len(jobs) : jobs[n].key # k
    BY <1>1, <1>6 DEF PreviewsFit
  <2>1. CASE k \in 1..Len(preview) BY <1>6, <2>1 DEF MInv, PreviewsFit
  <2>2. CASE k = Len(preview) + 1
    <3>1. \A n \in 1..Len(jobs) : jobs[n].key # k
      <4>1. \A n \in 1..Len(jobs) : jobs[n] \in JobT BY DEF MInv, Typed
      <4>2. \A n \in 1..Len(jobs) : jobs[n].key \in Nat BY <4>1 DEF JobT
      <4> QED BY <1>5, <2>2, <4>2 DEF MInv, KeysFit
    <3>2. row[p].revision \in Nat BY <1>2 DEF RowT
    <3> QED BY <1>1, <1>4, <1>6, <2>2, <3>1, <3>2
  <2> QED BY <1>5, <2>1, <2>2
<1>9. KeysFit'
  <2>1. \A n \in 1..Len(jobs) : jobs[n] \in JobT BY DEF MInv, Typed
  <2>2. \A n \in 1..Len(jobs) : jobs[n].key \in Nat BY <2>1 DEF JobT
  <2> QED BY <1>1, <1>5, <1>6, <2>2 DEF MInv, KeysFit
<1>10. WindowsFit' BY <1>1 DEF MInv, WindowsFit
<1>11. (Alone(row) /\ Quiet(row))' /\ (editor # Idle => Alone(Committed) /\ Quiet(Committed))' BY <1>1, RowsKeep
<1>12. EditorFits' BY <1>1, <1>11 DEF MInv, EditorFits
<1> QED BY <1>7, <1>8, <1>9, <1>10, <1>11, <1>12 DEF MInv

LEMMA PreviewsForgottenKeeps == ASSUME MInv, PreviewsForgotten PROVE MInv'
<1>1. UNCHANGED <<row, account, editor, edits, window, copy, jobs>> BY DEF PreviewsForgotten
<1>2. preview \in Seq(PreviewT) /\ Len(preview) \in Nat /\ DOMAIN preview = 1..Len(preview) BY DEF MInv, Typed
<1>3. \A k \in 1..Len(preview) : preview[k] \in PreviewT BY <1>2
<1>4. DOMAIN preview' = 1..Len(preview) BY <1>2 DEF PreviewsForgotten
<1>5. \A k \in 1..Len(preview) : preview'[k] = preview[k] \/ preview'[k] = [preview[k] EXCEPT !.state = "gone"]
  BY <1>2 DEF PreviewsForgotten
<1>6. ASSUME NEW k \in 1..Len(preview)
      PROVE  /\ preview'[k] \in PreviewT /\ preview'[k].plan = preview[k].plan
             /\ preview'[k].revision = preview[k].revision /\ preview'[k].payload = preview[k].payload
             /\ preview'[k].state = "kept" => preview[k].state = "kept"
  <2>1. preview[k] \in PreviewT BY <1>3
  <2>2. CASE preview'[k] = preview[k] BY <2>1, <2>2
  <2>3. CASE preview'[k] = [preview[k] EXCEPT !.state = "gone"] BY <2>1, <2>3 DEF PreviewT
  <2> QED BY <1>5, <2>2, <2>3
<1>7. preview' = [k \in 1..Len(preview) |-> preview'[k]]
  <2>1. preview' = [k \in DOMAIN preview' |-> preview'[k]] BY <1>2 DEF PreviewsForgotten
  <2> QED BY <1>4, <2>1
<1>8. preview' \in [1..Len(preview) -> PreviewT] BY <1>6, <1>7
<1>9. preview' \in Seq(PreviewT) BY <1>2, <1>8
<1>10. Len(preview') = Len(preview) BY <1>2, <1>8, <1>9
<1>11. Typed' BY <1>1, <1>9 DEF MInv, Typed, RowFits
<1>12. PreviewsFit' BY <1>1, <1>6, <1>10 DEF MInv, PreviewsFit
<1>13. KeysFit' BY <1>1, <1>10 DEF MInv, KeysFit
<1>14. WindowsFit' BY <1>1 DEF MInv, WindowsFit
<1>15. (Alone(row) /\ Quiet(row))' /\ (editor # Idle => Alone(Committed) /\ Quiet(Committed))' BY <1>1, RowsKeep
<1>16. EditorFits' BY <1>1, <1>15 DEF MInv, EditorFits
<1> QED BY <1>11, <1>12, <1>13, <1>14, <1>15, <1>16 DEF MInv

(* The invariant is inductive. *)
LEMMA MStepKeeps == MInv /\ [Next]_vars => MInv'
<1> SUFFICES ASSUME MInv, [Next]_vars PROVE MInv' OBVIOUS
<1>1. CASE Edit
  <2>1. PICK setting \in Settings, enabled \in BOOLEAN :
          \/ \E p \in Plans, payload \in Payloads, console \in BOOLEAN : CreatePlan(p, payload, setting, enabled, console)
          \/ \E p \in Plans : UpdatePlan(p, setting, enabled)
          \/ \E w \in Windows, p \in Plans, payload \in Payloads : SavePlan(w, p, payload, setting, enabled)
          \/ \E w \in Windows, d \in Datasets : EditDataset(w, d, setting, enabled)
    BY <1>1 DEF Edit
  <2>2. CASE \E p \in Plans, payload \in Payloads, console \in BOOLEAN : CreatePlan(p, payload, setting, enabled, console)
    BY <2>2, CreatePlanKeeps
  <2>3. CASE \E p \in Plans : UpdatePlan(p, setting, enabled) BY <2>3, UpdatePlanKeeps
  <2>4. CASE \E w \in Windows, p \in Plans, payload \in Payloads : SavePlan(w, p, payload, setting, enabled)
    BY <2>4, SavePlanKeeps
  <2>5. CASE \E w \in Windows, d \in Datasets : EditDataset(w, d, setting, enabled) BY <2>5, EditDatasetKeeps
  <2> QED BY <2>1, <2>2, <2>3, <2>4, <2>5
<1>2. CASE \E d \in Datasets, enabled \in BOOLEAN : SetDatasetSchedule(d, enabled) BY <1>2, SetDatasetScheduleKeeps
<1>3. CASE \E w \in Windows, i \in Scopes : Recycle(w, i) \/ Restore(w, i) \/ WindowReads(w, i)
  BY <1>3, RecycleKeeps, RestoreKeeps, WindowReadsKeeps
<1>4. CASE Commit BY <1>4, CommitKeeps
<1>5. CASE Rollback BY <1>5, RollbackKeeps
<1>6. CASE \E i \in Scopes : SchedulerReads(i) BY <1>6, SchedulerReadsKeeps
<1>7. CASE \E end \in Ends : Enqueue(end) BY <1>7, EnqueueKeeps
<1>8. CASE \E d \in Datasets : UserQueues(d) BY <1>8, UserQueuesKeeps
<1>9. CASE \E n \in DOMAIN jobs : JobEnds(n) BY <1>9, JobsFlip DEF JobEnds
<1>10. CASE \E n \in DOMAIN jobs : JobRetried(n) BY <1>10, JobsFlip DEF JobRetried
<1>11. CASE \E p \in Plans : Preview(p) BY <1>11, PreviewKeeps
<1>12. CASE \E k \in DOMAIN preview : Run(k) BY <1>12, RunKeeps
<1>13. CASE PreviewsForgotten BY <1>13, PreviewsForgottenKeeps
<1>14. CASE AccountChanges BY <1>14, AccountChangesKeeps
<1>15. CASE UNCHANGED vars
  <2>1. UNCHANGED <<row, editor, window, copy, preview, jobs>> BY <1>15 DEF vars
  <2>2. Typed' BY <2>1 DEF MInv, Typed, RowFits
  <2>3. (WindowsFit /\ PreviewsFit /\ KeysFit)' BY <2>1 DEF MInv, WindowsFit, PreviewsFit, KeysFit
  <2>4. (Alone(row) /\ Quiet(row))' /\ (editor # Idle => Alone(Committed) /\ Quiet(Committed))' BY <2>1, RowsKeep
  <2>5. EditorFits' BY <2>1, <2>4 DEF MInv, EditorFits
  <2> QED BY <2>2, <2>3, <2>4, <2>5 DEF MInv
<1> QED BY <1>1, <1>2, <1>3, <1>4, <1>5, <1>6, <1>7, <1>8, <1>9, <1>10, <1>11, <1>12, <1>13, <1>14, <1>15 DEF Next

LEMMA MAlways == Spec => []MInv
BY MStarts, MStepKeeps, PTL DEF Spec

(***************************************************************************)
(* Two edits never make one dataset maintained twice, and no two plans     *)
(* with one scope are enabled together (check_conflict in the transaction  *)
(* that writes the row, under one advisory lock).                          *)
(***************************************************************************)
THEOREM MaintainedOnce == Spec => []OneMaintainer
<1>1. MInv => OneMaintainer BY DEF MInv, Alone, OneMaintainer
<1> QED BY <1>1, MAlways, PTL

(***************************************************************************)
(* A recycled plan or dataset stays out of the way: what recycle tested is *)
(* still true when it commits, and no job is queued for it afterwards.     *)
(***************************************************************************)
THEOREM RecycledStaysQuiet == Spec => []RecycledIsQuiet
<1>1. MInv => RecycledIsQuiet BY DEF MInv, Quiet, RecycledIsQuiet
<1> QED BY <1>1, MAlways, PTL

(***************************************************************************)
(* No edit overwrites a configuration its window did not show: equal       *)
(* revisions mean equal configurations (check_revision and                 *)
(* bump_config_revision).                                                  *)
(***************************************************************************)
THEOREM NoEditIsLost == Spec => EditReplacesWhatWasShown
<1>1. MInv /\ [Next]_vars => [\A i \in Scopes : editor.id = i /\ row'[i] # row[i] /\ editor.window # "none" =>
                                Content(row[i]) = Content(window[editor.window].row)]_vars
  <2> SUFFICES ASSUME MInv, NEW i \in Scopes, editor.id = i, editor.window # "none"
               PROVE  Content(row[i]) = Content(window[editor.window].row)
    OBVIOUS
  <2>1. editor # Idle BY Names DEF Idle
  <2> QED BY <2>1 DEF MInv, EditorFits
<1> QED BY <1>1, MAlways, PTL DEF EditReplacesWhatWasShown, Spec

(***************************************************************************)
(* A job is queued for the scope as it is, or for the scope that was       *)
(* previewed, and a preview is queued once (enqueue, maintenance_run).     *)
(***************************************************************************)
THEOREM JobsAreAskedFor == Spec => QueuedAsAskedFor
<1> DEFINE Asked(n) ==
      /\ jobs'[n].by = "schedule" =>
           \E i \in {jobs'[n].plan, jobs'[n].dataset} \ {"none"} :
              row[i].enabled /\ row[i].status = "live" /\ row[i].payload = jobs'[n].payload
      /\ jobs'[n].by = "preview" =>
           /\ row[jobs'[n].plan].status = "live" /\ row[jobs'[n].plan].payload = jobs'[n].payload
           /\ \A m \in DOMAIN jobs : jobs[m].key # jobs'[n].key
<1>1. ASSUME MInv, Next, NEW n \in DOMAIN jobs' \ DOMAIN jobs PROVE Asked(n)
  <2>1. jobs \in Seq(JobT) /\ Len(jobs) \in Nat /\ DOMAIN jobs = 1..Len(jobs) BY <1>1 DEF MInv, Typed
  <2>2. ASSUME NEW job \in JobT, Queue(job) PROVE jobs'[n] = job
    <3>1. jobs' = Append(jobs, job) BY <2>2 DEF Queue
    <3>2. n = Len(jobs) + 1 BY <1>1, <2>1, <3>1
    <3> QED BY <2>1, <3>1, <3>2
  <2>3. CASE \E end \in Ends : Enqueue(end)
    <3>1. PICK end \in Ends : Enqueue(end) BY <2>3
    <3> DEFINE i == copy.id
               job == ScheduledJob(i, copy.row, end)
    <3>2. i # "none" /\ StillWanted(i, copy.row) /\ (Queue(job) \/ UNCHANGED jobs) BY <3>1 DEF Enqueue
    <3>3. Queue(job) BY <1>1, <3>2
    <3>4. i \in Scopes /\ copy.row \in RowT BY <1>1, <3>2 DEF MInv, Typed, Blank
    <3>5. row[i].enabled /\ row[i].payload = copy.row.payload BY <3>2 DEF StillWanted
    <3>6. row[i].status = "live"
      <4>1. RowFits(i, row[i]) /\ row[i] \in RowT BY <1>1, <3>4 DEF MInv, Typed, RowFits
      <4>2. row[i].status # "deleted" BY <1>1, <3>4, <3>5 DEF MInv, Quiet
      <4> QED BY <3>5, <4>1, <4>2 DEF RowFits, RowT
    <3>7. jobs' = Append(jobs, job) BY <3>3 DEF Queue
    <3>8. n = Len(jobs) + 1 BY <1>1, <2>1, <3>7
    <3>9. jobs'[n] = job BY <2>1, <3>7, <3>8
    <3>10. job.by = "schedule" /\ job.payload = copy.row.payload /\ i \in {job.plan, job.dataset}
      BY <3>4, Names DEF ScheduledJob, Scopes
    <3> HIDE DEF job
    <3> QED BY <3>2, <3>5, <3>6, <3>9, <3>10
  <2>4. CASE \E d \in Datasets : UserQueues(d)
    <3>1. PICK d \in Datasets : UserQueues(d) BY <2>4
    <3> DEFINE job == [by |-> "user", plan |-> "none", dataset |-> d, payload |-> "none", end |-> 0, key |-> 0,
                       active |-> TRUE]
    <3>2. Queue(job) /\ job \in JobT BY <3>1 DEF UserQueues, JobT
    <3>3. jobs'[n] = job BY <2>2, <3>2
    <3> QED BY <3>3
  <2>5. CASE \E k \in DOMAIN preview : Run(k)
    <3>1. PICK k \in DOMAIN preview : Run(k) BY <2>5
    <3> DEFINE job == [by |-> "preview", plan |-> preview[k].plan, dataset |-> DatasetOf[preview[k].payload],
                       payload |-> preview[k].payload, end |-> 0, key |-> k, active |-> TRUE]
    <3>2. /\ Queue(job) /\ preview[k].state = "kept"
          /\ row[preview[k].plan].revision = preview[k].revision
      BY <3>1 DEF Run
    <3>3. k \in 1..Len(preview) BY <1>1 DEF MInv, Typed
    <3>4. /\ row[preview[k].plan].status = "live" /\ row[preview[k].plan].payload = preview[k].payload
          /\ \A m \in 1..Len(jobs) : jobs[m].key # k
      BY <1>1, <3>2, <3>3 DEF MInv, PreviewsFit
    <3>5. jobs' = Append(jobs, job) BY <3>2 DEF Queue
    <3>6. n = Len(jobs) + 1 BY <1>1, <2>1, <3>5
    <3>7. jobs'[n] = job BY <2>1, <3>5, <3>6
    <3> QED BY <2>1, <3>4, <3>7
  <2>6. CASE \E m \in DOMAIN jobs : JobEnds(m) \/ JobRetried(m)
    <3>1. DOMAIN jobs' = DOMAIN jobs BY <2>6 DEF JobEnds, JobRetried
    <3> QED BY <1>1, <3>1
  <2>7. CASE UNCHANGED jobs BY <1>1, <2>7
  <2>8. ASSUME Edit PROVE UNCHANGED jobs
    <3>1. \A i, w, new : Begin(i, w, new) => UNCHANGED jobs BY DEF Begin
    <3> QED BY <2>8, <3>1 DEF Edit, CreatePlan, UpdatePlan, SavePlan, EditDataset
  <2>9. ASSUME NEW d \in Datasets, NEW enabled \in BOOLEAN, SetDatasetSchedule(d, enabled) PROVE UNCHANGED jobs
    BY <2>9 DEF SetDatasetSchedule, Begin
  <2>10. ASSUME NEW w \in Windows, NEW i \in Scopes, Recycle(w, i) \/ Restore(w, i) \/ WindowReads(w, i)
         PROVE  UNCHANGED jobs
    BY <2>10 DEF Recycle, Restore, WindowReads, Begin
  <2>11. ASSUME Commit \/ Rollback \/ PreviewsForgotten \/ AccountChanges PROVE UNCHANGED jobs
    BY <2>11 DEF Commit, Rollback, PreviewsForgotten, AccountChanges
  <2>12. ASSUME NEW i \in Scopes, SchedulerReads(i) PROVE UNCHANGED jobs BY <2>12 DEF SchedulerReads
  <2>13. ASSUME NEW p \in Plans, Preview(p) PROVE UNCHANGED jobs BY <2>13 DEF Preview
  <2> QED BY <1>1, <2>3, <2>4, <2>5, <2>6, <2>7, <2>8, <2>9, <2>10, <2>11, <2>12, <2>13 DEF Next
<1>2. MInv /\ [Next]_vars => [\A n \in DOMAIN jobs' \ DOMAIN jobs : Asked(n)]_vars BY <1>1
<1> QED BY <1>2, MAlways, PTL DEF QueuedAsAskedFor, Spec
=============================================================================
