--------------------------- MODULE LifePulseProofs ---------------------------
(* Theorems about Backlog and Rhythm, the two arms of the desktop's heartbeat,
   for any processes, keys, budgets, schedules, days and bounds.               *)
EXTENDS Backlog, Rhythm, FiniteSetTheorems, WellFoundedInduction, TLAPS

-----------------------------------------------------------------------------
(* The evolution backlog. *)


Proposals == [id : Ids, key : Keys]
Table == [Keys -> Rows \cup {None}]

\* Row ids are in use, and no two rows share one.
Tabled(rs, n) ==
  /\ \A k \in Keys : rs[k] # None => rs[k].id <= n
  /\ \A k, l \in Keys : rs[k] # None /\ rs[l] # None /\ rs[k].id = rs[l].id => k = l

\* The log of authorizations is about ids in use, and agrees with the rows.
Logged(rs, log, n) ==
  /\ \A i \in Ids : log[i] # None => i <= n
  /\ \A k \in Keys : rs[k] # None /\ log[rs[k].id] # None => log[rs[k].id] = k

\* A run past its start carries out a proposal; one for an id is forced, and its
\* proposal is that of the id; one that goes on is allowed to.
Warranted(p) ==
  proc[p] # None =>
    LET r == proc[p] IN
    /\ IF r.pc = "start" THEN r.sel = None ELSE r.sel \in Proposals
    /\ r.id # NoId => r.force /\ (r.sel # None => r.sel.id = r.id \/ authorized[r.id] = r.sel.key)
    /\ r.pc = "run" => r.action = "allow"
    /\ r.pc \in {"mark", "run"} /\ r.action = "allow" /\ Policy /\ ~r.force =>
         Risk[r.sel.key] = "low" /\ AutoLowRisk

Sound ==
  /\ TypeOK /\ Tabled(rows, lastId) /\ Logged(rows, authorized, lastId)
  /\ (\A p \in Procs : Warranted(p)) /\ ExecutingHasRun

LEMMA Constants ==
  /\ Keys = PassiveKeys \cup ActiveKeys \cup UserKeys /\ Ids = 1..MaxIds /\ NoId = 0
  /\ Risk \in [Keys -> {"low", "medium"}] /\ Policy \in BOOLEAN /\ AutoLowRisk \in BOOLEAN
  /\ Budget \in [{"low", "medium"} -> Nat] /\ DailyCap \in Nat
  /\ MaxIds \in Nat /\ MaxPending \in Nat /\ MaxAborts \in Nat /\ MaxDays \in Nat \ {0}
  /\ None \notin Keys /\ None \notin Proposals /\ None \notin Rows /\ None \notin Runs
BY KeysAssumption, ConfigAssumption, BoundsAssumption, NoneAssumption DEF Keys, Ids, NoId, Proposals

-----------------------------------------------------------------------------
(* What the writes to the table do. *)

\* The rows t are rs after a proposal i of key k was inserted or updated.
Upserted(rs, t, i, k) ==
  /\ t \in Table /\ \A l \in Keys \ {k} : t[l] = rs[l]
  /\ rs[k] # None => t[k] # None /\ t[k].id = rs[k].id /\ t[k].status = rs[k].status
  /\ rs[k] = None => t[k] = None \/ (~HasId(rs, i) /\ t[k].id = i /\ t[k].status = "queued")

LEMMA Upserting ==
  ASSUME today \in 1..MaxDays, NEW rs \in Table, NEW i \in Ids, NEW k \in Keys
  PROVE  Upserted(rs, Upsert(rs, Proposal(i, k)), i, k)
<1>1. Proposal(i, k).id = i /\ Proposal(i, k).key = k
  BY DEF Proposal
<1>2. CASE rs[k] # None
  <2>1. rs[k] \in Rows
    BY <1>2 DEF Table
  <2>2. PICK r \in Rows : r = rs[k]
    BY <2>1
  <2>3. [r EXCEPT !.day = today] \in Rows /\ [r EXCEPT !.day = today].id = r.id
        /\ [r EXCEPT !.day = today].status = r.status
    BY DEF Rows
  <2>4. Upsert(rs, Proposal(i, k)) = IF r.status = "executed" THEN rs ELSE [rs EXCEPT ![k] = [r EXCEPT !.day = today]]
    BY <1>1, <1>2, <2>2 DEF Upsert
  <2>5. CASE r.status = "executed"
    BY <1>2, <2>4, <2>5 DEF Upserted
  <2>6. CASE r.status # "executed"
    <3> DEFINE new == [r EXCEPT !.day = today]
    <3>1. new \in Rows /\ new.id = rs[k].id /\ new.status = rs[k].status
          /\ Upsert(rs, Proposal(i, k)) = [rs EXCEPT ![k] = new]
      BY <2>2, <2>3, <2>4, <2>6
    <3>n. new # None
      BY <3>1, Constants
    <3> HIDE DEF new
    <3>2. [rs EXCEPT ![k] = new] \in Table /\ [rs EXCEPT ![k] = new][k] = new
          /\ \A l \in Keys \ {k} : [rs EXCEPT ![k] = new][l] = rs[l]
      BY <3>1 DEF Table
    <3> QED BY <1>2, <3>1, <3>2, <3>n DEF Upserted
  <2> QED BY <2>5, <2>6
<1>3. CASE rs[k] = None
  <2>1. CASE HasId(rs, i)
    <3>1. Upsert(rs, Proposal(i, k)) = rs
      BY <1>1, <1>3, <2>1 DEF Upsert
    <3> QED BY <1>3, <3>1 DEF Upserted
  <2>2. CASE ~HasId(rs, i)
    <3> DEFINE new == [id |-> i, status |-> "queued", day |-> today]
    <3>1. new \in Rows /\ new.id = i /\ new.status = "queued"
          /\ Upsert(rs, Proposal(i, k)) = [rs EXCEPT ![k] = new]
      BY <1>1, <1>3, <2>2 DEF Upsert, Rows
    <3> HIDE DEF new
    <3>2. [rs EXCEPT ![k] = new] \in Table /\ [rs EXCEPT ![k] = new][k] = new
          /\ \A l \in Keys \ {k} : [rs EXCEPT ![k] = new][l] = rs[l]
      BY <3>1 DEF Table
    <3> QED BY <1>3, <2>2, <3>1, <3>2 DEF Upserted
  <2> QED BY <2>1, <2>2
<1> QED BY <1>2, <1>3

\* Inserting keeps the ids apart, and the log true if the id is new or has a row.
LEMMA UpsertedTabled ==
  ASSUME NEW rs \in Table, NEW t, NEW i \in Ids, NEW k \in Keys, Upserted(rs, t, i, k),
         NEW n \in Nat, NEW m \in Nat, n <= m, Tabled(rs, n), rs[k] = None => i <= m
  PROVE  Tabled(t, m)
<1>1. \A l \in Keys : rs[l] # None => rs[l].id \in Nat
  BY Constants DEF Table, Rows
<1>2. \A l \in Keys : t[l] # None => t[l].id <= m
  BY <1>1, Constants DEF Tabled, Upserted
<1>3. ASSUME NEW l \in Keys, NEW j \in Keys, t[l] # None, t[j] # None, t[l].id = t[j].id PROVE l = j
  <2>1. CASE rs[k] # None
    BY <1>3, <2>1 DEF Tabled, Upserted
  <2>2. CASE rs[k] = None
    BY <1>3, <2>2 DEF Tabled, Upserted, HasId
  <2> QED BY <2>1, <2>2
<1> QED BY <1>2, <1>3 DEF Tabled

LEMMA UpsertedLogged ==
  ASSUME NEW rs \in Table, NEW t, NEW i \in Ids, NEW k \in Keys, Upserted(rs, t, i, k), NEW log,
         NEW n \in Nat, NEW m \in Nat, n <= m, Logged(rs, log, n), rs[k] = None => i > n
  PROVE  Logged(t, log, m)
<1>1. \A j \in Ids : log[j] # None => j <= m
  BY Constants DEF Logged
<1>2. ASSUME NEW l \in Keys, t[l] # None, log[t[l].id] # None PROVE log[t[l].id] = l
  <2>1. CASE l = k /\ rs[k] = None
    <3>1. t[l].id = i
      BY <1>2, <2>1 DEF Upserted
    <3> QED BY <1>2, <2>1, <3>1, Constants DEF Logged
  <2>2. CASE l # k \/ rs[k] # None
    <3>1. rs[l] # None /\ t[l].id = rs[l].id
      BY <1>2, <2>2 DEF Upserted
    <3> QED BY <1>2, <3>1 DEF Logged
  <2> QED BY <2>1, <2>2
<1> QED BY <1>1, <1>2 DEF Logged

\* The rows t are rs with the rows of one id set to a status.
Restatus(rs, t, pr, status) ==
  /\ t \in Table
  /\ \A k \in Keys : IF rs[k] # None /\ rs[k].id = pr.id
                     THEN t[k] # None /\ t[k].id = rs[k].id /\ t[k].status = status
                     ELSE t[k] = rs[k]

LEMMA SettingStatus ==
  ASSUME today \in 1..MaxDays, NEW rs \in Table, NEW pr, NEW status \in {"queued", "executing", "executed"}
  PROVE  Restatus(rs, SetStatus(rs, pr, status), pr, status)
<1> DEFINE New(k) == [[rs[k] EXCEPT !.status = status] EXCEPT !.day = today]
           t == SetStatus(rs, pr, status)
<1>1. ASSUME NEW k \in Keys, rs[k] # None PROVE New(k) \in Rows /\ New(k).id = rs[k].id /\ New(k).status = status
  <2>1. PICK r \in Rows : r = rs[k]
    BY <1>1 DEF Table
  <2>2. [[r EXCEPT !.status = status] EXCEPT !.day = today] \in Rows
        /\ [[r EXCEPT !.status = status] EXCEPT !.day = today].id = r.id
        /\ [[r EXCEPT !.status = status] EXCEPT !.day = today].status = status
    BY DEF Rows
  <2> QED BY <2>1, <2>2
<1>2. t = [k \in Keys |-> IF rs[k] # None /\ rs[k].id = pr.id THEN New(k) ELSE rs[k]]
  BY DEF SetStatus
<1> HIDE DEF New, t
<1>3. t \in Table
  BY <1>1, <1>2 DEF Table
<1>4. ASSUME NEW k \in Keys
      PROVE  IF rs[k] # None /\ rs[k].id = pr.id THEN t[k] # None /\ t[k].id = rs[k].id /\ t[k].status = status ELSE t[k] = rs[k]
  BY <1>1, <1>2, Constants
<1> QED BY <1>3, <1>4 DEF Restatus, t

LEMMA RestatusKeeps ==
  ASSUME NEW rs, NEW t, NEW pr, NEW status, Restatus(rs, t, pr, status), NEW n, NEW log,
         Tabled(rs, n), Logged(rs, log, n)
  PROVE  Tabled(t, n) /\ Logged(t, log, n)
<1>1. \A k \in Keys : t[k] # None => rs[k] # None /\ t[k].id = rs[k].id
  BY DEF Restatus
<1> QED BY <1>1 DEF Tabled, Logged

-----------------------------------------------------------------------------
(* What the steps do to the runs. *)

Moved(p) == proc' \in [Procs -> Runs \cup {None}] /\ \A q \in Procs \ {p} : proc'[q] = proc[q]

LEMMA Starts ==
  ASSUME TypeOK, NEW p \in Procs, NEW force \in BOOLEAN, NEW id \in Ids \cup {NoId},
         proc' = [proc EXCEPT ![p] = NewRun(force, id)]
  PROVE  /\ Moved(p) /\ proc'[p].pc = "start" /\ (proc'[p].force <=> force) /\ proc'[p].id = id /\ proc'[p].sel = None
         /\ (id # NoId => force) => Warranted(p)'
<1> DEFINE r == NewRun(force, id)
<1>1. r \in Runs /\ r.pc = "start" /\ (r.force <=> force) /\ r.id = id /\ r.sel = None
  BY DEF NewRun, Runs
<1> HIDE DEF r
<1>2. Moved(p) /\ proc'[p] = r
  BY <1>1 DEF TypeOK, Moved, r
<1> QED BY <1>1, <1>2 DEF Warranted

LEMMA Ending ==
  ASSUME TypeOK, NEW p \in Procs, Ends(p)
  PROVE  Moved(p) /\ proc'[p] = None /\ Warranted(p)'
BY DEF TypeOK, Ends, Moved, Warranted

LEMMA Selecting ==
  ASSUME TypeOK, NEW p \in Procs, proc[p] # None, NEW pr \in Proposals, NEW action \in {"none", "allow", "ask"},
         Select(p, pr, action)
  PROVE  /\ Moved(p)
         /\ proc'[p].force = proc[p].force /\ proc'[p].id = proc[p].id /\ proc'[p].sel = pr
         /\ proc'[p].action = action /\ proc'[p].pc = (IF action = "none" THEN "judge" ELSE "mark")
<1>1. PICK r \in Runs : r = proc[p]
  BY DEF TypeOK
<1> DEFINE next == IF action = "none" THEN "judge" ELSE "mark"
           s == [[[r EXCEPT !.sel = pr] EXCEPT !.action = action] EXCEPT !.pc = next]
<1>2. next \in {"judge", "mark"}
  OBVIOUS
<1>3. /\ s \in Runs /\ s.force = r.force /\ s.id = r.id /\ s.sel = pr /\ s.action = action /\ s.pc = next
  BY <1>2 DEF Runs, Proposals
<1>4. proc' = [proc EXCEPT ![p] = s]
  BY <1>1 DEF Select, TypeOK
<1> HIDE DEF s, next
<1>5. Moved(p) /\ proc'[p] = s
  BY <1>3, <1>4 DEF TypeOK, Moved
<1> QED BY <1>1, <1>3, <1>5 DEF next

\* The run goes on from its mark.
LEMMA Running ==
  ASSUME TypeOK, NEW p \in Procs, proc[p] # None, proc' = [proc EXCEPT ![p].pc = "run"]
  PROVE  /\ Moved(p) /\ proc'[p].pc = "run" /\ proc'[p].force = proc[p].force /\ proc'[p].id = proc[p].id
         /\ proc'[p].sel = proc[p].sel /\ proc'[p].action = proc[p].action /\ proc'[p] # None
<1>1. PICK r \in Runs : r = proc[p]
  BY DEF TypeOK
<1> DEFINE s == [r EXCEPT !.pc = "run"]
<1>2. s \in Runs /\ s.pc = "run" /\ s.force = r.force /\ s.id = r.id /\ s.sel = r.sel /\ s.action = r.action
  BY DEF Runs
<1>3. proc' = [proc EXCEPT ![p] = s]
  BY <1>1 DEF TypeOK
<1> HIDE DEF s
<1>4. Moved(p) /\ proc'[p] = s
  BY <1>2, <1>3 DEF TypeOK, Moved
<1> QED BY <1>1, <1>2, <1>4, Constants

\* The others' runs stay warranted while no authorization is taken back.
LEMMA StayWarranted ==
  ASSUME NEW q \in Procs, Warranted(q), proc'[q] = proc[q],
         \A i \in Ids : authorized[i] # None => authorized'[i] = authorized[i], TypeOK
  PROVE  Warranted(q)'
<1>1. CASE proc[q] = None
  BY <1>1 DEF Warranted
<1>2. CASE proc[q] # None
  <2>1. proc[q].id \in Ids \cup {NoId} /\ (proc[q].sel # None => proc[q].sel.key \in Keys)
    BY <1>2 DEF TypeOK, Runs
  <2>2. proc[q].id # NoId /\ authorized[proc[q].id] # None => authorized'[proc[q].id] = authorized[proc[q].id]
    BY <2>1
  <2>3. proc[q].sel # None => proc[q].sel.key # None
    BY <2>1, Constants
  <2> QED BY <1>2, <2>1, <2>2, <2>3 DEF Warranted
<1> QED BY <1>1, <1>2

-----------------------------------------------------------------------------
(* Steps. *)

\* Rows keep their ids, and change their status only by a run of theirs.
Follows ==
  \A k \in Keys : rows[k] # None /\ rows'[k] # rows[k] =>
    /\ rows'[k].id = rows[k].id
    /\ rows'[k].status # rows[k].status => \E p \in Procs : OwnRun(rows[k].id, p)

Kept(rs, t) ==
  /\ \A k \in Keys : rs[k] # None => t[k] # None /\ t[k].id = rs[k].id /\ t[k].status = rs[k].status
  /\ \A k \in Keys : t[k] # None /\ t[k].status = "executing" => rs[k] # None

LEMMA UpsertedKept ==
  ASSUME NEW rs, NEW t, NEW i, NEW k, Upserted(rs, t, i, k)
  PROVE  Kept(rs, t)
BY DEF Upserted, Kept

\* A run moves and the rows keep their status; if it carried out a proposal it
\* leaves it abandoned.
LEMMA RunMoves ==
  ASSUME Sound, TypeOK', NEW p \in Procs, Moved(p), Warranted(p)',
         \A i \in Ids : authorized[i] # None => authorized'[i] = authorized[i],
         Kept(rows, rows'), Tabled(rows, lastId)', Logged(rows, authorized, lastId)',
         abandoned \subseteq abandoned', At(p, "run") => proc[p].sel.id \in abandoned'
  PROVE  Sound' /\ Follows
<1>1. \A q \in Procs : Warranted(q)'
  BY StayWarranted DEF Sound, Moved
<1>2. ExecutingHasRun'
  <2> SUFFICES ASSUME NEW k \in Keys, rows'[k] # None, rows'[k].status = "executing"
               PROVE  (\E q \in Procs : Executing(q)' /\ proc'[q].sel.id = rows'[k].id) \/ rows'[k].id \in abandoned'
    BY DEF ExecutingHasRun
  <2>1. rows[k] # None /\ rows[k].status = "executing" /\ rows'[k].id = rows[k].id
    BY DEF Kept
  <2>2. CASE rows[k].id \in abandoned
    BY <2>1, <2>2
  <2>3. CASE rows[k].id \notin abandoned
    <3>1. PICK q \in Procs : Executing(q) /\ proc[q].sel.id = rows[k].id
      BY <2>1, <2>3 DEF Sound, ExecutingHasRun
    <3>2. CASE q = p
      BY <2>1, <3>1, <3>2 DEF Executing
    <3>3. CASE q # p
      <4>1. proc'[q] = proc[q]
        BY <3>3 DEF Moved
      <4> QED BY <2>1, <3>1, <4>1 DEF Executing, At
    <3> QED BY <3>2, <3>3
  <2> QED BY <2>2, <2>3
<1>3. Follows
  BY DEF Follows, Kept
<1> QED BY <1>1, <1>2, <1>3 DEF Sound

\* What is typed, apart from the runs.
LEMMA Typed ==
  ASSUME TypeOK
  PROVE  /\ rows \in Table /\ authorized \in [Ids -> UserKeys \cup {None}]
         /\ today \in 1..MaxDays /\ lastId \in Nat /\ lastId \in Ids \cup {NoId}
         /\ \A p \in Procs : proc[p] # None => proc[p] \in Runs
BY Constants DEF TypeOK, Table

LEMMA SameRows ==
  ASSUME Sound, UNCHANGED <<table, authorized>>
  PROVE  Kept(rows, rows') /\ Tabled(rows, lastId)' /\ Logged(rows, authorized, lastId)'
BY DEF Sound, table, Kept, Tabled, Logged

LEMMA StartStep ==
  ASSUME Sound, NEW p \in Procs, TimerFires(p) \/ RunAll(p) \/ RunById(p)
  PROVE  Sound' /\ Follows
<1>1. /\ UNCHANGED <<table, authorized, decisions, clock, aborts, history>> /\ proc[p] = None
      /\ \E force \in BOOLEAN, id \in Ids \cup {NoId} :
           (id # NoId => force) /\ proc' = [proc EXCEPT ![p] = NewRun(force, id)]
  <2>1. CASE TimerFires(p)
    BY <2>1 DEF TimerFires
  <2>2. CASE RunAll(p)
    BY <2>2 DEF RunAll
  <2>3. CASE RunById(p)
    BY <2>3 DEF RunById
  <2> QED BY <2>1, <2>2, <2>3
<1>2. Moved(p) /\ Warranted(p)'
  BY <1>1, Starts DEF Sound
<1>3. TypeOK'
  BY <1>1, <1>2 DEF Sound, TypeOK, Moved, table, decisions, clock, history
<1>4. abandoned' = abandoned /\ ~At(p, "run") /\ authorized' = authorized
  BY <1>1 DEF history, At
<1>5. Kept(rows, rows') /\ Tabled(rows, lastId)' /\ Logged(rows, authorized, lastId)'
  BY <1>1, SameRows
<1> QED BY <1>2, <1>3, <1>4, <1>5, RunMoves

\* The id of the capability is that of its row, or new.
LEMMA AuthorizeStep ==
  ASSUME Sound, NEW p \in Procs, Authorize(p)
  PROVE  Sound' /\ Follows
<1>t. /\ rows \in Table /\ authorized \in [Ids -> UserKeys \cup {None}] /\ today \in 1..MaxDays /\ lastId \in Nat
      /\ Tabled(rows, lastId) /\ Logged(rows, authorized, lastId) /\ TypeOK
  BY Typed DEF Sound
<1>1. PICK k \in UserKeys :
        /\ proc[p] = None /\ lastId + 1 \in Ids /\ rows' = Upsert(rows, Proposal(lastId + 1, k)) /\ lastId' = lastId + 1
        /\ authorized' = [authorized EXCEPT ![IF rows'[k] # None /\ rows'[k].status # "executed"
                                                THEN rows'[k].id ELSE lastId + 1] = k]
        /\ proc' = [proc EXCEPT ![p] = NewRun(TRUE, NoId)]
        /\ UNCHANGED <<decisions, clock, aborts, history>>
  BY DEF Authorize
<1>k. k \in Keys /\ k # None
  BY Constants
<1>2. PICK new \in Ids : new = lastId + 1
  BY <1>1
<1>3. Upserted(rows, rows', new, k)
  BY <1>1, <1>2, <1>k, <1>t, Upserting
<1>4. new \in Nat /\ lastId <= new /\ lastId' = new /\ new > lastId
  BY <1>1, <1>2, <1>t
<1>5. Tabled(rows', new) /\ Logged(rows', authorized, new)
  BY <1>3, <1>4, <1>k, <1>t, UpsertedTabled, UpsertedLogged
<1>6. PICK id \in Ids : /\ id = IF rows'[k] # None /\ rows'[k].status # "executed" THEN rows'[k].id ELSE new
                        /\ authorized' = [authorized EXCEPT ![id] = k]
  <2>1. rows'[k] # None => rows'[k].id \in Ids
    BY <1>3, <1>k DEF Upserted, Table, Rows
  <2> QED BY <1>1, <1>2, <2>1
<1>7. authorized' \in [Ids -> UserKeys \cup {None}] /\ authorized'[id] = k
      /\ \A i \in Ids \ {id} : authorized'[i] = authorized[i]
  BY <1>6, <1>t
\* A row of that id is the row of k; and what the log says of it stays.
<1>8. ASSUME NEW l \in Keys, rows'[l] # None, rows'[l].id = id PROVE l = k
  <2>1. CASE rows'[k] # None /\ rows'[k].status # "executed"
    BY <1>5, <1>6, <1>8, <1>k, <2>1 DEF Tabled
  <2>2. CASE ~(rows'[k] # None /\ rows'[k].status # "executed")
    <3>1. id = new
      BY <1>6, <2>2
    <3>2. l # k => rows'[l] = rows[l] /\ rows[l].id <= lastId
      BY <1>3, <1>8, <1>t DEF Upserted, Tabled
    <3> QED BY <1>2, <1>8, <1>t, <3>1, <3>2
  <2> QED BY <2>1, <2>2
<1>9. ASSUME NEW i \in Ids, authorized[i] # None PROVE authorized'[i] = authorized[i]
  <2>1. CASE i = id
    <3>1. i <= lastId /\ i # new
      BY <1>2, <1>9, <1>t DEF Logged
    <3>2. rows'[k] # None /\ rows'[k].id = i
      BY <1>6, <2>1, <3>1
    <3> QED BY <1>5, <1>7, <1>9, <1>k, <2>1, <3>2 DEF Logged
  <2> QED BY <1>7, <2>1
<1>10. Logged(rows', authorized', new)
  <2>1. ASSUME NEW i \in Ids, authorized'[i] # None PROVE i <= new
    <3>1. id <= new
      BY <1>4, <1>5, <1>6, <1>k, Constants DEF Tabled
    <3> QED BY <1>5, <1>7, <2>1, <3>1 DEF Logged
  <2>2. ASSUME NEW l \in Keys, rows'[l] # None, authorized'[rows'[l].id] # None PROVE authorized'[rows'[l].id] = l
    <3>1. rows'[l].id \in Ids
      BY <1>3, <2>2 DEF Upserted, Table, Rows
    <3>2. CASE rows'[l].id = id
      BY <1>7, <1>8, <2>2, <3>2
    <3>3. CASE rows'[l].id # id
      BY <1>5, <1>7, <2>2, <3>1, <3>3 DEF Logged
    <3> QED BY <3>2, <3>3
  <2> QED BY <2>1, <2>2 DEF Logged
<1>11. Moved(p) /\ Warranted(p)'
  <2>1. TRUE \in BOOLEAN /\ NoId \in Ids \cup {NoId}
    OBVIOUS
  <2> QED BY <1>1, <1>t, <2>1, Starts
<1>12. TypeOK'
  BY <1>1, <1>3, <1>4, <1>7, <1>11, <1>t DEF TypeOK, Moved, decisions, clock, history, Upserted, Table
<1>13. abandoned' = abandoned /\ ~At(p, "run")
  BY <1>1 DEF history, At
<1>14. Kept(rows, rows') /\ Tabled(rows, lastId)' /\ Logged(rows, authorized, lastId)'
  BY <1>3, <1>4, <1>5, <1>10, UpsertedKept
<1> QED BY <1>9, <1>11, <1>12, <1>13, <1>14, RunMoves

LEMMA CollectByIdStep ==
  ASSUME Sound, NEW p \in Procs, CollectById(p)
  PROVE  Sound' /\ Follows
<1>t. /\ rows \in Table /\ authorized \in [Ids -> UserKeys \cup {None}] /\ today \in 1..MaxDays /\ lastId \in Nat
      /\ Tabled(rows, lastId) /\ Logged(rows, authorized, lastId) /\ TypeOK /\ Warranted(p)
  BY Typed DEF Sound
<1>1. /\ proc[p] # None /\ proc[p].pc = "start" /\ proc[p].id # NoId /\ proc[p] \in Runs
      /\ UNCHANGED <<authorized, decisions, clock, lastId, aborts, history>>
  BY <1>t, Typed DEF CollectById, At
<1>2. CASE Ends(p) /\ UNCHANGED rows
  <2>1. Moved(p) /\ Warranted(p)'
    BY <1>2, <1>t, Ending
  <2>2. TypeOK'
    BY <1>1, <1>2, <1>t, <2>1 DEF TypeOK, Moved, decisions, clock, history
  <2>3. Kept(rows, rows') /\ Tabled(rows, lastId)' /\ Logged(rows, authorized, lastId)'
    BY <1>1, <1>2, SameRows DEF table
  <2>4. abandoned' = abandoned /\ ~At(p, "run") /\ authorized' = authorized
    BY <1>1 DEF history, At
  <2> QED BY <2>1, <2>2, <2>3, <2>4, RunMoves
<1>3. CASE ~(Ends(p) /\ UNCHANGED rows)
  <2>1. PICK k \in Find(proc[p].id) :
          rows' = Upsert(rows, Proposal(rows[k].id, k)) /\ Select(p, Proposal(rows[k].id, k), "allow")
    BY <1>3 DEF CollectById
  <2>2. /\ k \in Keys /\ rows[k] # None /\ rows[k].id \in Ids
        /\ rows[k].id = proc[p].id \/ authorized[proc[p].id] = k
    <3>1. k \in Keys /\ rows[k] # None /\ (rows[k].id = proc[p].id \/ authorized[proc[p].id] = k)
      BY Constants DEF Find
    <3> QED BY <1>t, <3>1 DEF Table, Rows
  <2>3. PICK pr \in Proposals : pr = Proposal(rows[k].id, k)
    BY <2>2 DEF Proposal, Proposals
  <2>4. pr.id = rows[k].id /\ pr.key = k /\ Select(p, pr, "allow")
    BY <2>1, <2>3 DEF Proposal
  <2>5. Upserted(rows, rows', rows[k].id, k)
    BY <1>t, <2>1, <2>2, Upserting
  <2>6. Tabled(rows', lastId) /\ Logged(rows', authorized, lastId)
    <3>1. PICK i \in Ids : i = rows[k].id
      BY <2>2
    <3>2. Upserted(rows, rows', i, k) /\ lastId <= lastId /\ i <= lastId /\ rows[k] # None
      BY <1>t, <2>2, <2>5, <3>1 DEF Tabled
    <3>3. Tabled(rows', lastId)
      BY <1>t, <2>2, <3>2, UpsertedTabled
    <3>4. Logged(rows', authorized, lastId)
      BY <1>t, <2>2, <3>2, UpsertedLogged
    <3> QED BY <3>3, <3>4
  <2>7. /\ Moved(p) /\ proc'[p].force = proc[p].force /\ proc'[p].id = proc[p].id /\ proc'[p].sel = pr
        /\ proc'[p].action = "allow" /\ proc'[p].pc = "mark"
    BY <1>1, <1>t, <2>4, Selecting
  <2>8. Warranted(p)'
    BY <1>1, <1>t, <2>2, <2>4, <2>7 DEF Warranted, Runs
  <2>9. TypeOK'
    BY <1>1, <1>t, <2>5, <2>7 DEF TypeOK, Moved, decisions, clock, history, Upserted, Table
  <2>10. abandoned' = abandoned /\ ~At(p, "run") /\ authorized' = authorized
    BY <1>1 DEF history, At
  <2>11. Kept(rows, rows') /\ Tabled(rows, lastId)' /\ Logged(rows, authorized, lastId)'
    BY <1>1, <2>5, <2>6, UpsertedKept
  <2> QED BY <2>8, <2>7, <2>9, <2>10, <2>11, RunMoves
<1> QED BY <1>2, <1>3

\* Two proposals at most are inserted, both with ids that were not in use.
LEMMA CollectStep ==
  ASSUME Sound, NEW p \in Procs, Collect(p)
  PROVE  Sound' /\ Follows
<1>t. /\ rows \in Table /\ authorized \in [Ids -> UserKeys \cup {None}] /\ today \in 1..MaxDays /\ lastId \in Nat
      /\ Tabled(rows, lastId) /\ Logged(rows, authorized, lastId) /\ TypeOK /\ Warranted(p)
  BY Typed DEF Sound
<1>1. /\ proc[p] # None /\ proc[p].pc = "start" /\ proc[p].id = NoId /\ proc[p] \in Runs /\ proc[p].force \in BOOLEAN
      /\ UNCHANGED <<authorized, decisions, clock, aborts, history>>
  <2>1. proc[p] # None /\ proc[p].pc = "start" /\ proc[p].id = NoId
        /\ UNCHANGED <<authorized, decisions, clock, aborts, history>>
    BY DEF Collect, At
  <2> QED BY <1>t, <2>1, Typed DEF Runs
<1>a. abandoned' = abandoned /\ ~At(p, "run") /\ authorized' = authorized
  BY <1>1 DEF history, At
\* The run has selected pr.
<1>s. ASSUME NEW pr \in Proposals, NEW action, action = IF proc[p].force THEN "allow" ELSE "none",
             Select(p, pr, action), lastId' \in Ids, rows' \in Table, Kept(rows, rows'), Tabled(rows', lastId'),
             Logged(rows', authorized, lastId')
      PROVE  Sound' /\ Follows
  <2>1. /\ Moved(p) /\ proc'[p].force = proc[p].force /\ proc'[p].id = proc[p].id /\ proc'[p].sel = pr
        /\ proc'[p].action = action /\ proc'[p].pc = (IF action = "none" THEN "judge" ELSE "mark")
    <3>1. action \in {"none", "allow", "ask"}
      BY <1>s
    <3> QED BY <1>1, <1>s, <1>t, <3>1, Selecting
  <2>2. Warranted(p)'
    BY <1>1, <1>s, <2>1 DEF Warranted
  <2>3. TypeOK'
    BY <1>1, <1>s, <1>t, <2>1 DEF TypeOK, Moved, decisions, clock, history, Table
  <2> QED BY <1>a, <1>s, <2>1, <2>2, <2>3, RunMoves
<1> DEFINE judged == IF proc[p].force THEN "allow" ELSE "none"
           first == lastId + 1
           With(pk) == IF pk = None THEN rows ELSE Upsert(rows, Proposal(first, pk))
           Second(pk, step) == IF pk = None THEN first ELSE first + step
<1>2. PICK pk \in PassiveKeys \cup {None}, ak \in ActiveKeys \cup {None}, step \in {0, 1} :
        /\ Second(pk, step) \in Ids
        /\ \/ pk = None /\ ak = None /\ Ends(p) /\ UNCHANGED table
           \/ /\ ak # None /\ rows' = Upsert(With(pk), Proposal(Second(pk, step), ak)) /\ lastId' = Second(pk, step)
              /\ Select(p, Proposal(Second(pk, step), ak), judged)
           \/ /\ pk # None /\ ak = None /\ rows' = With(pk) /\ lastId' = first
              /\ Select(p, Proposal(first, pk), judged)
  BY DEF Collect
<1>k. PassiveKeys \subseteq Keys /\ ActiveKeys \subseteq Keys
  BY Constants
<1> HIDE DEF With, Second, judged
<1>3. CASE pk = None /\ ak = None /\ Ends(p) /\ UNCHANGED table
  <2>1. Moved(p) /\ Warranted(p)'
    BY <1>3, <1>t, Ending
  <2>2. TypeOK'
    BY <1>1, <1>3, <1>t, <2>1 DEF TypeOK, Moved, decisions, clock, history, table
  <2>3. Kept(rows, rows') /\ Tabled(rows, lastId)' /\ Logged(rows, authorized, lastId)'
    BY <1>1, <1>3, SameRows
  <2> QED BY <1>a, <2>1, <2>2, <2>3, RunMoves
\* The passive proposal, if there is one.
<1>4. /\ With(pk) \in Table /\ Kept(rows, With(pk))
      /\ pk # None => first \in Ids /\ Tabled(With(pk), first) /\ Logged(With(pk), authorized, first)
      /\ pk = None => With(pk) = rows
  <2>1. CASE pk = None
    BY <1>t, <2>1 DEF With, Kept
  <2>2. CASE pk # None
    <3>1. pk \in Keys /\ first \in Nat /\ lastId <= first /\ first > lastId
      BY <1>k, <1>t, <2>2
    <3>2. first \in Ids
      BY <1>2, <1>t, <2>2, Constants DEF Second
    <3>3. Upserted(rows, With(pk), first, pk)
      BY <1>t, <2>2, <3>1, <3>2, Upserting DEF With
    <3>4. With(pk) \in Table /\ Kept(rows, With(pk))
      BY <3>3, UpsertedKept DEF Upserted
    <3>5. Tabled(With(pk), first) /\ Logged(With(pk), authorized, first)
      BY <1>t, <3>1, <3>2, <3>3, UpsertedTabled, UpsertedLogged
    <3> QED BY <2>2, <3>2, <3>4, <3>5
  <2> QED BY <2>1, <2>2
<1>5. CASE pk # None /\ ak = None /\ rows' = With(pk) /\ lastId' = first /\ Select(p, Proposal(first, pk), judged)
  <2>1. PICK pr \in Proposals : pr = Proposal(first, pk)
    BY <1>4, <1>5, <1>k DEF Proposal, Proposals
  <2>2. PICK action : action = judged
    OBVIOUS
  <2>3. Select(p, pr, action) /\ action = IF proc[p].force THEN "allow" ELSE "none"
    BY <1>5, <2>1, <2>2 DEF judged
  <2>4. lastId' \in Ids /\ rows' \in Table /\ Kept(rows, rows') /\ Tabled(rows', lastId')
        /\ Logged(rows', authorized, lastId')
    BY <1>4, <1>5
  <2> QED BY <1>s, <2>3, <2>4
<1>6. CASE ak # None /\ rows' = Upsert(With(pk), Proposal(Second(pk, step), ak)) /\ lastId' = Second(pk, step)
           /\ Select(p, Proposal(Second(pk, step), ak), judged)
  <2>1. PICK i \in Ids : i = Second(pk, step)
    BY <1>2
  <2>2. ak \in Keys /\ i \in Nat /\ lastId \in Nat /\ i > lastId /\ first \in Nat /\ first <= i
    BY <1>6, <1>k, <1>t, <2>1, Constants DEF Second
  <2>3. Upserted(With(pk), rows', i, ak)
    BY <1>4, <1>6, <1>t, <2>1, <2>2, Upserting
  <2>4. Kept(rows, rows') /\ rows' \in Table
    BY <1>4, <2>3, UpsertedKept DEF Kept, Upserted
  <2>5. Tabled(rows', i)
    <3>1. CASE pk = None
      BY <1>4, <1>t, <2>2, <2>3, <3>1, UpsertedTabled
    <3>2. CASE pk # None
      BY <1>4, <2>2, <2>3, <3>2, UpsertedTabled
    <3> QED BY <3>1, <3>2
  <2>6. Logged(rows', authorized, i)
    <3>1. Logged(With(pk), authorized, lastId)
      <4>1. CASE pk = None
        BY <1>4, <1>t, <4>1
      <4>2. CASE pk # None
        BY <1>4, <1>t, <4>2 DEF Logged
      <4> QED BY <4>1, <4>2
    <3>2. lastId <= i
      BY <2>2
    <3> QED BY <1>4, <2>2, <2>3, <3>1, <3>2, UpsertedLogged
  <2>7. PICK pr \in Proposals : pr = Proposal(i, ak)
    BY <2>2 DEF Proposal, Proposals
  <2>8. PICK action : action = judged
    OBVIOUS
  <2>9. Select(p, pr, action) /\ action = IF proc[p].force THEN "allow" ELSE "none"
    BY <1>6, <2>1, <2>7, <2>8 DEF judged
  <2>10. lastId' \in Ids /\ Tabled(rows', lastId') /\ Logged(rows', authorized, lastId')
    BY <1>6, <2>1, <2>5, <2>6
  <2> QED BY <1>s, <2>4, <2>9, <2>10
<1> QED BY <1>2, <1>3, <1>5, <1>6

LEMMA DecideStep ==
  ASSUME Sound, NEW p \in Procs, Decide(p)
  PROVE  Sound' /\ Follows
<1>t. TypeOK /\ Warranted(p) /\ rows \in Table
  BY Typed DEF Sound
<1>1. /\ proc[p] # None /\ proc[p].pc = "judge" /\ proc[p].sel \in Proposals
      /\ UNCHANGED <<table, authorized, decisions, clock, aborts, history>>
  BY <1>t DEF Decide, At, Warranted
<1>2. PICK pr \in Proposals : pr = proc[p].sel
  BY <1>1
<1>3. PICK action \in {"allow", "ask"} : action = Judge(pr.key)
  BY DEF Judge
<1>4. action = "allow" /\ Policy => Risk[pr.key] = "low" /\ AutoLowRisk
  BY <1>3 DEF Judge
<1>5. Select(p, pr, action)
  BY <1>2, <1>3 DEF Decide
<1>6. /\ Moved(p) /\ proc'[p].force = proc[p].force /\ proc'[p].id = proc[p].id /\ proc'[p].sel = pr
      /\ proc'[p].action = action /\ proc'[p].pc = "mark"
  BY <1>1, <1>5, <1>t, Selecting
<1>7. Warranted(p)'
  BY <1>1, <1>2, <1>4, <1>6, <1>t DEF Warranted
<1>8. TypeOK'
  BY <1>1, <1>6, <1>t DEF TypeOK, Moved, table, decisions, clock, history
<1>9. abandoned' = abandoned /\ ~At(p, "run") /\ authorized' = authorized
  BY <1>1 DEF history, At
<1>10. Kept(rows, rows') /\ Tabled(rows, lastId)' /\ Logged(rows, authorized, lastId)'
  BY <1>1, SameRows
<1> QED BY <1>6, <1>7, <1>8, <1>9, <1>10, RunMoves

\* A run sets the status of the rows of its own id.
LEMMA RestatusFollows ==
  ASSUME Sound, NEW p \in Procs, proc[p] # None, proc[p].sel # None, NEW status,
         Restatus(rows, rows', proc[p].sel, status)
  PROVE  Follows
BY DEF Follows, Restatus, OwnRun

\* An executing row that is not of the run that moves keeps the run it has.
LEMMA OthersExecute ==
  ASSUME Sound, NEW p \in Procs, Moved(p), NEW status, Restatus(rows, rows', proc[p].sel, status),
         abandoned \subseteq abandoned', NEW k \in Keys, rows'[k] # None, rows'[k].status = "executing",
         rows'[k].id # proc[p].sel.id
  PROVE  (\E q \in Procs : Executing(q)' /\ proc'[q].sel.id = rows'[k].id) \/ rows'[k].id \in abandoned'
<1>1. rows[k] # None /\ rows[k].status = "executing" /\ rows'[k].id = rows[k].id
  BY DEF Restatus
<1>2. CASE rows[k].id \in abandoned
  BY <1>1, <1>2
<1>3. CASE rows[k].id \notin abandoned
  <2>1. PICK q \in Procs : Executing(q) /\ proc[q].sel.id = rows[k].id
    BY <1>1, <1>3 DEF Sound, ExecutingHasRun
  <2>2. q # p /\ proc'[q] = proc[q]
    BY <1>1, <2>1 DEF Moved
  <2> QED BY <1>1, <2>1, <2>2 DEF Executing, At
<1> QED BY <1>2, <1>3

LEMMA MarkStep ==
  ASSUME Sound, NEW p \in Procs, Mark(p)
  PROVE  Sound' /\ Follows
<1>t. /\ TypeOK /\ Warranted(p) /\ rows \in Table /\ today \in 1..MaxDays
      /\ Tabled(rows, lastId) /\ Logged(rows, authorized, lastId)
  BY Typed DEF Sound
<1>1. /\ proc[p] # None /\ proc[p].pc = "mark" /\ proc[p].sel \in Proposals /\ proc[p].sel # None
      /\ UNCHANGED <<authorized, decisions, clock, lastId, aborts, abandoned>>
  BY <1>t, Constants DEF Mark, At, Warranted
<1>2. PICK status \in {"queued", "executing"} :
        status = IF proc[p].action = "allow" THEN "executing" ELSE "queued"
  OBVIOUS
<1>3. Restatus(rows, rows', proc[p].sel, status)
  BY <1>2, <1>t, SettingStatus DEF Mark
<1>4. /\ Moved(p) /\ Warranted(p)'
      /\ proc[p].action = "allow" => proc'[p] # None /\ proc'[p].pc = "run" /\ proc'[p].sel = proc[p].sel
  <2>1. CASE proc[p].action = "allow"
    <3>1. proc' = [proc EXCEPT ![p].pc = "run"]
      BY <2>1 DEF Mark
    <3>2. /\ Moved(p) /\ proc'[p].pc = "run" /\ proc'[p].force = proc[p].force /\ proc'[p].id = proc[p].id
          /\ proc'[p].sel = proc[p].sel /\ proc'[p].action = proc[p].action /\ proc'[p] # None
      BY <1>1, <1>t, <3>1, Running
    <3> QED BY <1>1, <1>t, <2>1, <3>2 DEF Warranted
  <2>2. CASE proc[p].action # "allow"
    BY <1>t, <2>2, Ending DEF Mark
  <2> QED BY <2>1, <2>2
<1>5. executions' \in [{"low", "medium"} -> Nat]
  <2>1. executions \in [{"low", "medium"} -> Nat] /\ Risk[proc[p].sel.key] \in {"low", "medium"}
    BY <1>1, <1>t, Constants DEF TypeOK, Proposals
  <2>2. PICK risk \in {"low", "medium"} : risk = Risk[proc[p].sel.key]
    BY <2>1
  <2>3. executions' \in {[executions EXCEPT ![risk] = @ + 1], executions}
    BY <2>2 DEF Mark
  <2> QED BY <2>1, <2>3
<1>6. TypeOK'
  BY <1>1, <1>3, <1>4, <1>5, <1>t DEF TypeOK, Moved, decisions, clock, Restatus, Table
<1>7. Tabled(rows, lastId)' /\ Logged(rows, authorized, lastId)'
  BY <1>1, <1>3, <1>t, RestatusKeeps
<1>8. \A q \in Procs : Warranted(q)'
  <2>1. authorized' = authorized
    BY <1>1
  <2> QED BY <1>4, <1>t, <2>1, StayWarranted DEF Moved, Sound
<1>9. ExecutingHasRun'
  <2> SUFFICES ASSUME NEW k \in Keys, rows'[k] # None, rows'[k].status = "executing"
               PROVE  (\E q \in Procs : Executing(q)' /\ proc'[q].sel.id = rows'[k].id) \/ rows'[k].id \in abandoned'
    BY DEF ExecutingHasRun
  <2>1. CASE rows'[k].id # proc[p].sel.id
    BY <1>1, <1>3, <1>4, <2>1, OthersExecute
  <2>2. CASE rows'[k].id = proc[p].sel.id
    <3>1. rows[k] # None /\ rows[k].id = proc[p].sel.id /\ rows'[k].status = status
      BY <1>3, <2>2 DEF Restatus
    <3>2. Executing(p)' /\ proc'[p].sel.id = rows'[k].id
      BY <1>2, <1>4, <2>2, <3>1 DEF Executing, At
    <3> QED BY <3>2
  <2> QED BY <2>1, <2>2
<1>10. Follows
  BY <1>1, <1>3, RestatusFollows
<1> QED BY <1>6, <1>7, <1>8, <1>9, <1>10 DEF Sound

LEMMA FinishStep ==
  ASSUME Sound, NEW p \in Procs, Finish(p) \/ ShallowSkip(p)
  PROVE  Sound' /\ Follows
<1>t. /\ TypeOK /\ Warranted(p) /\ rows \in Table /\ today \in 1..MaxDays /\ pending \in 0..MaxPending
      /\ Tabled(rows, lastId) /\ Logged(rows, authorized, lastId)
  BY Typed DEF Sound, TypeOK
<1>1. /\ proc[p] # None /\ proc[p].pc = "run" /\ Ends(p)
      /\ rows' = SetStatus(rows, proc[p].sel, "executed")
      /\ UNCHANGED <<authorized, decided, today, lastId, aborts, history>>
  BY DEF Finish, ShallowSkip, At, decisions, clock
<1>2. proc[p].sel # None
  BY <1>1, <1>t, Constants DEF Warranted
<1>3. Restatus(rows, rows', proc[p].sel, "executed")
  BY <1>1, <1>t, SettingStatus
<1>4. Moved(p) /\ Warranted(p)'
  BY <1>1, <1>t, Ending
<1>5. pending' \in 0..MaxPending /\ runsToday' \in Nat /\ cooling' \in BOOLEAN
  <2>1. CASE Finish(p)
    <3>1. PICK changed \in BOOLEAN, left \in 0..pending :
            pending' = left /\ runsToday' = Counted /\ cooling' = (cooling \/ changed)
      BY <2>1 DEF Finish
    <3>2. pending' \in 0..MaxPending /\ cooling' \in BOOLEAN
      BY <1>t, <3>1, Constants
    <3>3. runsToday' \in Nat
      BY <1>t, <3>1, Constants DEF TypeOK, Counted
    <3> QED BY <3>2, <3>3
  <2>2. CASE ShallowSkip(p)
    BY <1>t, <2>2 DEF ShallowSkip, decisions, clock, TypeOK
  <2> QED BY <2>1, <2>2
<1>6. TypeOK'
  BY <1>1, <1>3, <1>4, <1>5, <1>t DEF TypeOK, Moved, history, Restatus, Table
<1>7. Tabled(rows, lastId)' /\ Logged(rows, authorized, lastId)'
  BY <1>1, <1>3, <1>t, RestatusKeeps
<1>8. \A q \in Procs : Warranted(q)'
  <2>1. authorized' = authorized
    BY <1>1
  <2> QED BY <1>4, <1>t, <2>1, StayWarranted DEF Moved, Sound
<1>9. ExecutingHasRun'
  <2> SUFFICES ASSUME NEW k \in Keys, rows'[k] # None, rows'[k].status = "executing"
               PROVE  (\E q \in Procs : Executing(q)' /\ proc'[q].sel.id = rows'[k].id) \/ rows'[k].id \in abandoned'
    BY DEF ExecutingHasRun
  <2>1. rows'[k].id # proc[p].sel.id
    BY <1>3 DEF Restatus
  <2>2. abandoned \subseteq abandoned'
    BY <1>1 DEF history
  <2> QED BY <1>3, <1>4, <2>1, <2>2, OthersExecute
<1>10. Follows
  BY <1>1, <1>2, <1>3, RestatusFollows
<1> QED BY <1>6, <1>7, <1>8, <1>9, <1>10 DEF Sound

LEMMA AbortStep ==
  ASSUME Sound, NEW p \in Procs, Abort(p)
  PROVE  Sound' /\ Follows
<1>t. TypeOK /\ Warranted(p) /\ rows \in Table
  BY Typed DEF Sound
<1>1. /\ proc[p] # None /\ Ends(p) /\ aborts' \in 0..MaxAborts
      /\ UNCHANGED <<table, authorized, decisions, clock, executions>>
      /\ abandoned' = IF At(p, "run") THEN abandoned \cup {proc[p].sel.id} ELSE abandoned
  BY <1>t, Constants DEF Abort, TypeOK
<1>2. Moved(p) /\ Warranted(p)'
  BY <1>1, <1>t, Ending
<1>3. At(p, "run") => proc[p].sel \in Proposals /\ proc[p].sel.id \in Ids
  BY <1>t DEF At, Warranted, Proposals
<1>4. TypeOK'
  BY <1>1, <1>2, <1>3, <1>t DEF TypeOK, Moved, table, decisions, clock
<1>5. abandoned \subseteq abandoned' /\ (At(p, "run") => proc[p].sel.id \in abandoned') /\ authorized' = authorized
  BY <1>1
<1>6. Kept(rows, rows') /\ Tabled(rows, lastId)' /\ Logged(rows, authorized, lastId)'
  BY <1>1, SameRows
<1> QED BY <1>2, <1>4, <1>5, <1>6, RunMoves

\* Nobody's run moves.
LEMMA WorldStep ==
  ASSUME Sound, Turn \/ TimePasses \/ UNCHANGED vars
  PROVE  Sound' /\ Follows
<1>1. UNCHANGED <<table, authorized, proc, abandoned, aborts>>
  BY DEF Turn, TimePasses, vars, history, table
<1>2. TypeOK'
  <2>t. TypeOK
    BY DEF Sound
  <2>1. CASE Turn
    BY <2>t, <2>1, Constants DEF TypeOK, Turn, table, clock, history
  <2>2. CASE CoolDown /\ UNCHANGED <<table, authorized, decisions, proc, aborts, abandoned>>
    BY <2>t, <2>2 DEF TypeOK, CoolDown, table, decisions
  <2>3. CASE NewDay /\ UNCHANGED <<table, authorized, decisions, proc, aborts, abandoned>>
    BY <2>t, <2>3, Constants DEF TypeOK, NewDay, table, decisions
  <2>4. CASE UNCHANGED vars
    BY <2>t, <2>4 DEF TypeOK, vars, table, decisions, clock, history
  <2> QED BY <2>1, <2>2, <2>3, <2>4 DEF TimePasses
<1>3. Sound'
  BY <1>1, <1>2 DEF Sound, table, Tabled, Logged, Warranted, ExecutingHasRun, Executing, At
<1>4. Follows
  BY <1>1 DEF Follows, table
<1> QED BY <1>3, <1>4

-----------------------------------------------------------------------------
(* Theorems. *)

LEMMA SoundInit == Init => Sound
<1> SUFFICES ASSUME Init PROVE Sound
  OBVIOUS
<1>1. TypeOK
  <2>1. 0 \in 0..MaxPending /\ 0 \in 0..MaxAborts /\ 1 \in 1..MaxDays /\ 0 \in Nat /\ lastId = NoId
    BY Constants DEF Init
  <2> QED BY <2>1 DEF Init, TypeOK
<1>2. Tabled(rows, lastId) /\ Logged(rows, authorized, lastId)
  BY DEF Init, Tabled, Logged
<1>3. (\A p \in Procs : Warranted(p)) /\ ExecutingHasRun
  BY DEF Init, Warranted, ExecutingHasRun
<1> QED BY <1>1, <1>2, <1>3 DEF Sound

LEMMA SoundStep == Sound /\ [Next]_vars => Sound' /\ Follows
<1> SUFFICES ASSUME Sound, [Next]_vars PROVE Sound' /\ Follows
  OBVIOUS
<1>1. ASSUME NEW p \in Procs, Step(p) \/ Start(p) \/ Abort(p) PROVE Sound' /\ Follows
  BY <1>1, StartStep, AuthorizeStep, CollectByIdStep, CollectStep, DecideStep, MarkStep, FinishStep, AbortStep
     DEF Step, Start
<1> QED BY <1>1, WorldStep DEF Next

\* The table, the runs and the histories have their types.
THEOREM TypeCorrect == Spec => []TypeOK
<1>1. Sound => TypeOK
  BY DEF Sound
<1> QED BY <1>1, SoundInit, SoundStep, PTL DEF Spec

\* Whatever ids, rows and other processes do, a run for one id takes that
\* proposal or the one its stale id was authorized for, and an unforced run under
\* the policy runtime takes only what is of low risk.
THEOREM RunsAreWarranted == Spec => []RunsWarranted
<1>1. Sound => RunsWarranted
  <2> SUFFICES ASSUME Sound PROVE RunsWarranted
    OBVIOUS
  <2> USE DEF RunsWarranted
  <2> TAKE p \in Procs
  <2> HAVE proc[p] # None /\ proc[p].sel # None
  <2>1. Warranted(p)
    BY DEF Sound
  <2>2. proc[p].id # NoId => proc[p].sel.id = proc[p].id \/ authorized[proc[p].id] = proc[p].sel.key
    BY <2>1 DEF Warranted
  <2>3. Policy /\ Executing(p) /\ ~proc[p].force => Risk[proc[p].sel.key] = "low" /\ AutoLowRisk
    BY <2>1 DEF Warranted, Executing, At
  <2> QED BY <2>2, <2>3
<1> QED BY <1>1, SoundInit, SoundStep, PTL DEF Spec

\* The status of a row changes only by a run of its own id, an executing row has
\* its run or one that ended without a result, and inserting a proposal whose key
\* has a row changes neither its id nor its status.
THEOREM RowsFollowTheirRuns == Spec => RowsFollowRuns
<1>1. Sound /\ Sound' /\ Follows =>
        [ /\ \A k \in Keys : rows[k] # None /\ rows'[k] # rows[k] =>
               /\ rows'[k].id = rows[k].id
               /\ rows'[k].status # rows[k].status => \E p \in Procs : OwnRun(rows[k].id, p)
          /\ ExecutingHasRun' ]_vars
  BY DEF Follows, Sound
<1> QED BY <1>1, SoundInit, SoundStep, PTL DEF Spec, RowsFollowRuns

-----------------------------------------------------------------------------
(* The schedule. *)

Working == {"next", "turn", "save", "write"}

\* What its phase says of a tick.
Placed(t) ==
  /\ t.due \subseteq DOMAIN t.jobs
  /\ t.pc = "turn" => t.due # {}
  /\ t.pc \in Working => t.now \in 1..time /\ t.state \in States /\ t.state.day = Day(t.now)

Ticking ==
  /\ RhythmTypeOK
  /\ store # Absent => store.day <= Day(time)
  /\ \A p \in Pids : tick[p] # Absent => Placed(tick[p])

LEMMA RhythmConstants ==
  /\ \A j \in Jobs : j.id \in Names /\ j.every \in Nat /\ j.times \in SUBSET Nat
                     /\ j.kind \in {"once", "daily", "interval"}
  /\ \A pl \in Plans : pl.on \in BOOLEAN /\ pl.perDay \in Nat /\ pl.gap \in Nat /\ pl.jobs \in Seq(Jobs)
  /\ \A n \in Names : Prints[n] \in Nat
  /\ DayLength \in Nat \ {0} /\ MaxClock \in Nat \ {0} /\ MaxIncidents \in Nat
  /\ Absent \notin States /\ Absent \notin Ticks
BY PlansAssumption, TimeAssumption, IncidentsAssumption, AbsentAssumption

LEMMA DaysPass ==
  /\ \A t \in Nat : Day(t) \in Nat
  /\ \A t, u \in Nat : t <= u => Day(t) <= Day(u)
  /\ \A t \in Nat : t <= MaxClock => Day(t) \in Days
BY RhythmConstants DEF Day, Days

\* Min picks the least number of a set.
LEMMA MinPicks ==
  ASSUME NEW S \in SUBSET Nat, S # {}
  PROVE  Min(S) \in S /\ \A n \in S : Min(S) <= n
<1> DEFINE Less == {pair \in Nat \X Nat : pair[1] < pair[2]}
<1>1. IsWellFoundedOn(Less, Nat)
  BY NatLessThanWellFounded DEF OpToRel
<1>2. \A m, n \in Nat : <<m, n>> \notin Less => n <= m
  OBVIOUS
<1> HIDE DEF Less
<1>3. PICK n \in S : \A m \in S : <<m, n>> \notin Less
  BY <1>1, WFMin
<1>4. \A m \in S : n <= m
  BY <1>2, <1>3
<1> QED BY <1>4 DEF Min

LEMMA FreshTicks ==
  ASSUME NEW pc \in {"start", "exited"}, NEW by \in {"app", "cron"}
  PROVE  Fresh(pc, by) \in Ticks /\ Placed(Fresh(pc, by)) /\ Fresh(pc, by).pc = pc
         /\ Fresh(pc, by).by = by /\ ~Fresh(pc, by).orphan
BY DEF Fresh, Ticks, Placed, Working

LEMMA LoadedIsState ==
  ASSUME Ticking
  PROVE  /\ Loaded \in States /\ Loaded.day <= Day(time)
         /\ Prepared(Loaded) \in States /\ Prepared(Loaded).day = Day(time)
<1>1. time \in 1..MaxClock /\ store \in States \cup {Absent} /\ Day(time) \in Nat /\ Day(time) \in Days
  BY RhythmConstants, DaysPass DEF Ticking, RhythmTypeOK
<1>2. Loaded \in States /\ Loaded.day <= Day(time)
  <2>1. CASE store = Absent
    BY <1>1, <2>1 DEF Loaded, States
  <2>2. CASE store # Absent
    BY <1>1, <2>2 DEF Loaded, Ticking
  <2> QED BY <2>1, <2>2
<1>3. PICK s \in States : s = Loaded
  BY <1>2
<1>4. Prepared(s) \in States /\ Prepared(s).day = Day(time)
  BY <1>1 DEF Prepared, States
<1> QED BY <1>2, <1>3, <1>4

LEMMA RecordedIsState ==
  ASSUME NEW s \in States, NEW job \in Jobs, NEW now \in Nat
  PROVE  /\ Recorded(s, job, now) \in States
         /\ Recorded(s, job, now).day = s.day /\ Recorded(s, job, now).count = s.count + 1
         /\ Recorded(s, job, now).lastAny = now
         /\ \A n \in Names : Recorded(s, job, now).last[n] = IF n = job.id THEN now ELSE s.last[n]
<1>1. job.id \in Names
  BY RhythmConstants
<1> DEFINE last == [s.last EXCEPT ![job.id] = now]
<1> DEFINE count == s.count + 1
<1>2. last \in [Names -> Nat] /\ \A n \in Names : last[n] = IF n = job.id THEN now ELSE s.last[n]
  BY <1>1 DEF States
<1>3. count \in Nat /\ count = s.count + 1
  BY DEF States
<1>4. Recorded(s, job, now) = [s EXCEPT !.lastAny = now, !.count = count, !.last = last]
  BY Zenon DEF Recorded
<1> HIDE DEF last, count
<1>5. [s EXCEPT !.lastAny = now, !.count = count, !.last = last] \in States
  BY <1>2, <1>3 DEF States
<1>6. /\ [s EXCEPT !.lastAny = now, !.count = count, !.last = last].day = s.day
      /\ [s EXCEPT !.lastAny = now, !.count = count, !.last = last].count = count
      /\ [s EXCEPT !.lastAny = now, !.count = count, !.last = last].lastAny = now
      /\ [s EXCEPT !.lastAny = now, !.count = count, !.last = last].last = last
  BY DEF States
<1> QED BY <1>2, <1>3, <1>4, <1>5, <1>6

\* The least due position and its job.
LEMMA CurrentIsJob ==
  ASSUME NEW t \in Ticks, Placed(t), t.due # {}
  PROVE  /\ Min(t.due) \in t.due /\ Min(t.due) \in DOMAIN t.jobs
         /\ Current(t) = t.jobs[Min(t.due)] /\ Current(t) \in Jobs
         /\ Rest(t) \subseteq t.due /\ Min(t.due) \notin Rest(t)
<1>1. t.due \in SUBSET Nat /\ t.jobs \in Seq(Jobs)
  BY DEF Ticks
<1>2. Min(t.due) \in t.due
  BY <1>1, MinPicks
<1> QED BY <1>1, <1>2 DEF Current, Rest, Placed
-----------------------------------------------------------------------------
(* What the steps of a tick do to it. *)

\* Only the tick of p changed, and every tick is still as its phase says.
TickMoved(p) ==
  /\ tick' \in [Pids -> Ticks \cup {Absent}]
  /\ \A q \in Pids \ {p} : tick'[q] = tick[q]
  /\ \A q \in Pids : tick'[q] # Absent => Placed(tick'[q])

\* The tick of p goes on, for whom it did.
Stays(p) ==
  /\ tick[p] # Absent /\ tick'[p] # Absent
  /\ tick'[p].by = tick[p].by /\ tick'[p].orphan = tick[p].orphan

LEMMA OneTickMoves ==
  ASSUME Ticking, NEW p \in Pids, NEW t \in Ticks \cup {Absent}, Set(p, t), t # Absent => Placed(t)
  PROVE  TickMoved(p) /\ tick'[p] = t
BY DEF Set, TickMoved, Ticking, RhythmTypeOK

LEMMA ExitsMove ==
  ASSUME Ticking, NEW p \in Pids, Exits(p)
  PROVE  TickMoved(p) /\ tick'[p] = IF Child(p) THEN Fresh("exited", "app") ELSE Absent
BY OneTickMoves, FreshTicks DEF Exits

LEMMA NewTickMoves ==
  ASSUME Ticking, NEW p \in Pids, NEW by \in {"app", "cron"}, NewTick(p, by)
  PROVE  TickMoved(p) /\ tick'[p] = Fresh("start", by)
BY OneTickMoves, FreshTicks DEF NewTick, Set

LEMMA LoadMoves ==
  ASSUME Ticking, NEW p \in Pids, Load(p), ~Exits(p)
  PROVE  /\ TickMoved(p) /\ Stays(p) /\ tick[p].pc = "start"
         /\ tick'[p].pc = "next" /\ tick'[p].jobs = plan.jobs /\ tick'[p].perDay = plan.perDay
         /\ tick'[p].due = Due(plan, Prepared(Loaded), time)
         /\ tick'[p].state = Prepared(Loaded) /\ tick'[p].now = time
         /\ Note(\E q \in Pids \ {p} : Busy(q), done)
<1> DEFINE s == Prepared(Loaded)
           due == Due(plan, Prepared(Loaded), time)
           jobs == plan.jobs
           perDay == plan.perDay
<1>1. s \in States /\ s.day = Day(time) /\ plan \in Plans /\ time \in 1..MaxClock /\ time \in Nat
  BY LoadedIsState, RhythmConstants DEF Ticking, RhythmTypeOK
<1>2. jobs \in Seq(Jobs) /\ perDay \in Nat /\ due \subseteq DOMAIN jobs /\ due \in SUBSET Nat
  BY <1>1, RhythmConstants DEF Due
<1>3. PICK t \in Ticks : tick[p] = t /\ t.pc = "start"
  BY DEF Load, AtPc, Ticking, RhythmTypeOK
<1> DEFINE u == [t EXCEPT !.pc = "next", !.jobs = jobs, !.due = due, !.perDay = perDay,
                           !.state = s, !.now = time]
<1>4. Set(p, u) /\ Note(\E q \in Pids \ {p} : Busy(q), done)
  BY <1>3 DEF Load
<1> HIDE DEF s, due, jobs, perDay
<1>5. u \in Ticks /\ u.pc = "next" /\ u.by = t.by /\ u.orphan = t.orphan /\ u.jobs = jobs /\ u.due = due
      /\ u.perDay = perDay /\ u.state = s /\ u.now = time
  BY <1>1, <1>2 DEF Ticks
<1> HIDE DEF u
<1>6. Placed(u)
  BY <1>1, <1>2, <1>5 DEF Placed
<1>7. TickMoved(p) /\ tick'[p] = u
  BY <1>4, <1>5, <1>6, OneTickMoves
<1> QED BY <1>3, <1>4, <1>5, <1>7, RhythmConstants DEF Stays, s, due, jobs, perDay

LEMMA NextJobMoves ==
  ASSUME Ticking, NEW p \in Pids, NextJob(p), ~Exits(p)
  PROVE  /\ TickMoved(p) /\ Stays(p) /\ tick[p].pc = "next" /\ tick'[p].pc = "turn"
         /\ tick'[p].jobs = tick[p].jobs /\ tick'[p].due = tick[p].due /\ tick'[p].perDay = tick[p].perDay
         /\ tick'[p].state = tick[p].state /\ tick'[p].now = tick[p].now
         /\ tick[p].state.count < tick[p].perDay
<1>1. PICK t \in Ticks : tick[p] = t /\ t.pc = "next" /\ Placed(t)
  BY DEF NextJob, AtPc, Ticking, RhythmTypeOK
<1>2. t.due # {} /\ ~(t.state.count >= t.perDay)
  BY <1>1 DEF NextJob
<1>3. t.state \in States /\ t.perDay \in Nat
  BY <1>1 DEF Placed, Working, Ticks
<1>4. t.state.count < t.perDay
  BY <1>2, <1>3 DEF States
<1> DEFINE wrote == t.wrote + Prints[Current(t).id]
<1>5. wrote \in Nat
  BY <1>1, <1>2, CurrentIsJob, RhythmConstants DEF Ticks
<1> DEFINE u == [t EXCEPT !.pc = "turn", !.wrote = wrote]
<1>6. Set(p, u)
  BY <1>1 DEF NextJob
<1> HIDE DEF wrote
<1>7. u \in Ticks /\ u.pc = "turn" /\ u.by = t.by /\ u.orphan = t.orphan /\ u.jobs = t.jobs /\ u.due = t.due
      /\ u.perDay = t.perDay /\ u.state = t.state /\ u.now = t.now
  BY <1>5 DEF Ticks
<1> HIDE DEF u
<1>8. Placed(u)
  BY <1>1, <1>2, <1>7 DEF Placed, Working
<1>9. TickMoved(p) /\ tick'[p] = u
  BY <1>6, <1>7, <1>8, OneTickMoves
<1> QED BY <1>1, <1>4, <1>7, <1>9, RhythmConstants DEF Stays

LEMMA TurnSucceedsMoves ==
  ASSUME Ticking, NEW p \in Pids, TurnSucceeds(p), ~Exits(p)
  PROVE  /\ TickMoved(p) /\ Stays(p) /\ tick[p].pc = "turn" /\ tick'[p].pc = "save"
         /\ tick'[p].jobs = tick[p].jobs /\ tick'[p].due = Rest(tick[p]) /\ tick'[p].perDay = tick[p].perDay
         /\ tick'[p].state = Recorded(tick[p].state, Current(tick[p]), tick[p].now)
         /\ tick'[p].now = tick[p].now
<1>1. PICK t \in Ticks : tick[p] = t /\ t.pc = "turn" /\ Placed(t)
  BY DEF TurnSucceeds, AtPc, Ticking, RhythmTypeOK
<1>2. t.due # {} /\ t.state \in States /\ t.now \in 1..time /\ t.state.day = Day(t.now) /\ time \in 1..MaxClock
  BY <1>1 DEF Placed, Working, Ticking, RhythmTypeOK
<1> DEFINE s == Recorded(t.state, Current(t), t.now)
           rest == Rest(t)
<1>3. s \in States /\ s.day = t.state.day /\ rest \subseteq t.due
  BY <1>1, <1>2, CurrentIsJob, RecordedIsState, RhythmConstants
<1> DEFINE u == [t EXCEPT !.pc = "save", !.due = rest, !.state = s]
<1>4. Set(p, u)
  BY <1>1 DEF TurnSucceeds
<1> HIDE DEF s, rest
<1>5. u \in Ticks /\ u.pc = "save" /\ u.by = t.by /\ u.orphan = t.orphan /\ u.jobs = t.jobs /\ u.due = rest
      /\ u.perDay = t.perDay /\ u.state = s /\ u.now = t.now
  BY <1>3 DEF Ticks
<1> HIDE DEF u
<1>6. Placed(u)
  BY <1>1, <1>2, <1>3, <1>5 DEF Placed, Working
<1>7. TickMoved(p) /\ tick'[p] = u
  BY <1>4, <1>5, <1>6, OneTickMoves
<1> QED BY <1>1, <1>5, <1>7, RhythmConstants DEF Stays, s, rest

LEMMA TurnFailsMoves ==
  ASSUME Ticking, NEW p \in Pids, TurnFails(p), ~Exits(p)
  PROVE  /\ TickMoved(p) /\ Stays(p) /\ tick[p].pc = "turn" /\ tick'[p].pc = "next"
         /\ tick'[p].jobs = tick[p].jobs /\ tick'[p].due \subseteq tick[p].due
         /\ tick'[p].perDay = tick[p].perDay
         /\ tick'[p].state = tick[p].state /\ tick'[p].now = tick[p].now
<1>1. PICK t \in Ticks : tick[p] = t /\ t.pc = "turn" /\ Placed(t)
  BY DEF TurnFails, AtPc, Ticking, RhythmTypeOK
<1> DEFINE rest == Rest(t)
<1>2. rest \subseteq t.due
  BY <1>1, CurrentIsJob DEF Placed
<1> DEFINE u == [t EXCEPT !.pc = "next", !.due = rest]
<1>3. Set(p, u)
  BY <1>1 DEF TurnFails
<1> HIDE DEF rest
<1>4. u \in Ticks /\ u.pc = "next" /\ u.by = t.by /\ u.orphan = t.orphan /\ u.jobs = t.jobs /\ u.due = rest
      /\ u.perDay = t.perDay /\ u.state = t.state /\ u.now = t.now
  BY <1>2 DEF Ticks
<1> HIDE DEF u
<1>5. Placed(u)
  BY <1>1, <1>2, <1>4 DEF Placed, Working
<1>6. TickMoved(p) /\ tick'[p] = u
  BY <1>3, <1>4, <1>5, OneTickMoves
<1> QED BY <1>1, <1>2, <1>4, <1>6, RhythmConstants DEF Stays

\* Saving is two phases that change nothing else of the tick.
LEMMA SavingMoves ==
  ASSUME Ticking, NEW p \in Pids, Truncate(p) \/ Write(p)
  PROVE  /\ TickMoved(p) /\ Stays(p)
         /\ tick[p].pc = (IF Truncate(p) THEN "save" ELSE "write")
         /\ tick'[p].pc = (IF Truncate(p) THEN "write" ELSE "next")
         /\ tick'[p].jobs = tick[p].jobs /\ tick'[p].due = tick[p].due /\ tick'[p].perDay = tick[p].perDay
         /\ tick'[p].state = tick[p].state /\ tick'[p].now = tick[p].now
<1> DEFINE before == IF Truncate(p) THEN "save" ELSE "write"
           after == IF Truncate(p) THEN "write" ELSE "next"
<1>1. PICK t \in Ticks : tick[p] = t /\ t.pc = before /\ Placed(t)
  BY DEF Truncate, Write, AtPc, Ticking, RhythmTypeOK
<1> DEFINE u == [t EXCEPT !.pc = after]
<1>2. Set(p, u)
  BY <1>1 DEF Truncate, Write
<1>3. before \in {"save", "write"} /\ after \in {"write", "next"}
  OBVIOUS
<1> HIDE DEF before, after
<1>4. u \in Ticks /\ u.pc = after /\ u.by = t.by /\ u.orphan = t.orphan /\ u.jobs = t.jobs /\ u.due = t.due
      /\ u.perDay = t.perDay /\ u.state = t.state /\ u.now = t.now
  BY <1>3 DEF Ticks
<1> HIDE DEF u
<1>5. Placed(u)
  BY <1>1, <1>3, <1>4 DEF Placed, Working
<1>6. TickMoved(p) /\ tick'[p] = u
  BY <1>2, <1>4, <1>5, OneTickMoves
<1> QED BY <1>1, <1>4, <1>6, RhythmConstants DEF Stays, before, after

\* The desktop quits: the ticks that it started are orphans, those that ended are gone.
LEMMA QuitMoves ==
  ASSUME Ticking, Quit
  PROVE  /\ tick' \in [Pids -> Ticks \cup {Absent}]
         /\ \A p \in Pids :
              /\ tick'[p] = Absent <=> tick[p] = Absent \/ tick[p].pc = "exited"
              /\ tick'[p] # Absent =>
                   /\ Placed(tick'[p]) /\ tick'[p].pc = tick[p].pc /\ tick'[p].by = tick[p].by
                   /\ tick'[p].orphan = (tick[p].orphan \/ tick[p].by = "app")
                   /\ tick'[p].jobs = tick[p].jobs /\ tick'[p].due = tick[p].due
                   /\ tick'[p].perDay = tick[p].perDay
                   /\ tick'[p].state = tick[p].state /\ tick'[p].now = tick[p].now
<1> SUFFICES ASSUME NEW p \in Pids
             PROVE  /\ tick'[p] \in Ticks \cup {Absent}
                    /\ tick'[p] = Absent <=> tick[p] = Absent \/ tick[p].pc = "exited"
                    /\ tick'[p] # Absent =>
                         /\ Placed(tick'[p]) /\ tick'[p].pc = tick[p].pc /\ tick'[p].by = tick[p].by
                         /\ tick'[p].orphan = (tick[p].orphan \/ tick[p].by = "app")
                         /\ tick'[p].jobs = tick[p].jobs /\ tick'[p].due = tick[p].due
                         /\ tick'[p].perDay = tick[p].perDay
                         /\ tick'[p].state = tick[p].state /\ tick'[p].now = tick[p].now
  BY DEF Quit
<1>1. CASE tick[p] = Absent \/ tick[p].pc = "exited"
  BY <1>1 DEF Quit
<1>2. CASE ~(tick[p] = Absent \/ tick[p].pc = "exited")
  <2>1. PICK t \in Ticks : t = tick[p] /\ Placed(t)
    BY <1>2 DEF Ticking, RhythmTypeOK
  <2> DEFINE orphan == t.orphan \/ t.by = "app"
             u == [t EXCEPT !.orphan = orphan]
  <2>2. tick'[p] = u
    BY <1>2, <2>1 DEF Quit
  <2>3. orphan \in BOOLEAN
    BY DEF Ticks
  <2>4. orphan = (tick[p].orphan \/ tick[p].by = "app")
    BY <2>1
  <2> HIDE DEF orphan
  <2>5. u \in Ticks /\ u.pc = t.pc /\ u.by = t.by /\ u.orphan = orphan /\ u.jobs = t.jobs /\ u.due = t.due
        /\ u.perDay = t.perDay /\ u.state = t.state /\ u.now = t.now
    BY <2>3 DEF Ticks
  <2> HIDE DEF u
  <2>6. Placed(u)
    BY <2>1, <2>5 DEF Placed
  <2> QED BY <1>2, <2>1, <2>2, <2>4, <2>5, <2>6, RhythmConstants
<1> QED BY <1>1, <1>2

Successes == Seq([job : Jobs, at : Nat])

LEMMA Elements ==
  ASSUME NEW T, NEW seq \in Seq(T), NEW i \in DOMAIN seq
  PROVE  seq[i] \in T
OBVIOUS

\* What a step has to keep for the types to hold after it.
LEMMA TickingKept ==
  ASSUME Ticking, time' = time, plan' \in Plans, ready' \in BOOLEAN, store' \in States \cup {Absent},
         store' # Absent => store'.day <= Day(time),
         {alive', enabled', opened', running'} \subseteq BOOLEAN, incidents' \in 0..MaxIncidents,
         tick' \in [Pids -> Ticks \cup {Absent}], \A p \in Pids : tick'[p] # Absent => Placed(tick'[p]),
         spoiled' \in BOOLEAN, done' \in Successes
  PROVE  Ticking'
BY DEF Ticking, RhythmTypeOK, Placed, Day, Successes

LEMMA NoteKeepsType ==
  ASSUME Ticking, NEW bad \in BOOLEAN, NEW turns \in Successes, Note(bad, turns)
  PROVE  spoiled' \in BOOLEAN /\ done' \in Successes
BY DEF Note, Ticking, RhythmTypeOK, Successes

\* The types, and what its phase says of a tick, at the start and after a step.
LEMMA TickingInit == RhythmInit => Ticking
<1> SUFFICES ASSUME RhythmInit PROVE Ticking
  OBVIOUS
<1>1. time \in 1..MaxClock /\ incidents \in 0..MaxIncidents
  BY RhythmConstants DEF RhythmInit
<1>2. tick \in [Pids -> Ticks \cup {Absent}] /\ \A p \in Pids : tick[p] = Absent
  BY DEF RhythmInit
<1>3. done \in Seq([job : Jobs, at : Nat])
  BY DEF RhythmInit
<1> QED BY <1>1, <1>2, <1>3 DEF RhythmInit, Ticking, RhythmTypeOK

LEMMA TickingStep ==
  ASSUME Ticking, [RhythmNext]_rhythm
  PROVE  Ticking'
<1>0. /\ time \in 1..MaxClock /\ plan \in Plans /\ ready \in BOOLEAN /\ store \in States \cup {Absent}
      /\ store # Absent => store.day <= Day(time)
      /\ {alive, enabled, opened, running} \subseteq BOOLEAN /\ incidents \in 0..MaxIncidents
      /\ tick \in [Pids -> Ticks \cup {Absent}] /\ (\A p \in Pids : tick[p] # Absent => Placed(tick[p]))
      /\ spoiled \in BOOLEAN /\ done \in Successes
  BY DEF Ticking, RhythmTypeOK, Successes
<1>i. Incident => incidents' \in 0..MaxIncidents
  BY <1>0, RhythmConstants DEF Incident
<1>1. CASE Heartbeat
  BY <1>0, <1>1, NewTickMoves, TickingKept DEF Heartbeat, TickMoved, files, account
<1>2. CASE UserActs
  BY <1>0, <1>2, <1>i, TickingKept DEF UserActs, SetWorkspace, Toggle, SaveSchedule, SaveSettings, files, pulse, account
<1>3. CASE Quit
  BY <1>0, <1>3, <1>i, QuitMoves, TickingKept DEF Quit, files, account
<1>4. CASE Launch
  BY <1>0, <1>4, TickingKept DEF Launch, files, account
<1>5. CASE Cron
  BY <1>0, <1>5, <1>i, NewTickMoves, TickingKept DEF Cron, TickMoved, files, pulse, account
<1>6. CASE Pass
  <2>1. time' \in 1..MaxClock /\ time <= time' /\ Day(time) <= Day(time')
    <3>1. time \in Nat /\ time' \in Nat /\ time <= time' /\ time' \in 1..MaxClock
      BY <1>0, <1>6, RhythmConstants DEF Pass
    <3> QED BY <3>1, DaysPass
  <2>2. \A p \in Pids : tick[p] # Absent => Placed(tick[p])'
    BY <1>0, <1>6, <2>1 DEF Pass, Placed, Day
  <2>3. store # Absent => store.day \in Int /\ store.day <= Day(time')
    BY <1>0, <2>1, DaysPass DEF States, Days
  <2> QED BY <1>0, <1>6, <2>1, <2>2, <2>3 DEF Pass, Ticking, RhythmTypeOK, files, pulse, account, Day, Successes
<1>7. ASSUME NEW p \in Pids, Run(p) PROVE Ticking'
  <2>1. CASE Load(p)
    <3>1. spoiled' \in BOOLEAN /\ done' \in Successes
      BY <1>0, <2>1, NoteKeepsType DEF Load, account
    <3>2. TickMoved(p)
      BY <2>1, LoadMoves, ExitsMove
    <3> QED BY <1>0, <2>1, <3>1, <3>2, TickingKept DEF Load, TickMoved, files, pulse
  <2>2. CASE NextJob(p)
    <3>1. TickMoved(p)
      BY <2>2, NextJobMoves, ExitsMove
    <3> QED BY <1>0, <2>2, <3>1, TickingKept DEF NextJob, TickMoved, files, pulse, account
  <2>3. CASE TurnSucceeds(p)
    <3>1. PICK t \in Ticks : t = tick[p] /\ Placed(t) /\ t.pc = "turn"
      BY <1>0, <2>3 DEF TurnSucceeds, AtPc
    <3>2. Current(t) \in Jobs /\ t.now \in Nat /\ t.orphan \in BOOLEAN
      BY <3>1, CurrentIsJob DEF Placed, Ticks
    <3>3. Append(done, [job |-> Current(t), at |-> t.now]) \in Successes
      BY <1>0, <3>2 DEF Successes
    <3>4. spoiled' \in BOOLEAN /\ done' \in Successes
      BY <2>3, <3>1, <3>2, <3>3, NoteKeepsType DEF TurnSucceeds
    <3>5. TickMoved(p)
      BY <2>3, TurnSucceedsMoves, ExitsMove
    <3> QED BY <1>0, <2>3, <3>4, <3>5, TickingKept DEF TurnSucceeds, TickMoved, files, pulse
  <2>4. CASE TurnFails(p)
    <3>1. TickMoved(p)
      BY <2>4, TurnFailsMoves, ExitsMove
    <3> QED BY <1>0, <2>4, <3>1, TickingKept DEF TurnFails, TickMoved, files, pulse, account
  <2>5. CASE Truncate(p)
    <3>1. TickMoved(p)
      BY <2>5, SavingMoves
    <3> QED BY <1>0, <2>5, <3>1, TickingKept DEF Truncate, TickMoved, pulse, account
  <2>6. CASE Write(p)
    <3>1. TickMoved(p)
      BY <2>6, SavingMoves
    <3>2. PICK t \in Ticks : t = tick[p] /\ Placed(t) /\ t.pc = "write"
      BY <1>0, <2>6 DEF Write, AtPc
    <3>3. t.state \in States /\ t.state.day <= Day(time)
      BY <1>0, <3>2, DaysPass, RhythmConstants DEF Placed, Working
    <3> QED BY <1>0, <2>6, <3>1, <3>2, <3>3, TickingKept DEF Write, TickMoved, pulse, account
  <2>7. CASE ChildEnded(p)
    <3>1. Set(p, Absent)
      BY <2>7 DEF ChildEnded, Set
    <3>2. TickMoved(p)
      BY <3>1, OneTickMoves
    <3> QED BY <1>0, <2>7, <3>2, TickingKept DEF ChildEnded, TickMoved, files, account
  <2> QED BY <1>7, <2>1, <2>2, <2>3, <2>4, <2>5, <2>6, <2>7 DEF Run, ChatTurn
<1>8. ASSUME NEW p \in Pids, Crash(p) PROVE Ticking'
  <2>1. spoiled' \in BOOLEAN /\ done' \in Successes
    <3>1. Note(tick[p].pc \in {"save", "write"}, done) /\ (tick[p].pc \in {"save", "write"}) \in BOOLEAN
      BY <1>8 DEF Crash
    <3> QED BY <1>0, <3>1, NoteKeepsType
  <2>2. TickMoved(p)
    BY <1>8, ExitsMove DEF Crash
  <2> QED BY <1>0, <1>8, <1>i, <2>1, <2>2, TickingKept DEF Crash, TickMoved, files, pulse
<1>9. CASE UNCHANGED rhythm
  BY <1>0, <1>9, TickingKept DEF rhythm, files, pulse, account
<1> QED BY <1>1, <1>2, <1>3, <1>4, <1>5, <1>6, <1>7, <1>8, <1>9 DEF RhythmNext

-----------------------------------------------------------------------------
(* The desktop's child. *)

Attended ==
  /\ \A p, q \in Pids : Child(p) /\ Child(q) => p = q
  /\ running <=> \E p \in Pids : Child(p)
  /\ running => alive
  /\ \A p \in Pids : AtPc(p, "exited") => Child(p)

LEMMA SameChildren ==
  ASSUME Attended, alive' = alive, running' = running,
         \A p \in Pids : (Child(p)' <=> Child(p)) /\ (AtPc(p, "exited")' => Child(p)')
  PROVE  Attended'
BY DEF Attended

\* Whatever a process does, also when it ends, it stays whose child it was.
LEMMA MovesKeepChildren ==
  ASSUME Ticking, Attended, alive' = alive, running' = running, NEW p \in Pids, TickMoved(p),
         \/ Exits(p)
         \/ Stays(p) /\ tick'[p].pc # "exited"
  PROVE  Attended'
<1>1. \A q \in Pids \ {p} : (Child(q)' <=> Child(q)) /\ (AtPc(q, "exited")' => Child(q)')
  BY DEF TickMoved, Child, AtPc, Attended
<1>2. (Child(p)' <=> Child(p)) /\ (AtPc(p, "exited")' => Child(p)')
  <2>1. CASE Exits(p)
    <3>1. tick'[p] = IF Child(p) THEN Fresh("exited", "app") ELSE Absent
      BY <2>1, ExitsMove
    <3>2. Fresh("exited", "app") # Absent /\ Fresh("exited", "app").by = "app" /\ ~Fresh("exited", "app").orphan
      BY FreshTicks, RhythmConstants
    <3> QED BY <3>1, <3>2 DEF Child, AtPc
  <2>2. CASE Stays(p) /\ tick'[p].pc # "exited"
    BY <2>2 DEF Stays, Child, AtPc
  <2> QED BY <2>1, <2>2
<1> QED BY <1>1, <1>2, SameChildren

LEMMA AttendedStep ==
  ASSUME Ticking, Attended, [RhythmNext]_rhythm
  PROVE  Attended'
<1>1. CASE Heartbeat
  <2>1. PICK p \in Pids : tick[p] = Absent /\ NewTick(p, "app")
    BY <1>1 DEF Heartbeat
  <2>2. TickMoved(p) /\ tick'[p] = Fresh("start", "app")
    BY <2>1, NewTickMoves
  <2>3. Fresh("start", "app") # Absent /\ Fresh("start", "app").by = "app" /\ ~Fresh("start", "app").orphan
        /\ Fresh("start", "app").pc = "start"
    BY FreshTicks, RhythmConstants
  <2>4. Child(p)' /\ ~AtPc(p, "exited")'
    BY <2>2, <2>3 DEF Child, AtPc
  <2>5. ~running /\ running' /\ alive /\ alive'
    BY <1>1 DEF Heartbeat
  <2>6. \A q \in Pids \ {p} : ~Child(q)' /\ ~AtPc(q, "exited")'
    BY <2>2, <2>5 DEF Attended, TickMoved, Child, AtPc
  <2> QED BY <2>4, <2>5, <2>6 DEF Attended
<1>2. CASE UserActs
  BY <1>2, SameChildren DEF UserActs, SetWorkspace, Toggle, SaveSchedule, SaveSettings, pulse, Child, AtPc, Attended
<1>3. CASE Quit
  <2>1. \A p \in Pids : ~Child(p)' /\ ~AtPc(p, "exited")'
    <3> SUFFICES ASSUME NEW p \in Pids, tick'[p] # Absent PROVE tick'[p].pc # "exited" /\ (tick'[p].by = "app" => tick'[p].orphan)
      BY DEF Child, AtPc
    <3> QED BY <1>3, QuitMoves
  <2>2. ~running' /\ ~alive'
    BY <1>3 DEF Quit
  <2> QED BY <2>1, <2>2 DEF Attended
<1>4. CASE Launch
  BY <1>4 DEF Launch, Attended, Child, AtPc
<1>5. CASE Cron
  <2>1. PICK p \in Pids : tick[p] = Absent /\ NewTick(p, "cron")
    BY <1>5 DEF Cron
  <2>2. TickMoved(p) /\ tick'[p] = Fresh("start", "cron")
    BY <2>1, NewTickMoves
  <2>3. Fresh("start", "cron").by = "cron" /\ Fresh("start", "cron").pc = "start"
    BY FreshTicks
  <2>4. ~Child(p) /\ ~Child(p)' /\ ~AtPc(p, "exited")'
    BY <2>1, <2>2, <2>3 DEF Child, AtPc
  <2>5. \A q \in Pids \ {p} : (Child(q)' <=> Child(q)) /\ (AtPc(q, "exited")' => Child(q)')
    BY <2>2 DEF TickMoved, Child, AtPc, Attended
  <2> QED BY <1>5, <2>4, <2>5, SameChildren DEF Cron, pulse
<1>6. CASE Pass
  BY <1>6, SameChildren DEF Pass, pulse, Child, AtPc, Attended
<1>7. ASSUME NEW p \in Pids, Run(p) PROVE Attended'
  <2>1. CASE ChildEnded(p)
    <3>1. Child(p) /\ AtPc(p, "exited")
      BY <2>1 DEF ChildEnded, Attended, AtPc
    <3>2. Set(p, Absent) /\ running' = FALSE
      BY <2>1 DEF ChildEnded, Set
    <3>3. TickMoved(p) /\ tick'[p] = Absent
      BY <3>2, OneTickMoves
    <3>4. \A q \in Pids : ~Child(q)' /\ ~AtPc(q, "exited")'
      BY <3>1, <3>3 DEF Attended, TickMoved, Child, AtPc
    <3> QED BY <3>2, <3>4 DEF Attended
  <2>2. CASE ~ChildEnded(p)
    <3>1. alive' = alive /\ running' = running
      BY <1>7, <2>2 DEF Run, ChatTurn, Load, NextJob, TurnSucceeds, TurnFails, Truncate, Write, pulse
    <3>2. TickMoved(p) /\ (Exits(p) \/ (Stays(p) /\ tick'[p].pc # "exited"))
      BY <1>7, <2>2, ExitsMove, LoadMoves, NextJobMoves, TurnSucceedsMoves, TurnFailsMoves, SavingMoves
         DEF Run, ChatTurn
    <3> QED BY <3>1, <3>2, MovesKeepChildren
  <2> QED BY <2>1, <2>2
<1>8. ASSUME NEW p \in Pids, Crash(p) PROVE Attended'
  BY <1>8, ExitsMove, MovesKeepChildren DEF Crash, pulse
<1>9. CASE UNCHANGED rhythm
  BY <1>9, SameChildren DEF rhythm, pulse, Child, AtPc, Attended
<1> QED BY <1>1, <1>2, <1>3, <1>4, <1>5, <1>6, <1>7, <1>8, <1>9 DEF RhythmNext

\* A set in which all are equal has at most one element.
LEMMA AtMostOneChild ==
  ASSUME Attended PROVE OneChild
<1> DEFINE children == {p \in Pids : Child(p)}
<1>1. CASE children = {}
  BY <1>1, FS_EmptySet DEF OneChild, Attended
<1>2. CASE children # {}
  <2>1. PICK p \in children : TRUE
    BY <1>2
  <2>2. children = {p}
    BY <2>1 DEF Attended
  <2>3. Cardinality(children) = 1
    BY <2>2, FS_Singleton
  <2> QED BY <2>3 DEF OneChild, Attended
<1> QED BY <1>1, <1>2

-----------------------------------------------------------------------------
(* The schedule: what the books of a tick, or the file, say of the successes. *)

\* No plan lists the same job twice.
JobsDiffer == \A pl \in Plans : \A m, n \in DOMAIN pl.jobs : pl.jobs[m] = pl.jobs[n] => m = n

\* The success f may follow the success e.
Fits(e, f) ==
  /\ e.job = f.job /\ e.job.kind # "interval" => BetweenIsSlot(e, f)
  /\ f.job.kind = "interval" => Spaced(e, f)

OnDay(turns, d) == {i \in DOMAIN turns : Day(turns[i].at) = d}

\* The books are not behind the successes, nor is their count of the day.
Covers(s, e) == s.last[e.job.id] >= e.at /\ s.lastAny >= e.at /\ Day(e.at) <= s.day
Books(s, turns) ==
  /\ \A i \in DOMAIN turns : Covers(s, turns[i])
  /\ Cardinality(OnDay(turns, s.day)) <= s.count

\* What a tick at work goes by: its books, and jobs that may still follow.
Entered(t, turns) ==
  /\ Books(t.state, turns)
  /\ \E pl \in Plans : t.perDay = pl.perDay
  /\ t.pc = "turn" => t.state.count < t.perDay
  /\ \A i \in DOMAIN turns : turns[i].at <= t.now
  /\ \A m, n \in DOMAIN t.jobs : t.jobs[m] = t.jobs[n] => m = n
  /\ \A n \in t.due, i \in DOMAIN turns : Fits(turns[i], [job |-> t.jobs[n], at |-> t.now])

InOrder(turns) == \A i, j \in DOMAIN turns : i < j => Fits(turns[i], turns[j])
Limited(turns) == \A d \in Days : \E pl \in Plans : Cardinality(OnDay(turns, d)) <= pl.perDay

Saving(p) == AtPc(p, "save") \/ AtPc(p, "write")

Orderly ==
  /\ \A p, q \in Pids : Busy(p) /\ Busy(q) => p = q
  /\ \A i \in DOMAIN done : done[i].at \in 1..time
  /\ InOrder(done) /\ Limited(done)
  /\ (\A p \in Pids : ~Saving(p)) => Books(Loaded, done)
  /\ \A p \in Pids : Busy(p) => Entered(tick[p], done)

LEMMA OrderlyKeepsSchedules == ASSUME Orderly PROVE SchedulesKept
BY DEF Orderly, InOrder, Limited, OnDay, Fits, SchedulesKept, WithinDayLimit

LEMMA GapsAreBounded ==
  ASSUME NEW pl \in Plans
  PROVE  SmallestGap \in Nat /\ SmallestGap <= pl.gap
<1> DEFINE gaps == {x.gap : x \in Plans}
<1>1. gaps \in SUBSET Nat /\ pl.gap \in gaps
  BY RhythmConstants
<1> QED BY <1>1, MinPicks DEF SmallestGap

\* A job that is due by books that cover a success may follow that success.
LEMMA DueJobsFit ==
  ASSUME NEW pl \in Plans, NEW s \in States, NEW now \in Nat, NEW n \in Due(pl, s, now),
         NEW e \in [job : Jobs, at : Nat], e.at \in 1..now, Covers(s, e)
  PROVE  Fits(e, [job |-> pl.jobs[n], at |-> now])
<1> DEFINE job == pl.jobs[n]
           f == [job |-> job, at |-> now]
           last == s.last[job.id]
<1>1. job \in Jobs /\ f.job = job /\ f.at = now
  BY RhythmConstants DEF Due
<1>2. JobDue(job, last, now) /\ ~GapBlocks(pl, s, now, job)
  BY DEF Due
<1>3. job.id \in Names /\ job.every \in Nat /\ job.times \in SUBSET Nat /\ job.kind \in {"once", "daily", "interval"}
  BY <1>1, RhythmConstants
<1>4. last \in Nat /\ s.lastAny \in Nat /\ e.at \in Nat /\ e.at >= 1 /\ s.lastAny >= e.at
  BY <1>3 DEF States, Covers
<1>5. e.job = job => last >= e.at
  BY DEF Covers
<1> HIDE DEF job, f, last
<1>6. ASSUME e.job = job, job.kind # "interval" PROVE BetweenIsSlot(e, f)
  <2>1. CASE job.kind = "once"
    BY <1>1, <1>2, <1>3, <1>4, <1>5, <1>6, <2>1 DEF JobDue, BetweenIsSlot
  <2>2. CASE job.kind = "daily"
    <3> DEFINE midnight == Day(now) * DayLength
    <3>1. midnight \in Int
      BY RhythmConstants, DaysPass
    <3>2. PICK t \in job.times : now >= midnight + t /\ last < midnight + t
      BY <1>2, <1>3, <2>2 DEF JobDue
    <3>3. BetweenIsSlot(e, f) <=> \E u \in job.times : e.at < midnight + u /\ midnight + u <= now
      BY <1>1, <1>6, <2>2 DEF BetweenIsSlot
    <3> HIDE DEF midnight
    <3>4. t \in Nat
      BY <1>3
    <3> QED BY <1>4, <1>5, <1>6, <3>1, <3>2, <3>3, <3>4
  <2> QED BY <1>3, <1>6, <2>1, <2>2
<1>7. ASSUME job.kind = "interval" PROVE Spaced(e, f)
  <2>1. e.job = job => now - e.at >= job.every
    BY <1>2, <1>3, <1>4, <1>5, <1>7 DEF JobDue
  <2>2. pl.gap \in Nat /\ SmallestGap \in Nat /\ SmallestGap <= pl.gap
    BY RhythmConstants, GapsAreBounded
  <2>3. now - e.at >= SmallestGap
    BY <1>2, <1>4, <1>7, <2>2 DEF GapBlocks
  <2> QED BY <1>1, <2>1, <2>3 DEF Spaced
<1>8. Fits(e, f)
  BY <1>1, <1>6, <1>7 DEF Fits
<1> QED BY <1>8 DEF f, job

\* One more success counts on its day only.
LEMMA CountedOnItsDay ==
  ASSUME NEW turns \in Successes, NEW e \in [job : Jobs, at : Nat], NEW d
  PROVE  /\ Cardinality(OnDay(turns, d)) \in Nat
         /\ Cardinality(OnDay(Append(turns, e), d)) =
              IF Day(e.at) = d THEN Cardinality(OnDay(turns, d)) + 1 ELSE Cardinality(OnDay(turns, d))
<1> DEFINE new == Append(turns, e)
           n == Len(turns) + 1
<1>1. Len(turns) \in Nat /\ DOMAIN turns = 1..Len(turns)
  BY DEF Successes
<1>2. DOMAIN new = 1..n /\ new[n] = e /\ \A i \in 1..Len(turns) : new[i] = turns[i]
  BY DEF Successes
<1>3. IsFiniteSet(OnDay(turns, d)) /\ n \notin OnDay(turns, d)
  <2>1. IsFiniteSet(1..Len(turns))
    BY <1>1, FS_Interval
  <2>2. OnDay(turns, d) \subseteq 1..Len(turns)
    BY <1>1 DEF OnDay
  <2>3. n \notin 1..Len(turns)
    BY <1>1
  <2> QED BY <2>1, <2>2, <2>3, FS_Subset
<1>4. 1..n = (1..Len(turns)) \cup {n}
  BY <1>1
<1>5. OnDay(new, d) = IF Day(e.at) = d THEN OnDay(turns, d) \cup {n} ELSE OnDay(turns, d)
  <2> HIDE DEF new, n
  <2>1. \A i \in 1..n : i \in OnDay(new, d) <=> Day(new[i].at) = d
    BY <1>2 DEF OnDay
  <2>2. \A i \in 1..Len(turns) : i \in OnDay(new, d) <=> i \in OnDay(turns, d)
    BY <1>1, <1>2, <1>4 DEF OnDay
  <2>3. n \in OnDay(new, d) <=> Day(e.at) = d
    BY <1>2, <1>4, <2>1
  <2>4. OnDay(new, d) \subseteq 1..n /\ OnDay(turns, d) \subseteq 1..Len(turns)
    BY <1>1, <1>2 DEF OnDay
  <2> DEFINE before == OnDay(turns, d)
             after == OnDay(new, d)
  <2>5. \A i \in 1..Len(turns) : i \in after <=> i \in before
    BY <2>2
  <2>6. n \in after <=> Day(e.at) = d
    BY <2>3
  <2>7. after \subseteq (1..Len(turns)) \cup {n} /\ before \subseteq 1..Len(turns)
    BY <1>4, <2>4
  <2> HIDE DEF before, after
  <2>8. CASE Day(e.at) = d
    <3>1. after = before \cup {n}
      BY <2>5, <2>6, <2>7, <2>8
    <3> QED BY <2>8, <3>1 DEF before, after
  <2>9. CASE Day(e.at) # d
    <3>1. after = before
      BY <2>5, <2>6, <2>7, <2>9
    <3> QED BY <2>9, <3>1 DEF before, after
  <2> QED BY <2>8, <2>9
<1> QED BY <1>3, <1>5, FS_CardinalityType, FS_AddElement

\* A new day starts with no success that counts.
LEMMA PreparedBooks ==
  ASSUME Ticking, Books(Loaded, done), \A i \in DOMAIN done : done[i].at \in 1..time
  PROVE  Books(Prepared(Loaded), done)
<1>1. PICK s \in States : s = Loaded /\ s.day <= Day(time)
  BY LoadedIsState
<1>2. time \in Nat /\ Day(time) \in Nat /\ s.day \in Int
  <2>1. time \in Nat /\ s.day \in Int
    BY RhythmConstants DEF Ticking, RhythmTypeOK, States, Days
  <2> QED BY <2>1, DaysPass
<1>3. CASE s.day = Day(time)
  BY <1>1, <1>3 DEF Prepared
<1>4. CASE s.day # Day(time)
  <2> DEFINE u == [s EXCEPT !.day = Day(time), !.count = 0]
  <2>1. Prepared(Loaded) = u
    BY <1>1, <1>4 DEF Prepared
  <2>2. u.day = Day(time) /\ u.count = 0 /\ u.last = s.last /\ u.lastAny = s.lastAny
    BY DEF States
  <2> HIDE DEF u
  <2>3. ASSUME NEW i \in DOMAIN done PROVE Covers(u, done[i]) /\ Day(done[i].at) # u.day
    <3>1. done[i].at \in Nat /\ Day(done[i].at) \in Nat
      BY DaysPass, <1>2
    <3>2. Covers(s, done[i])
      BY <1>1 DEF Books
    <3> QED BY <1>1, <1>2, <1>4, <2>2, <3>1, <3>2 DEF Covers
  <2>4. OnDay(done, u.day) = {}
    BY <2>3 DEF OnDay
  <2>5. Cardinality(OnDay(done, u.day)) = 0
    BY <2>4, FS_EmptySet
  <2> QED BY <2>1, <2>2, <2>3, <2>5 DEF Books
<1> QED BY <1>3, <1>4

\* A success and the books that record it.
LEMMA RecordedBooks ==
  ASSUME NEW s \in States, NEW turns \in Successes, NEW job \in Jobs, NEW now \in Nat, Books(s, turns),
         s.day = Day(now), \A i \in DOMAIN turns : turns[i].at <= now
  PROVE  Books(Recorded(s, job, now), Append(turns, [job |-> job, at |-> now]))
<1> DEFINE e == [job |-> job, at |-> now]
           new == Append(turns, e)
           u == Recorded(s, job, now)
<1>1. e \in [job : Jobs, at : Nat] /\ e.job = job /\ e.at = now
  OBVIOUS
<1>2. /\ u.day = s.day /\ u.count = s.count + 1 /\ u.lastAny = now
      /\ \A n \in Names : u.last[n] = IF n = job.id THEN now ELSE s.last[n]
  BY RecordedIsState
<1>3. Len(turns) \in Nat /\ DOMAIN turns = 1..Len(turns) /\ DOMAIN new = 1..(Len(turns) + 1)
      /\ new[Len(turns) + 1] = e /\ \A i \in 1..Len(turns) : new[i] = turns[i]
  BY <1>1 DEF Successes
<1>4. Day(now) \in Nat /\ job.id \in Names /\ s.count \in Nat
  BY DaysPass, RhythmConstants DEF States
<1>5. Cardinality(OnDay(new, s.day)) = Cardinality(OnDay(turns, s.day)) + 1 /\ Cardinality(OnDay(turns, s.day)) \in Nat
  BY <1>1, CountedOnItsDay
<1> HIDE DEF e, new, u
<1>6. Cardinality(OnDay(new, u.day)) <= u.count
  BY <1>2, <1>4, <1>5 DEF Books
<1>7. Covers(u, e)
  BY <1>1, <1>2, <1>4 DEF Covers
<1>8. ASSUME NEW i \in DOMAIN turns PROVE Covers(u, turns[i])
  <2>0. turns[i] \in [job : Jobs, at : Nat]
    BY Elements DEF Successes
  <2>1. turns[i].job \in Jobs /\ turns[i].at \in Nat
    BY <2>0
  <2>2. turns[i].job.id \in Names
    BY <2>1, RhythmConstants
  <2>3. Covers(s, turns[i]) /\ turns[i].at <= now
    BY DEF Books
  <2> QED BY <1>2, <2>1, <2>2, <2>3 DEF Covers
<1>9. \A i \in DOMAIN new : Covers(u, new[i])
  BY <1>3, <1>7, <1>8
<1> QED BY <1>6, <1>9 DEF Books, u, new, e

\* What a step that adds no success has to keep.
LEMMA OrderlyKept ==
  ASSUME Orderly, done' = done, time \in Nat, time' \in Nat, time <= time',
         (\A p \in Pids : ~Saving(p)') => Books(Loaded', done),
         \A p, q \in Pids : Busy(p)' /\ Busy(q)' => p = q,
         \A p \in Pids : Busy(p)' => Entered(tick'[p], done)
  PROVE  Orderly'
<1>1. \A i \in DOMAIN done' : done'[i].at \in 1..time'
  BY DEF Orderly
<1>2. InOrder(done') /\ Limited(done')
  BY DEF Orderly
<1>3. (\A p \in Pids : ~Saving(p)') => Books(Loaded', done')
  OBVIOUS
<1>4. \A p \in Pids : Busy(p)' => Entered(tick'[p], done')
  OBVIOUS
<1> QED BY <1>1, <1>2, <1>3, <1>4 DEF Orderly

\* The tick of p comes to rest or goes on with the same books, while the file
\* stays as it is.
LEMMA OrderlyMoves ==
  ASSUME Orderly, done' = done, time \in Nat, time' = time, store' = store, NEW p \in Pids, TickMoved(p),
         ~Saving(p), Busy(p)' => Busy(p) /\ Entered(tick'[p], done)
  PROVE  Orderly'
<1>1. \A q \in Pids \ {p} : (Busy(q)' <=> Busy(q)) /\ (Saving(q)' <=> Saving(q)) /\ tick'[q] = tick[q]
  BY DEF TickMoved, Busy, Saving, AtPc
<1>2. Loaded' = Loaded
  BY DEF Loaded
<1>3. (\A q \in Pids : ~Saving(q)') => Books(Loaded', done)
  BY <1>1, <1>2 DEF Orderly
<1>4. \A q, r \in Pids : Busy(q)' /\ Busy(r)' => q = r
  BY <1>1 DEF Orderly
<1>5. \A q \in Pids : Busy(q)' => Entered(tick'[q], done)
  BY <1>1 DEF Orderly
<1> QED BY <1>3, <1>4, <1>5, OrderlyKept

LEMMA OrderlyLoad ==
  ASSUME JobsDiffer, Ticking, Orderly, ~spoiled', NEW p \in Pids, Load(p), ~Exits(p)
  PROVE  Orderly'
<1>1. /\ TickMoved(p) /\ AtPc(p, "start") /\ AtPc(p, "next")' /\ tick'[p].jobs = plan.jobs
      /\ tick'[p].perDay = plan.perDay /\ tick'[p].due = Due(plan, Prepared(Loaded), time)
      /\ tick'[p].state = Prepared(Loaded) /\ tick'[p].now = time
      /\ Note(\E q \in Pids \ {p} : Busy(q), done)
  BY LoadMoves DEF Stays, AtPc
<1>2. done' = done /\ \A q \in Pids \ {p} : ~Busy(q)
  BY <1>1 DEF Note
<1>3. store' = store /\ time' = time /\ time \in Nat /\ plan \in Plans
  BY RhythmConstants DEF Load, files, Ticking, RhythmTypeOK
<1>4. \A q \in Pids : ~Saving(q) /\ ~Saving(q)' /\ (q # p => ~Busy(q)')
  BY <1>1, <1>2 DEF TickMoved, Saving, Busy, AtPc
<1>5. Books(Loaded, done) /\ \A i \in DOMAIN done : done[i].at \in 1..time
  BY <1>4 DEF Orderly
<1>6. Books(Prepared(Loaded), done) /\ Prepared(Loaded) \in States
  BY <1>5, PreparedBooks, LoadedIsState
<1>7. Entered(tick'[p], done)
  <2>1. \A m, n \in DOMAIN plan.jobs : plan.jobs[m] = plan.jobs[n] => m = n
    BY <1>3 DEF JobsDiffer
  <2>2. ASSUME NEW n \in Due(plan, Prepared(Loaded), time), NEW i \in DOMAIN done
        PROVE  Fits(done[i], [job |-> plan.jobs[n], at |-> time])
    <3>1. done[i] \in [job : Jobs, at : Nat]
      BY Elements DEF Ticking, RhythmTypeOK
    <3>2. Covers(Prepared(Loaded), done[i]) /\ done[i].at \in 1..time
      BY <1>5, <1>6 DEF Books
    <3> QED BY <1>3, <1>6, <3>1, <3>2, DueJobsFit
  <2>3. \A i \in DOMAIN done : done[i].at <= time
    BY <1>5
  <2>4. tick'[p].pc # "turn"
    BY <1>1 DEF AtPc
  <2> QED BY <1>1, <1>3, <1>6, <2>1, <2>2, <2>3, <2>4 DEF Entered
<1>8. Loaded' = Loaded
  BY <1>3 DEF Loaded
<1> QED BY <1>2, <1>3, <1>4, <1>5, <1>7, <1>8, OrderlyKept

LEMMA OrderlySuccess ==
  ASSUME Ticking, Orderly, ~spoiled', NEW p \in Pids, TurnSucceeds(p)
  PROVE  Orderly'
<1>1. PICK t \in Ticks : t = tick[p] /\ Placed(t) /\ t.pc = "turn"
  BY DEF TurnSucceeds, AtPc, Ticking, RhythmTypeOK
<1> DEFINE job == Current(t)
           e == [job |-> job, at |-> t.now]
           new == Append(done, e)
<1>2. ~t.orphan /\ done' = new
  BY <1>1 DEF TurnSucceeds, Note
<1>3. /\ Min(t.due) \in t.due /\ Min(t.due) \in DOMAIN t.jobs /\ job = t.jobs[Min(t.due)] /\ job \in Jobs
      /\ Rest(t) \subseteq t.due /\ Min(t.due) \notin Rest(t) /\ t.due \subseteq DOMAIN t.jobs
  BY <1>1, CurrentIsJob DEF Placed
<1>4. t.state \in States /\ t.state.day = Day(t.now) /\ t.now \in 1..time /\ time \in Nat /\ t.now \in Nat
      /\ done \in Successes
  BY <1>1, RhythmConstants DEF Placed, Working, Ticking, RhythmTypeOK, Successes
<1>5. Busy(p) /\ Entered(t, done)
  BY <1>1, RhythmConstants DEF Busy, Orderly
<1>6. /\ tick'[p] # Absent /\ tick'[p].pc = "save" /\ tick'[p].jobs = t.jobs /\ tick'[p].due = Rest(t)
      /\ tick'[p].perDay = t.perDay /\ tick'[p].state = Recorded(t.state, job, t.now) /\ tick'[p].now = t.now
      /\ \A q \in Pids \ {p} : tick'[q] = tick[q]
  <2>1. Set(p, [tick[p] EXCEPT !.pc = "save", !.due = Rest(tick[p]), !.state = Recorded(@, Current(tick[p]), tick[p].now)])
    BY <1>1, <1>2 DEF TurnSucceeds
  <2>2. ~Exits(p)
    <3> SUFFICES ASSUME Exits(p) PROVE FALSE
      OBVIOUS
    <3> DEFINE rest == Rest(t)
               s == Recorded(t.state, job, t.now)
               u == [t EXCEPT !.pc = "save", !.due = rest, !.state = s]
    <3>1. tick'[p] = u
      BY <1>1, <2>1 DEF Set, Ticking, RhythmTypeOK
    <3>2. s \in States /\ rest \in SUBSET Nat
      BY <1>3, <1>4, RecordedIsState DEF Ticks
    <3> HIDE DEF rest, s
    <3>3. u \in Ticks /\ u.pc = "save"
      BY <3>2 DEF Ticks
    <3> HIDE DEF u
    <3>4. u # Absent /\ (IF Child(p) THEN Fresh("exited", "app") ELSE Absent) = u
      BY <3>1, <3>3, ExitsMove, RhythmConstants
    <3> QED BY <3>3, <3>4, FreshTicks
  <2> QED BY <1>1, <2>2, TurnSucceedsMoves DEF Stays, TickMoved
<1>7. e \in [job : Jobs, at : Nat] /\ e.job = job /\ e.at = t.now /\ Len(done) \in Nat
      /\ DOMAIN done = 1..Len(done) /\ DOMAIN new = 1..(Len(done) + 1) /\ new[Len(done) + 1] = e
      /\ \A i \in 1..Len(done) : new[i] = done[i]
  BY <1>3, <1>4 DEF Successes
<1>8. \A i \in DOMAIN done : done[i].at \in 1..time /\ done[i].at <= t.now /\ Fits(done[i], e)
  BY <1>3, <1>5 DEF Orderly, Entered
<1>9. Books(Recorded(t.state, job, t.now), new)
  BY <1>3, <1>4, <1>5, <1>8, RecordedBooks DEF Entered
<1>10. Limited(new)
  <2> SUFFICES ASSUME NEW d \in Days PROVE \E pl \in Plans : Cardinality(OnDay(new, d)) <= pl.perDay
    BY DEF Limited
  <2>1. CASE Day(t.now) = d
    <3>1. PICK pl \in Plans : t.perDay = pl.perDay
      BY <1>5 DEF Entered
    <3>2. Cardinality(OnDay(done, d)) <= t.state.count /\ t.state.count < t.perDay
      BY <1>1, <1>4, <1>5, <2>1 DEF Entered, Books
    <3>3. Cardinality(OnDay(new, d)) = Cardinality(OnDay(done, d)) + 1 /\ Cardinality(OnDay(done, d)) \in Nat
      BY <1>4, <1>7, <2>1, CountedOnItsDay
    <3>4. t.state.count \in Nat /\ pl.perDay \in Nat
      BY <1>4, RhythmConstants DEF States
    <3> QED BY <3>1, <3>2, <3>3, <3>4
  <2>2. CASE Day(t.now) # d
    BY <1>4, <1>7, <2>2, CountedOnItsDay DEF Orderly, Limited
  <2> QED BY <2>1, <2>2
<1>11. InOrder(new)
  <2> SUFFICES ASSUME NEW i \in DOMAIN new, NEW j \in DOMAIN new, i < j PROVE Fits(new[i], new[j])
    BY DEF InOrder
  <2>1. i \in 1..Len(done) /\ (j \in 1..Len(done) \/ j = Len(done) + 1)
    BY <1>7
  <2> QED BY <1>7, <1>8, <2>1 DEF Orderly, InOrder
<1>12. Entered(tick'[p], new)
  <2>1. ASSUME NEW n \in Rest(t), NEW i \in DOMAIN new PROVE Fits(new[i], [job |-> t.jobs[n], at |-> t.now])
    <3>1. CASE i \in 1..Len(done)
      BY <1>3, <1>5, <1>7, <3>1 DEF Entered
    <3>2. CASE i = Len(done) + 1
      <4>1. t.jobs[n] # job
        BY <1>3, <1>5 DEF Entered
      <4> QED BY <1>7, <3>2, <4>1 DEF Fits, Spaced
    <3> QED BY <1>7, <3>1, <3>2
  <2>2. \A i \in DOMAIN new : new[i].at <= t.now
    BY <1>4, <1>7, <1>8
  <2> QED BY <1>5, <1>6, <1>9, <2>1, <2>2 DEF Entered
<1>13. \A i \in DOMAIN new : new[i].at \in 1..time
  BY <1>4, <1>7, <1>8
<1>14. Saving(p)' /\ \A q \in Pids \ {p} : ~Busy(q)'
  <2>1. \A q \in Pids \ {p} : ~Busy(q)
    BY <1>5 DEF Orderly
  <2> QED BY <1>6, <2>1 DEF Saving, AtPc, Busy
<1>15. time' = time
  BY DEF TurnSucceeds
<1> HIDE DEF new
<1> QED BY <1>2, <1>10, <1>11, <1>12, <1>13, <1>14, <1>15 DEF Orderly

\* A tick that does not save goes on with what it had entered.
LEMMA SameEntries ==
  ASSUME NEW t, NEW u, NEW turns, Entered(t, turns), u.state = t.state, u.perDay = t.perDay, u.jobs = t.jobs,
         u.due \subseteq t.due, u.now = t.now, u.pc = "turn" => t.state.count < t.perDay
  PROVE  Entered(u, turns)
BY DEF Entered

\* A tick that ends before it has begun to save leaves good books.
LEMMA OrderlyExit ==
  ASSUME Ticking, Orderly, done' = done, time' = time, store' = store, NEW p \in Pids, Exits(p), ~Saving(p)
  PROVE  Orderly'
<1>1. TickMoved(p) /\ tick'[p] = IF Child(p) THEN Fresh("exited", "app") ELSE Absent
  BY ExitsMove
<1>2. ~Busy(p)'
  BY <1>1, FreshTicks DEF Busy
<1>3. time \in Nat
  BY RhythmConstants DEF Ticking, RhythmTypeOK
<1> QED BY <1>1, <1>2, <1>3, OrderlyMoves

LEMMA OrderlyNew ==
  ASSUME Ticking, Orderly, done' = done, time' = time, store' = store, NEW p \in Pids, NEW by \in {"app", "cron"},
         tick[p] = Absent, NewTick(p, by)
  PROVE  Orderly'
<1>1. TickMoved(p) /\ tick'[p] = Fresh("start", by)
  BY NewTickMoves
<1>2. ~Busy(p)' /\ ~Saving(p)
  BY <1>1, FreshTicks DEF Busy, Saving, AtPc
<1>3. time \in Nat
  BY RhythmConstants DEF Ticking, RhythmTypeOK
<1> QED BY <1>1, <1>2, <1>3, OrderlyMoves

LEMMA OrderlyStep ==
  ASSUME JobsDiffer, Ticking, Orderly, ~spoiled, ~spoiled', [RhythmNext]_rhythm
  PROVE  Orderly'
<1>0. time \in Nat /\ \A p \in Pids : Busy(p) => Entered(tick[p], done)
  BY RhythmConstants DEF Ticking, RhythmTypeOK, Orderly
<1>s. ASSUME done' = done, time' \in Nat, time <= time', store' = store, tick' = tick PROVE Orderly'
  <2>1. Loaded' = Loaded /\ \A p \in Pids : (Saving(p)' <=> Saving(p)) /\ (Busy(p)' <=> Busy(p))
    BY <1>s DEF Loaded, Saving, Busy, AtPc
  <2> QED BY <1>0, <1>s, <2>1, OrderlyKept DEF Orderly
<1>1. CASE Heartbeat
  BY <1>1, OrderlyNew DEF Heartbeat, files, account
<1>2. CASE UserActs
  BY <1>0, <1>2, <1>s DEF UserActs, SetWorkspace, Toggle, SaveSchedule, SaveSettings, files, account
<1>3. CASE Quit
  <2>1. done' = done /\ time' = time /\ store' = store
    BY <1>3 DEF Quit, files, account
  <2>2. Loaded' = Loaded
    BY <2>1 DEF Loaded
  <2>3. ASSUME NEW p \in Pids
        PROVE  /\ Saving(p)' <=> Saving(p)
               /\ Busy(p)' => Busy(p) /\ Entered(tick'[p], done)
    <3>1. Saving(p)' <=> Saving(p)
      BY <1>3, QuitMoves DEF Saving, AtPc
    <3>2. ASSUME Busy(p)' PROVE Busy(p) /\ Entered(tick'[p], done)
      <4>1. Busy(p) /\ tick'[p] # Absent
        BY <1>3, <3>2, QuitMoves DEF Busy
      <4>2. Entered(tick[p], done)
        BY <1>0, <4>1
      <4>3. tick[p].pc = "turn" => tick[p].state.count < tick[p].perDay
        BY <4>2 DEF Entered
      <4> QED BY <1>3, <4>1, <4>2, <4>3, QuitMoves, SameEntries
    <3> QED BY <3>1, <3>2
  <2> QED BY <1>0, <2>1, <2>2, <2>3, OrderlyKept DEF Orderly
<1>4. CASE Launch
  BY <1>0, <1>4, <1>s DEF Launch, files, account
<1>5. CASE Cron
  BY <1>5, OrderlyNew DEF Cron, files, account
<1>6. CASE Pass
  BY <1>0, <1>6, <1>s DEF Pass, files, account
<1>7. ASSUME NEW p \in Pids, Run(p) PROVE Orderly'
  <2>1. CASE Load(p)
    <3>1. CASE Exits(p)
      <4>1. ~Saving(p) /\ time' = time /\ store' = store
        BY <2>1 DEF Load, Saving, AtPc, files
      <4>2. done' = done
        BY <2>1 DEF Load, Note, account
      <4> QED BY <3>1, <4>1, <4>2, OrderlyExit
    <3> QED BY <2>1, <3>1, OrderlyLoad
  <2>2. CASE NextJob(p)
    <3>1. ~Saving(p) /\ time' = time /\ store' = store /\ done' = done
      BY <2>2 DEF NextJob, Saving, AtPc, files, account
    <3>2. CASE ~Exits(p)
      <4>1. TickMoved(p) /\ Busy(p) /\ tick[p].state.count < tick[p].perDay
        BY <2>2, <3>2, NextJobMoves DEF Busy, Stays
      <4>2. Entered(tick'[p], done)
        BY <1>0, <2>2, <3>2, <4>1, NextJobMoves, SameEntries
      <4> QED BY <1>0, <3>1, <4>1, <4>2, OrderlyMoves
    <3> QED BY <3>1, <3>2, OrderlyExit
  <2>3. CASE TurnSucceeds(p)
    BY <2>3, OrderlySuccess
  <2>4. CASE TurnFails(p)
    <3>1. ~Saving(p) /\ time' = time /\ store' = store /\ done' = done
      BY <2>4 DEF TurnFails, Saving, AtPc, files, account
    <3>2. CASE ~Exits(p)
      <4>1. TickMoved(p) /\ Busy(p) /\ tick'[p].pc # "turn"
        BY <2>4, <3>2, TurnFailsMoves DEF Busy, Stays
      <4>2. Entered(tick'[p], done)
        BY <1>0, <2>4, <3>2, <4>1, TurnFailsMoves, SameEntries
      <4> QED BY <1>0, <3>1, <4>1, <4>2, OrderlyMoves
    <3> QED BY <3>1, <3>2, OrderlyExit
  <2>5. CASE Truncate(p) \/ Write(p)
    <3>1. done' = done /\ time' = time
      BY <2>5 DEF Truncate, Write, account
    <3>2. TickMoved(p) /\ Busy(p) /\ tick'[p].pc # "turn"
      BY <2>5, SavingMoves DEF Busy, Stays
    <3>3. Entered(tick[p], done) /\ Entered(tick'[p], done)
      BY <1>0, <2>5, <3>2, SavingMoves, SameEntries
    <3>4. \A q \in Pids \ {p} : ~Busy(q) /\ ~Busy(q)'
      BY <3>2 DEF Orderly, TickMoved, Busy
    <3>5. (\A q \in Pids : ~Saving(q)') => Books(Loaded', done)
      <4>1. CASE Truncate(p)
        <5>1. Saving(p)'
          BY <4>1, SavingMoves DEF Saving, AtPc, Stays
        <5> QED BY <5>1
      <4>2. CASE Write(p)
        <5>1. Placed(tick[p]) /\ tick[p].pc = "write"
          BY <4>2 DEF Write, AtPc, Ticking
        <5>2. store' = tick[p].state /\ store' # Absent
          BY <4>2, <5>1, RhythmConstants DEF Write, Placed, Working
        <5>3. Loaded' = tick[p].state
          BY <5>2 DEF Loaded
        <5> QED BY <3>3, <5>3 DEF Entered
      <4> QED BY <2>5, <4>1, <4>2
    <3> QED BY <1>0, <3>1, <3>3, <3>4, <3>5, OrderlyKept
  <2>6. CASE ChildEnded(p)
    <3>1. Set(p, Absent) /\ ~Saving(p) /\ time' = time /\ store' = store /\ done' = done
      BY <2>6 DEF ChildEnded, Set, Saving, AtPc, files, account
    <3>2. TickMoved(p) /\ tick'[p] = Absent
      BY <3>1, OneTickMoves
    <3> QED BY <1>0, <3>1, <3>2, OrderlyMoves DEF Busy
  <2> QED BY <1>7, <2>1, <2>2, <2>3, <2>4, <2>5, <2>6 DEF Run, ChatTurn
<1>8. ASSUME NEW p \in Pids, Crash(p) PROVE Orderly'
  <2>1. ~Saving(p) /\ done' = done
    BY <1>8 DEF Crash, Note, Saving, AtPc
  <2>2. Exits(p) /\ time' = time /\ store' = store
    BY <1>8 DEF Crash, files
  <2> QED BY <2>1, <2>2, OrderlyExit
<1>9. CASE UNCHANGED rhythm
  BY <1>0, <1>9, <1>s DEF rhythm, files, account
<1> QED BY <1>1, <1>2, <1>3, <1>4, <1>5, <1>6, <1>7, <1>8, <1>9 DEF RhythmNext

LEMMA OrderlyInit == ASSUME RhythmInit PROVE Orderly
<1>1. done = <<>> /\ DOMAIN done = {} /\ plan \in Plans /\ \A p \in Pids : ~Busy(p)
  BY DEF RhythmInit, Busy
<1>2. \A d : OnDay(done, d) = {}
  BY <1>1 DEF OnDay
<1>3. \A d : Cardinality(OnDay(done, d)) = 0
  BY <1>2, FS_EmptySet
<1>4. Limited(done)
  BY <1>1, <1>3, RhythmConstants DEF Limited
<1>5. Loaded.count = 0
  BY DEF RhythmInit, Loaded
<1>6. Books(Loaded, done)
  BY <1>1, <1>3, <1>5 DEF Books
<1> QED BY <1>1, <1>4, <1>6 DEF Orderly, InOrder

\* A step never takes back that the history is spoiled.
LEMMA SpoiledStays == ASSUME [RhythmNext]_rhythm PROVE spoiled => spoiled'
BY DEF RhythmNext, Heartbeat, UserActs, Quit, Launch, Cron, Pass, Run, ChatTurn, Load, NextJob, TurnSucceeds,
       TurnFails, Truncate, Write, ChildEnded, Crash, Note, account, rhythm

-----------------------------------------------------------------------------
(* The theorems. *)

\* The files, the heartbeat's state and the ticks keep their types.
THEOREM RhythmTypeCorrect == RhythmSpec => []RhythmTypeOK
<1>1. RhythmInit => Ticking
  BY TickingInit
<1>2. Ticking /\ [RhythmNext]_rhythm => Ticking'
  BY TickingStep
<1>3. Ticking => RhythmTypeOK
  BY DEF Ticking
<1> QED BY <1>1, <1>2, <1>3, PTL DEF RhythmSpec

\* The desktop has one tick at a time and its flag is up exactly while it does.
THEOREM OneChildHolds == RhythmSpec => []OneChild
<1>1. RhythmInit => Ticking /\ Attended
  <2> SUFFICES ASSUME RhythmInit PROVE Attended
    BY TickingInit
  <2> QED BY DEF RhythmInit, Attended, Child, AtPc
<1>2. Ticking /\ Attended /\ [RhythmNext]_rhythm => (Ticking /\ Attended)'
  BY TickingStep, AttendedStep
<1>3. Ticking /\ Attended => OneChild
  BY AtMostOneChild
<1> QED BY <1>1, <1>2, <1>3, PTL DEF RhythmSpec

\* If no plan lists a job twice, the times, intervals, gap and daily limit of
\* the schedule are kept until ticks overlap or a record is lost.
THEOREM SchedulesAreKept == JobsDiffer => (RhythmSpec => []SchedulesKept)
<1> SUFFICES ASSUME JobsDiffer PROVE RhythmSpec => []SchedulesKept
  OBVIOUS
<1> DEFINE Inv == Ticking /\ (~spoiled => Orderly)
<1>1. RhythmInit => Inv
  BY TickingInit, OrderlyInit
<1>2. Inv /\ [RhythmNext]_rhythm => Inv'
  BY TickingStep, OrderlyStep, SpoiledStays
<1>3. Inv => SchedulesKept
  BY OrderlyKeepsSchedules DEF SchedulesKept
<1> QED BY <1>1, <1>2, <1>3, PTL DEF RhythmSpec
=============================================================================
