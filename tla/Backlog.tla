------------------------------ MODULE Backlog ------------------------------
(* The evolution backlog of skilllite: which proposal an evolution run carries
   out, and what the table evolution_backlog says about it.  Runs come from the
   timers of chat processes (not forced), from `skilllite evolution run` by a
   user or by the desktop heartbeat (forced), with or without a proposal id, and
   from the desktop when the user authorizes the evolution of a capability.

   Every process has its own connection and nothing is in a transaction.  A row
   is found by its dedupe key, of which the source, the scope and the risk are
   part.  Proposal ids are timestamps in milliseconds: the two proposals of one
   run may share theirs.  The learners are modelled by EvolutionRun; here a run
   ends with changes, without, or not at all.  When the interval of a timer has
   passed is left open, and the acceptance columns are left out.               *)
EXTENDS Integers, FiniteSets

CONSTANTS Procs,                               \* processes that run evolution
          PassiveKeys, ActiveKeys, UserKeys,   \* dedupe keys by where they come from
          Risk,                                \* of each key: "low" or "medium"
          Policy,                              \* SKILLLITE_EVO_POLICY_RUNTIME_ENABLED
          AutoLowRisk,                         \* SKILLLITE_EVO_AUTO_EXECUTE_LOW_RISK
          Budget,                              \* executions per day, for each risk
          MinStable,                           \* decisions an active proposal needs
          SignalMin,                           \* decisions that make growth due
          DailyCap,                            \* SKILLLITE_MAX_EVOLUTIONS_PER_DAY
          MaxIds, MaxPending, MaxDays, MaxAborts,    \* bounds
          None

Keys == PassiveKeys \cup ActiveKeys \cup UserKeys
Ids == 1..MaxIds
NoId == 0
Rows == [id : Ids, status : {"queued", "executing", "executed"}, day : 1..MaxDays]
Runs == [pc : {"start", "judge", "mark", "run"}, force : BOOLEAN, id : Ids \cup {NoId},
         sel : [id : Ids, key : Keys] \cup {None}, action : {"none", "allow", "ask"}]

ASSUME KeysAssumption ==
  /\ Risk \in [Keys -> {"low", "medium"}]
  /\ \A k \in PassiveKeys : Risk[k] = "medium"
  /\ \A k \in ActiveKeys : Risk[k] = "low"
  /\ PassiveKeys \cap ActiveKeys = {} /\ UserKeys \cap (PassiveKeys \cup ActiveKeys) = {}
ASSUME ConfigAssumption ==
  /\ Policy \in BOOLEAN /\ AutoLowRisk \in BOOLEAN
  /\ Budget \in [{"low", "medium"} -> Nat]
  /\ {MinStable, SignalMin, DailyCap} \subseteq Nat \ {0}
ASSUME BoundsAssumption == {MaxIds, MaxPending, MaxAborts} \subseteq Nat /\ MaxDays \in Nat \ {0}
ASSUME NoneAssumption == None \notin Keys \cup Rows \cup Runs /\ None \notin [id : Ids, key : Keys]

VARIABLES rows,        \* evolution_backlog
          authorized,  \* the log of authorizations: key by proposal id
          decided,     \* decisions table: there are recent ones
          pending,     \* those that no run has used
          today, runsToday,    \* the day and its rows in evolution_log
          cooling,     \* the last run with changes is recent
          proc,        \* the runs in progress
          lastId, aborts,
          abandoned,   \* history: ids whose run ended without a result
          executions   \* history: unforced executions of this day, by risk

clock == <<today, runsToday, cooling>>
table == <<rows, lastId>>
history == <<abandoned, executions>>
decisions == <<decided, pending>>
vars == <<rows, authorized, decisions, clock, proc, lastId, aborts, history>>

Init ==
  /\ rows = [k \in Keys |-> None]
  /\ authorized = [i \in Ids |-> None]
  /\ decided = FALSE /\ pending = 0
  /\ today = 1 /\ runsToday = 0 /\ cooling = FALSE
  /\ proc = [p \in Procs |-> None]
  /\ lastId = 0 /\ aborts = 0
  /\ abandoned = {}
  /\ executions = [r \in {"low", "medium"} |-> 0]

-----------------------------------------------------------------------------
(* The table. *)

HasId(rs, i) == \E k \in Keys : rs[k] # None /\ rs[k].id = i
Proposal(i, k) == [id |-> i, key |-> k]

\* INSERT OR IGNORE on two unique columns, then an update of what is not executed.
Upsert(rs, pr) ==
  IF rs[pr.key] = None
  THEN IF HasId(rs, pr.id) THEN rs
       ELSE [rs EXCEPT ![pr.key] = [id |-> pr.id, status |-> "queued", day |-> today]]
  ELSE IF rs[pr.key].status = "executed" THEN rs ELSE [rs EXCEPT ![pr.key].day = today]

\* Mutation: the status is set by key, whoever owns the row.
SetStatusByKey(rs, pr, status) ==
  IF rs[pr.key] = None THEN rs ELSE [rs EXCEPT ![pr.key].status = status, ![pr.key].day = today]

\* set_backlog_status: by proposal id, which may be in no row.
SetStatus(rs, pr, status) ==
  [k \in Keys |-> IF rs[k] # None /\ rs[k].id = pr.id
                  THEN [rs[k] EXCEPT !.status = status, !.day = today] ELSE rs[k]]

\* count_daily_executions_by_risk.
Consumed(risk) ==
  Cardinality({k \in Keys : rows[k] # None /\ Risk[k] = risk /\ rows[k].day = today
                            /\ rows[k].status \in {"executing", "executed"}})

\* Mutation: a proposal without budget is denied.
JudgeDenies(k) == IF Consumed(Risk[k]) < Budget[Risk[k]] THEN "allow" ELSE "deny"

\* evaluate_policy_runtime; without the policy runtime everything is executed.
Judge(k) ==
  IF ~Policy THEN "allow"
  ELSE IF Consumed(Risk[k]) < Budget[Risk[k]] /\ Risk[k] = "low" /\ AutoLowRisk THEN "allow" ELSE "ask"

-----------------------------------------------------------------------------
(* Runs. *)

NewRun(force, id) == [pc |-> "start", force |-> force, id |-> id, sel |-> None, action |-> "ask"]

At(p, pc) == proc[p] # None /\ proc[p].pc = pc
Ends(p) == proc' = [proc EXCEPT ![p] = None]

PassiveOpen(force) == decided /\ runsToday < DailyCap /\ (force \/ ~cooling)
ActiveOpen == pending >= MinStable

\* A chat process: enough signals, or the interval and something to propose.
TimerFires(p) ==
  /\ proc[p] = None
  /\ pending >= SignalMin \/ PassiveOpen(FALSE) \/ ActiveOpen
  /\ proc' = [proc EXCEPT ![p] = NewRun(FALSE, NoId)]
  /\ UNCHANGED <<table, authorized, decisions, clock, aborts, history>>

\* evolution run, by the user or, when signals make growth due, the heartbeat.
RunAll(p) ==
  /\ proc[p] = None
  /\ proc' = [proc EXCEPT ![p] = NewRun(TRUE, NoId)]
  /\ UNCHANGED <<table, authorized, decisions, clock, aborts, history>>

\* evolution run --proposal-id, for an id the user was shown.
RunById(p) == \E i \in Ids :
  /\ proc[p] = None
  /\ HasId(rows, i) \/ authorized[i] # None
  /\ proc' = [proc EXCEPT ![p] = NewRun(TRUE, i)]
  /\ UNCHANGED <<table, authorized, decisions, clock, aborts, history>>

\* The desktop: queue the capability, log it, start a run for it.  The id is in
\* the environment of the child, where `evolution run` removes it.
Authorize(p) == \E k \in UserKeys :
  LET new == lastId + 1
      rs == Upsert(rows, Proposal(new, k))
      id == IF rs[k] # None /\ rs[k].status # "executed" THEN rs[k].id ELSE new IN
  /\ proc[p] = None /\ new \in Ids
  /\ rows' = rs /\ lastId' = new
  /\ authorized' = [authorized EXCEPT ![id] = k]
  /\ proc' = [proc EXCEPT ![p] = NewRun(TRUE, NoId)]
  /\ UNCHANGED <<decisions, clock, aborts, history>>

Select(p, pr, action) ==
  proc' = [proc EXCEPT ![p].sel = pr, ![p].action = action, ![p].pc = IF action = "none" THEN "judge" ELSE "mark"]

\* Mutation: a stale id falls back to any queued row.
FindAny(i) == {k \in Keys : rows[k] # None /\ (rows[k].id = i \/ rows[k].status = "queued")}

\* The row of an id, or by the log of authorizations the queued row of its key.
Find(i) ==
  IF HasId(rows, i) THEN {k \in Keys : rows[k] # None /\ rows[k].id = i}
  ELSE {k \in UserKeys : authorized[i] = k /\ rows[k] # None /\ rows[k].status # "executed"}

\* A run for one id: that proposal or nothing.
CollectById(p) ==
  /\ At(p, "start") /\ proc[p].id # NoId
  /\ IF Find(proc[p].id) = {} THEN Ends(p) /\ UNCHANGED rows
     ELSE \E k \in Find(proc[p].id) :
            LET pr == Proposal(rows[k].id, k) IN rows' = Upsert(rows, pr) /\ Select(p, pr, "allow")
  /\ UNCHANGED <<authorized, decisions, clock, lastId, aborts, history>>

\* Passive and active proposals; the active one has the better return.
Collect(p) ==
  LET force == proc[p].force
      judged == IF force THEN "allow" ELSE "none" IN
  /\ At(p, "start") /\ proc[p].id = NoId
  /\ \E pk \in (IF PassiveOpen(force) THEN PassiveKeys ELSE {}) \cup {None},
        ak \in (IF ActiveOpen THEN ActiveKeys ELSE {None}), step \in {0, 1} :
       LET first == lastId + 1
           second == IF pk = None THEN first ELSE first + step
           withPassive == IF pk = None THEN rows ELSE Upsert(rows, Proposal(first, pk)) IN
       /\ second \in Ids
       /\ \/ pk = None /\ ak = None /\ Ends(p) /\ UNCHANGED table
          \/ /\ ak # None /\ rows' = Upsert(withPassive, Proposal(second, ak)) /\ lastId' = second
             /\ Select(p, Proposal(second, ak), judged)
          \/ /\ pk # None /\ ak = None /\ rows' = withPassive /\ lastId' = first
             /\ Select(p, Proposal(first, pk), judged)
  /\ UNCHANGED <<authorized, decisions, clock, aborts, history>>

Decide(p) ==
  /\ At(p, "judge")
  /\ Select(p, proc[p].sel, Judge(proc[p].sel.key))
  /\ UNCHANGED <<table, authorized, decisions, clock, aborts, history>>

\* The coordinator writes its decision; the run goes on or is over.
Mark(p) ==
  LET allowed == proc[p].action = "allow"
      risk == Risk[proc[p].sel.key] IN
  /\ At(p, "mark")
  /\ rows' = SetStatus(rows, proc[p].sel, IF allowed THEN "executing" ELSE "queued")
  /\ IF allowed THEN proc' = [proc EXCEPT ![p].pc = "run"] ELSE Ends(p)
  /\ executions' = IF allowed /\ ~proc[p].force /\ executions[risk] <= Budget[risk]
                    THEN [executions EXCEPT ![risk] = @ + 1] ELSE executions
  /\ UNCHANGED <<authorized, decisions, clock, lastId, aborts, abandoned>>

\* The row of evolution_log; the limit of the day is all that it is counted for.
Counted == IF runsToday < DailyCap THEN runsToday + 1 ELSE runsToday

\* The learners are done; decisions they read are used up.
Finish(p) == \E changed \in BOOLEAN, left \in 0..pending :
  /\ At(p, "run")
  /\ rows' = SetStatus(rows, proc[p].sel, "executed")
  /\ pending' = left
  /\ runsToday' = Counted
  /\ cooling' = (cooling \/ changed)
  /\ Ends(p)
  /\ UNCHANGED <<authorized, decided, today, lastId, aborts, history>>

\* Shallow preflight: nothing pending, so nothing is run, and nothing counted.
ShallowSkip(p) ==
  /\ At(p, "run") /\ ~proc[p].force /\ pending = 0 /\ proc[p].sel.key \notin UserKeys
  /\ rows' = SetStatus(rows, proc[p].sel, "executed")
  /\ Ends(p)
  /\ UNCHANGED <<authorized, decisions, clock, lastId, aborts, history>>

\* An error (the snapshot, the log) or the death of the process.
Abort(p) ==
  /\ proc[p] # None
  /\ aborts < MaxAborts /\ aborts' = aborts + 1
  /\ abandoned' = IF At(p, "run") THEN abandoned \cup {proc[p].sel.id} ELSE abandoned
  /\ Ends(p)
  /\ UNCHANGED <<table, authorized, decisions, clock, executions>>

\* A chat turn with tools.
Turn ==
  /\ pending < MaxPending /\ pending' = pending + 1 /\ decided' = TRUE
  /\ UNCHANGED <<table, authorized, clock, proc, aborts, history>>

CoolDown == cooling /\ cooling' = FALSE /\ UNCHANGED <<today, runsToday, executions>>
NewDay ==
  /\ today < MaxDays /\ today' = today + 1
  /\ runsToday' = 0 /\ executions' = [r \in {"low", "medium"} |-> 0]
  /\ UNCHANGED cooling

TimePasses == (CoolDown \/ NewDay) /\ UNCHANGED <<table, authorized, decisions, proc, aborts, abandoned>>

Step(p) == CollectById(p) \/ Collect(p) \/ Decide(p) \/ Mark(p) \/ Finish(p) \/ ShallowSkip(p)
Start(p) == TimerFires(p) \/ RunAll(p) \/ RunById(p) \/ Authorize(p)

Next == Turn \/ TimePasses \/ \E p \in Procs : Step(p) \/ Start(p) \/ Abort(p)

Spec == Init /\ [][Next]_vars

-----------------------------------------------------------------------------
(* Properties. *)

\* Types of the table and the runs.
TypeOK ==
  /\ rows \in [Keys -> Rows \cup {None}]
  /\ authorized \in [Ids -> UserKeys \cup {None}]
  /\ decided \in BOOLEAN /\ pending \in 0..MaxPending /\ today \in 1..MaxDays /\ runsToday \in Nat /\ cooling \in BOOLEAN
  /\ proc \in [Procs -> Runs \cup {None}]
  /\ lastId \in Ids \cup {NoId} /\ aborts \in 0..MaxAborts
  /\ abandoned \subseteq Ids /\ executions \in [{"low", "medium"} -> Nat]

Executing(p) == At(p, "run")

\* What a run carries out is warranted, whatever ids, rows and other processes
\* do: a run for one id takes that proposal, or the one its stale id was
\* authorized for, and never what happens to be proposed now; and under the
\* policy runtime a run that nobody asked for takes only what is of low risk.
RunsWarranted ==
  \A p \in Procs : proc[p] # None /\ proc[p].sel # None =>
    /\ proc[p].id # NoId => proc[p].sel.id = proc[p].id \/ authorized[proc[p].id] = proc[p].sel.key
    /\ Policy /\ Executing(p) /\ ~proc[p].force => Risk[proc[p].sel.key] = "low" /\ AutoLowRisk

ExecutingHasRun ==
  \A k \in Keys : rows[k] # None /\ rows[k].status = "executing" =>
    \/ \E p \in Procs : Executing(p) /\ proc[p].sel.id = rows[k].id
    \/ rows[k].id \in abandoned

OwnRun(id, p) == proc[p] # None /\ proc[p].sel # None /\ proc[p].sel.id = id

\* The status of a row follows the runs of its own proposal id, however two
\* processes insert and update rows of one key: a second run of the same kind of
\* proposal, whose id is in no row, takes no row over; a row shows as executing
\* only while a run of its id does, or after such a run ended without a result;
\* and what was executed is not queued again by a later proposal.
RowsFollowRuns ==
  [][ /\ \A k \in Keys : rows[k] # None /\ rows'[k] # rows[k] =>
           /\ rows'[k].id = rows[k].id
           /\ rows'[k].status # rows[k].status => \E p \in Procs : OwnRun(rows[k].id, p)
      /\ ExecutingHasRun' ]_vars

\* Documented: "Daily auto-execution budget for low-risk proposals".  No more
\* unattended executions in a day than the budget.
BudgetHolds == executions["low"] <= Budget["low"]
=============================================================================
