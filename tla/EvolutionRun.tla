---------------------------- MODULE EvolutionRun ----------------------------
(* Evolution runs of skilllite-evolution: run_evolution with its in-process
   flag, its snapshot, the learners that run side by side, the record and the
   automatic rollback, and the second rollback check that the chat session does
   after the run.  A process runs several sessions' timers at once; the
   database feedback.sqlite and the prompt, memory and skill files are shared
   by all processes of a workspace.

   An artefact's content is the set of runs (their txn_id, 0 for what was there
   before) whose changes it holds; a txn_id is the second the run began in.
   Marks inside a rule (disabled, reusable) are left out.  Of
   evolution_log only the version of the newest row is kept, which is all
   check_auto_rollback ever sees: every rollback marks the rows of the version
   it takes and then appends a row of its own, so the newest row is always
   unmarked.  The backlog, the daily cap and the thresholds decide only whether
   a run executes, and are a choice here.                                     *)
EXTENDS Integers, FiniteSets

CONSTANTS Procs,        \* operating system processes on one workspace
          Runs,         \* callers of run_evolution: timers, triggers, commands
          ProcOf,       \* the process each caller lives in
          Sessions,     \* the callers in chat_session.rs; the others force the run
          Scopes,       \* what a proposal may set out to evolve
          Absent,       \* artefacts the workspace does not have yet
          External,     \* SKILLLITE_EXTERNAL_LEARNING
          Keep,         \* SKILLLITE_EVOLUTION_SNAPSHOT_KEEP, 0 = all
          Window,       \* decisions a learner's query returns
          MaxNow, MaxStarts, MaxDecisions, MaxShifts  \* bounds of the instance

\* rules.json and examples.json, both in the scope of a prompt run, the memory
\* tree and the evolved skills.
Artefacts == {"rules", "examples", "memory", "skills"}

ASSUME RunsAssumption == ProcOf \in [Runs -> Procs] /\ Sessions \subseteq Runs
ASSUME ScopesAssumption ==
  /\ Scopes \subseteq (SUBSET Artefacts) \ {{}}
  /\ \A s \in Scopes : "rules" \in s <=> "examples" \in s
ASSUME AbsentAssumption == Absent \subseteq Artefacts \ {"rules"}
ASSUME ExternalAssumption == External \in BOOLEAN
ASSUME BoundsAssumption == {Keep, Window, MaxStarts, MaxDecisions, MaxShifts} \subseteq Nat /\ MaxNow \in Nat \ {0}

VARIABLES busy,      \* EVOLUTION_IN_PROGRESS of each process
          pc,        \* where each caller is in run_evolution
          scope,     \* scope of the run
          txn,       \* its txn_id
          ids,       \* scope.decision_ids, collected with the proposal
          pending,   \* learners not done; "reply": the prompt learner awaits the model
          base,      \* rules.json as the prompt learner read it
          retired,   \* the runs whose rules it retired just before
          changes,   \* all_changes, per artefact
          newest,    \* version of the newest row of evolution_log
          content,   \* the evolved files
          snaps,     \* prompts/_versions: txn_id -> copies
          recorded,  \* rows of decisions
          evolved,   \* those with evolved = 1
          declining, \* whether the daily metrics ask for a rollback
          now, starts, shifts

locals == <<pc, scope, txn, ids, pending, base, retired, changes>>
files == <<content, snaps>>
decisions == <<recorded, evolved>>
clock == <<declining, now, starts, shifts>>
vars == <<busy, locals, newest, files, decisions, clock>>

-----------------------------------------------------------------------------
(* Versions of log rows. *)

Blank == [kind |-> "blank", txn |-> 0]
Row(t) == [kind |-> "run", txn |-> t]
Undone(t) == [kind |-> "rollback", txn |-> t]
Txns == 0..MaxNow
Versions == [kind : {"blank", "run", "rollback"}, txn : Txns]

Decided == 1..recorded
Newest(S) == {d \in S : Cardinality({e \in S : e > d}) < Window}

\* Holding the flag of its process.
Holding(r) == pc[r] \in {"select", "snapshot", "learn", "external", "record", "judge", "finish"}

\* Past the coordinator, before the flag goes back.
Executing(r) == Holding(r) /\ pc[r] # "select"

At(r, here, there) == pc[r] = here /\ pc' = [pc EXCEPT ![r] = there]

\* Mutation: the error path of the rollback returns before finish_evolution.
KeepsFlag(r) == busy' = [busy EXCEPT ![ProcOf[r]] = pc[r] = "judge"]

Release(r) == busy' = [busy EXCEPT ![ProcOf[r]] = FALSE]

\* The call returns and its variables are gone.
Forget(S) ==
  /\ scope' = [r \in Runs |-> IF r \in S THEN {} ELSE scope[r]]
  /\ txn' = [r \in Runs |-> IF r \in S THEN 0 ELSE txn[r]]
  /\ ids' = [r \in Runs |-> IF r \in S THEN {} ELSE ids[r]]
  /\ pending' = [r \in Runs |-> IF r \in S THEN {} ELSE pending[r]]
  /\ base' = [r \in Runs |-> IF r \in S THEN {} ELSE base[r]]
  /\ retired' = [r \in Runs |-> IF r \in S THEN {} ELSE retired[r]]
  /\ changes' = [r \in Runs |-> IF r \in S THEN {} ELSE changes[r]]

Init ==
  /\ busy = [p \in Procs |-> FALSE]
  /\ pc = [r \in Runs |-> "idle"]
  /\ scope = [r \in Runs |-> {}]
  /\ txn = [r \in Runs |-> 0]
  /\ ids = [r \in Runs |-> {}]
  /\ pending = [r \in Runs |-> {}]
  /\ base = [r \in Runs |-> {}]
  /\ retired = [r \in Runs |-> {}]
  /\ changes = [r \in Runs |-> {}]
  /\ newest = Blank
  /\ content = [a \in Artefacts |-> IF a \in Absent THEN {} ELSE {0}]
  /\ snaps = <<>>
  /\ recorded = 0
  /\ evolved = {}
  /\ declining = FALSE
  /\ now = 1
  /\ starts = 0
  /\ shifts = 0

-----------------------------------------------------------------------------
(* Entering a run. *)

\* Mutation: no check of the flag.
AlwaysEnters(r) == TRUE

\* try_start_evolution.
MayEnter(r) == ~busy[ProcOf[r]]

\* A caller finds the flag free and takes it.
Enter(r) ==
  /\ starts < MaxStarts
  /\ At(r, "idle", "select")
  /\ MayEnter(r)
  /\ busy' = [busy EXCEPT ![ProcOf[r]] = TRUE]
  /\ starts' = starts + 1
  /\ UNCHANGED <<scope, txn, ids, pending, base, retired, changes, newest, files, decisions, declining, now, shifts>>

\* SkippedBusy: only an outcome row without a version is left.
Skip(r) ==
  /\ starts < MaxStarts
  /\ pc[r] = "idle"
  /\ ~MayEnter(r)
  /\ newest' = Blank
  /\ starts' = starts + 1
  /\ UNCHANGED <<busy, locals, files, decisions, declining, now, shifts>>

\* No proposal, a proposal queued or denied, or the shallow preflight: the run
\* ends with rows without a version.  A forced run executes when there is
\* any recent decision.
Decline(r) ==
  /\ At(r, "select", "idle")
  /\ r \in Sessions \/ recorded = 0
  /\ Release(r)
  /\ newest' = Blank
  /\ Forget({r})
  /\ UNCHANGED <<files, decisions, clock>>

\* The coordinator lets a proposal execute; the run takes the second as its
\* txn_id and logs its scope.
Execute(r) ==
  /\ At(r, "select", "snapshot")
  /\ recorded > 0
  /\ \E s \in Scopes :
       /\ scope' = [scope EXCEPT ![r] = s]
       /\ pending' = [pending EXCEPT ![r] = s]
  /\ txn' = [txn EXCEPT ![r] = now]
  /\ ids' = [ids EXCEPT ![r] = Decided]
  /\ changes' = [changes EXCEPT ![r] = {}]
  /\ newest' = Row(now)
  /\ UNCHANGED <<busy, base, retired, files, decisions, clock>>

-----------------------------------------------------------------------------
(* Snapshots. *)

\* Mutation: pruning removes one directory too many.
KeptOneLess(S) == IF Keep = 0 THEN S ELSE {t \in S : Cardinality({u \in S : u > t}) < Keep - 1}

\* prune_snapshots: the directories that stay, by name.
Kept(S) == IF Keep = 0 THEN S ELSE {t \in S : Cardinality({u \in S : u > t}) < Keep}

\* Examples, memory and skills are copied only if they are there.
Copied(r) == {a \in scope[r] : a = "rules" \/ content[a] # {}}

\* Copies left by a run of the same second.
Present(t) == IF t \in DOMAIN snaps THEN DOMAIN snaps[t] ELSE {}

\* The directory of the run, written over what it holds.
Copies(r) ==
  [a \in Copied(r) \cup Present(txn[r]) |-> IF a \in Copied(r) THEN content[a] ELSE snaps[txn[r]][a]]

\* create_extended_snapshot.
Snapshot(r) ==
  /\ At(r, "snapshot", "learn")
  /\ snaps' = [t \in Kept(DOMAIN snaps \cup {txn[r]}) |-> IF t = txn[r] THEN Copies(r) ELSE snaps[t]]
  /\ UNCHANGED <<busy, scope, txn, ids, pending, base, retired, changes, newest, content, decisions, clock>>

-----------------------------------------------------------------------------
(* Learners. *)

Learning(r) == pc[r] = "learn" /\ UNCHANGED <<pc, scope, txn, ids, busy, snaps, decisions, clock>>

\* What the prompt learner still has to do; it ends with the examples.
Prompts == {"rules", "reply", "examples"}

\* The runs whose rules retire_low_effectiveness_rules_with_conn may take out of
\* rules.json: which of them do badly is a choice, seed rules stay.
Retirable == content["rules"] \ {0}

\* evolve_prompts first retires rules, with a row for each; a run may also lose
\* a part of its rules only.  Then extract_rules_from_data reads the rest before
\* it asks the model ...
ReadRules(r) ==
  /\ Learning(r)
  /\ "rules" \in pending[r]
  /\ pending' = [pending EXCEPT ![r] = (@ \ {"rules"}) \cup {"reply"}]
  /\ \E some \in BOOLEAN : \E out \in IF some THEN SUBSET Retirable ELSE {{}} :
       /\ content' = [content EXCEPT !["rules"] = @ \ out]
       /\ base' = [base EXCEPT ![r] = content["rules"] \ out]
       /\ retired' = [retired EXCEPT ![r] = out]
       /\ changes' = [changes EXCEPT ![r] = IF some THEN @ \cup {"rules"} ELSE @]
       /\ newest' = IF some THEN Row(txn[r]) ELSE newest

\* The list that was read is gone once the answer is dealt with.
ForgetRules(r) ==
  /\ base' = [base EXCEPT ![r] = {}]
  /\ retired' = [retired EXCEPT ![r] = {}]

\* ... and writes that list with its additions when the answer comes.
WriteRules(r) ==
  /\ Learning(r)
  /\ "reply" \in pending[r]
  /\ pending' = [pending EXCEPT ![r] = @ \ {"reply"}]
  /\ content' = [content EXCEPT !["rules"] = base[r] \cup {txn[r]}]
  /\ changes' = [changes EXCEPT ![r] = @ \cup {"rules"}]
  /\ ForgetRules(r)
  /\ UNCHANGED newest

\* The answer holds no rule to add; one that does not parse leaves a row
\* without a version.
NoRules(r) ==
  /\ Learning(r)
  /\ "reply" \in pending[r]
  /\ pending' = [pending EXCEPT ![r] = @ \ {"reply"}]
  /\ newest' \in {newest, Blank}
  /\ ForgetRules(r)
  /\ UNCHANGED <<changes, content>>

\* The database, the file or the model fails: the prompt learner returns an
\* error, and what it did to the files so far is not among the changes.
PromptsFail(r) ==
  /\ Learning(r)
  /\ Prompts \cap pending[r] # {}
  /\ pending' = [pending EXCEPT ![r] = @ \ Prompts]
  /\ changes' = [changes EXCEPT ![r] = @ \ {"rules"}]
  /\ ForgetRules(r)
  /\ UNCHANGED <<newest, content>>

\* The learner of a may end: the examples come after the rules.
Due(r, a) ==
  /\ a \in pending[r] \ {"rules"}
  /\ a = "examples" => {"rules", "reply"} \cap pending[r] = {}

\* A new example, and what the memory and skill learners add to what is there.
Append(r, a) ==
  /\ Learning(r)
  /\ Due(r, a)
  /\ pending' = [pending EXCEPT ![r] = @ \ {a}]
  /\ content' = [content EXCEPT ![a] = @ \cup {txn[r]}]
  /\ changes' = [changes EXCEPT ![r] = @ \cup {a}]
  /\ UNCHANGED <<base, retired, newest>>

\* No example, or a learner that fails or finds nothing.
Barren(r, a) ==
  /\ Learning(r)
  /\ Due(r, a)
  /\ pending' = [pending EXCEPT ![r] = @ \ {a}]
  /\ newest' \in {newest, Blank}
  /\ UNCHANGED <<base, retired, changes, content>>

\* All learners joined.
Join(r) ==
  /\ At(r, "learn", "external")
  /\ pending[r] = {}
  /\ UNCHANGED <<busy, scope, txn, ids, pending, base, retired, changes, newest, files, decisions, clock>>

\* run_external_learning, opted out of or without result.
NoExternal(r) ==
  /\ At(r, "external", "record")
  /\ newest' \in IF External THEN {newest, Row(txn[r])} ELSE {newest}
  /\ UNCHANGED <<busy, scope, txn, ids, pending, base, retired, changes, files, decisions, clock>>

\* External rules go to rules.json whatever the scope of the run.
LearnExternal(r) ==
  /\ External
  /\ At(r, "external", "record")
  /\ content' = [content EXCEPT !["rules"] = @ \cup {txn[r]}]
  /\ changes' = [changes EXCEPT ![r] = @ \cup {"rules"}]
  /\ newest' = Row(txn[r])
  /\ UNCHANGED <<busy, scope, txn, ids, pending, base, retired, snaps, decisions, clock>>

-----------------------------------------------------------------------------
(* Record, judgement and end. *)

\* update_daily_metrics: the rows of the last days may ask for a rollback now,
\* or no longer.
Metrics ==
  \/ UNCHANGED <<declining, shifts>>
  \/ shifts < MaxShifts /\ shifts' = shifts + 1 /\ declining' = ~declining

\* The rows the queries of the enabled learners return now; a skill run that
\* only refines reads none.
RowsRead(r, generate) ==
  (IF "rules" \in scope[r] THEN Newest(Decided \ evolved) ELSE {})
    \cup (IF "memory" \in scope[r] \/ generate THEN Newest(Decided) ELSE {})

\* Mutation: everything the queries return is marked.
MarksAllRead(r, generate) ==
  LET read == RowsRead(r, generate)
  IN IF read = {} /\ changes[r] # {} THEN ids[r] ELSE read

\* decision_ids_to_mark_after_run, with the fallback of run_evolution_inner.
ToMark(r, generate) ==
  LET read == RowsRead(r, generate) \cap ids[r]
  IN IF read = {} /\ changes[r] # {} THEN ids[r] ELSE read

Record(r) ==
  /\ At(r, "record", "judge")
  /\ newest' = IF changes[r] = {} THEN newest ELSE Row(txn[r])
  /\ \E generate \in (IF "skills" \in scope[r] THEN BOOLEAN ELSE {FALSE}) :
       evolved' = evolved \cup ToMark(r, generate)
  /\ Metrics
  /\ UNCHANGED <<busy, scope, txn, ids, pending, base, retired, changes, files, recorded, now, starts>>

\* The version check_auto_rollback takes has a directory to restore: "" names
\* _versions itself, "rollback_.." nothing.
Restorable == newest.kind = "blank" \/ (newest.kind = "run" /\ newest.txn \in DOMAIN snaps)

\* restore_extended_snapshot: what the snapshot holds replaces what is there.
Restored ==
  [a \in Artefacts |->
    IF newest.kind = "run" /\ a \in DOMAIN snaps[newest.txn] THEN snaps[newest.txn][a] ELSE content[a]]

\* check_auto_rollback restores.
Rollback ==
  /\ declining
  /\ Restorable
  /\ content' = Restored
  /\ newest' = Undone(newest.txn)

NoRollback == ~declining /\ UNCHANGED <<content, newest>>

\* The check of the run itself.
Judge(r) ==
  /\ At(r, "judge", "finish")
  /\ Rollback \/ NoRollback
  /\ UNCHANGED <<busy, scope, txn, ids, pending, base, retired, changes, snaps, decisions, clock>>

\* The version has no directory: the run ends with an error, its flag released,
\* after its changes were applied.
JudgeFails(r) ==
  /\ At(r, "judge", "idle")
  /\ declining /\ ~Restorable
  /\ Release(r)
  /\ newest' = Blank
  /\ Forget({r})
  /\ UNCHANGED <<files, decisions, clock>>

\* Judgement and run rows, changelog; a chat session goes on to its summary
\* when there are changes.
Finish(r) ==
  /\ At(r, "finish", IF r \in Sessions /\ changes[r] # {} THEN "summary" ELSE "idle")
  /\ Release(r)
  /\ newest' = Row(txn[r])
  /\ Forget({r})
  /\ UNCHANGED <<files, decisions, clock>>

\* run_evolution_and_emit_summary checks again, without the flag, and ignores
\* an error.
Summary(r) ==
  /\ At(r, "summary", "idle")
  /\ Rollback \/ NoRollback \/ (declining /\ ~Restorable /\ UNCHANGED <<content, newest>>)
  /\ UNCHANGED <<busy, scope, txn, ids, pending, base, retired, changes, snaps, decisions, clock>>

-----------------------------------------------------------------------------
(* The process and its surroundings. *)

\* The process ends: its runs are cut off where they are, its flag is gone.
Exit(p) ==
  /\ \E r \in Runs : ProcOf[r] = p /\ pc[r] # "idle"
  /\ pc' = [r \in Runs |-> IF ProcOf[r] = p THEN "idle" ELSE pc[r]]
  /\ busy' = [busy EXCEPT ![p] = FALSE]
  /\ Forget({r \in Runs : ProcOf[r] = p})
  /\ UNCHANGED <<newest, files, decisions, clock>>

\* The chat records a decision and the day's metrics.
Decide ==
  /\ recorded < MaxDecisions
  /\ recorded' = recorded + 1
  /\ Metrics
  /\ UNCHANGED <<busy, locals, newest, files, evolved, now, starts>>

\* Time passes, and with it the days that count.
Tick ==
  /\ now < MaxNow
  /\ now' = now + 1
  /\ Metrics
  /\ UNCHANGED <<busy, locals, newest, files, decisions, starts>>

RunStep(r) ==
  \/ Decline(r)
  \/ Execute(r)
  \/ Snapshot(r)
  \/ ReadRules(r)
  \/ WriteRules(r)
  \/ NoRules(r)
  \/ PromptsFail(r)
  \/ \E a \in Artefacts : Append(r, a)
  \/ \E a \in Artefacts : Barren(r, a)
  \/ Join(r)
  \/ NoExternal(r)
  \/ LearnExternal(r)
  \/ Record(r)
  \/ Judge(r)
  \/ JudgeFails(r)
  \/ Finish(r)
  \/ Summary(r)

\* Nobody evolves anything.
Rest == (\A r \in Runs : pc[r] = "idle") /\ UNCHANGED vars

Next ==
  \/ \E r \in Runs : Enter(r) \/ Skip(r) \/ RunStep(r)
  \/ \E p \in Procs : Exit(p)
  \/ Decide
  \/ Tick
  \/ Rest

Spec == Init /\ [][Next]_vars

\* A run in progress goes on: the model's answers are bounded by the HTTP
\* client's timeout of 300 s, everything else is local.
FairSpec == Spec /\ \A r \in Runs : WF_vars(RunStep(r))

-----------------------------------------------------------------------------
(* Properties. *)

\* Every variable has its type.
TypeOK ==
  /\ busy \in [Procs -> BOOLEAN]
  /\ pc \in [Runs -> {"idle", "select", "snapshot", "learn", "external", "record", "judge", "finish", "summary"}]
  /\ scope \in [Runs -> SUBSET Artefacts]
  /\ txn \in [Runs -> Txns]
  /\ ids \in [Runs -> SUBSET (1..MaxDecisions)]
  /\ pending \in [Runs -> SUBSET (Artefacts \cup {"reply"})]
  /\ base \in [Runs -> SUBSET Txns]
  /\ retired \in [Runs -> SUBSET Txns]
  /\ changes \in [Runs -> SUBSET Artefacts]
  /\ newest \in Versions
  /\ content \in [Artefacts -> SUBSET Txns]
  /\ DOMAIN snaps \subseteq Txns
  /\ \A t \in DOMAIN snaps : DOMAIN snaps[t] \subseteq Artefacts /\ \A a \in DOMAIN snaps[t] : snaps[t][a] \subseteq Txns
  /\ recorded \in 0..MaxDecisions
  /\ evolved \subseteq 1..MaxDecisions
  /\ declining \in BOOLEAN
  /\ now \in 1..MaxNow /\ starts \in 0..MaxStarts /\ shifts \in 0..MaxShifts

\* The flag of a process is up exactly while one of its runs is between
\* try_start_evolution and finish_evolution, on every way out of a run and
\* after a process was replaced, and at most one run is.
FlagIsHeld ==
  \A p \in Procs :
    /\ busy[p] <=> \E r \in Runs : ProcOf[r] = p /\ Holding(r)
    /\ \A r, q \in Runs : ProcOf[r] = p /\ ProcOf[q] = p /\ Holding(r) /\ Holding(q) => r = q

\* A file loses what a run wrote in two ways only: by a rollback of that very
\* run, or because a running prompt learner retired rules of it, in its own
\* step.  No learner writes over another's change with the list it read before
\* its answer came, and no rollback, the one outside the flag included, takes a
\* second run with it.
ChangesStay ==
  [][\A a \in Artefacts : \A t \in content[a] \ content'[a] :
       \/ newest' = Undone(t)
       \/ a = "rules" /\ \E r \in Runs : pending'[r] # pending[r] /\ t \in retired[r] \cup retired'[r]]_vars

\* From its snapshot to its changelog a run finds its own snapshot directory:
\* pruning, its own and that of later runs, spares it.
ActiveSnapshotKept ==
  \A r \in Runs : pc[r] \in {"learn", "external", "record", "judge", "finish"} => txn[r] \in DOMAIN snaps

\* A decision recorded while a run is busy stays for the next one: only
\* decisions that were there when the run chose its scope are marked evolved,
\* though the rows are queried again after the learners are done.
LateDecisionsStay ==
  [][\A d \in evolved' \ evolved : \E r \in Runs : pc[r] = "record" /\ pc'[r] = "judge" /\ d \in ids[r]]_vars

\* A run gives the flag back, whatever its learners and its rollback do.
FlagReleased == \A p \in Procs : busy[p] ~> ~busy[p]
=============================================================================
