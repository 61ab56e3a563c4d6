------------------------- MODULE EvolutionRunProofs -------------------------
(* Theorems about EvolutionRun, for every set of processes and callers, every
   family of scopes and every number of snapshots kept.                       *)
EXTENDS EvolutionRun, FiniteSetTheorems, TLAPS

-----------------------------------------------------------------------------
(* Type correctness. *)

States == {"idle", "select", "snapshot", "learn", "external", "record", "judge", "finish", "summary"}

\* The directories of _versions hold copies of artefacts.
SnapsTyped(S) ==
  /\ DOMAIN S \subseteq Txns
  /\ \A t \in DOMAIN S : DOMAIN S[t] \subseteq Artefacts /\ \A a \in DOMAIN S[t] : S[t][a] \subseteq Txns

\* The locals of the callers.
LocalsTyped ==
  /\ pc \in [Runs -> States]
  /\ scope \in [Runs -> SUBSET Artefacts]
  /\ txn \in [Runs -> Txns]
  /\ ids \in [Runs -> SUBSET (1..MaxDecisions)]
  /\ pending \in [Runs -> SUBSET (Artefacts \cup {"reply"})]
  /\ base \in [Runs -> SUBSET Txns]
  /\ retired \in [Runs -> SUBSET Txns]
  /\ changes \in [Runs -> SUBSET Artefacts]

\* What all processes share.
SharedTyped ==
  /\ newest \in Versions
  /\ content \in [Artefacts -> SUBSET Txns]
  /\ SnapsTyped(snaps)
  /\ recorded \in 0..MaxDecisions
  /\ evolved \subseteq 1..MaxDecisions
  /\ declining \in BOOLEAN
  /\ now \in 1..MaxNow /\ starts \in 0..MaxStarts /\ shifts \in 0..MaxShifts

LEMMA TypeParts == TypeOK <=> busy \in [Procs -> BOOLEAN] /\ LocalsTyped /\ SharedTyped
BY DEF TypeOK, LocalsTyped, SharedTyped, SnapsTyped, States

LEMMA Bounds ==
  /\ Keep \in Nat /\ Window \in Nat /\ MaxNow \in Nat /\ MaxNow > 0
  /\ MaxStarts \in Nat /\ MaxDecisions \in Nat /\ MaxShifts \in Nat
BY BoundsAssumption

\* Versions are well formed.
LEMMA VersionTypes ==
  ASSUME NEW t \in Txns
  PROVE  Row(t) \in Versions /\ Undone(t) \in Versions /\ Blank \in Versions
BY Bounds DEF Row, Undone, Blank, Versions, Txns

\* A returned call leaves typed locals.
LEMMA ForgetTyped ==
  ASSUME LocalsTyped, NEW S, Forget(S), pc' \in [Runs -> States]
  PROVE  LocalsTyped'
BY Bounds DEF LocalsTyped, Forget, Txns

\* A restored file holds runs.
LEMMA RestoredTyped ==
  ASSUME SharedTyped, Restorable
  PROVE  Restored \in [Artefacts -> SUBSET Txns]
<1> SUFFICES ASSUME NEW a \in Artefacts PROVE Restored[a] \subseteq Txns
  BY DEF Restored
<1>1. CASE newest.kind = "run" /\ a \in DOMAIN snaps[newest.txn]
  BY <1>1 DEF Restored, Restorable, SharedTyped, SnapsTyped
<1>2. CASE ~(newest.kind = "run" /\ a \in DOMAIN snaps[newest.txn])
  BY <1>2 DEF Restored, SharedTyped
<1> QED BY <1>1, <1>2

\* Both rollback checks keep the types.
LEMMA RollbackTyped ==
  ASSUME SharedTyped, Rollback \/ NoRollback
  PROVE  newest' \in Versions /\ content' \in [Artefacts -> SUBSET Txns]
<1>1. CASE Rollback
  <2>1. newest.txn \in Txns
    BY DEF SharedTyped, Versions
  <2> QED BY <1>1, <2>1, RestoredTyped, VersionTypes DEF Rollback
<1>2. CASE NoRollback
  BY <1>2 DEF NoRollback, SharedTyped
<1> QED BY <1>1, <1>2

LEMMA MetricsTyped ==
  ASSUME SharedTyped, Metrics
  PROVE  declining' \in BOOLEAN /\ shifts' \in 0..MaxShifts
<1>1. declining' \in BOOLEAN
  BY DEF SharedTyped, Metrics
<1>2. shifts' \in 0..MaxShifts
  BY Bounds DEF SharedTyped, Metrics
<1> QED BY <1>1, <1>2

\* The new directory and those that stay hold copies of artefacts.
LEMMA SnapshotTyped ==
  ASSUME TypeOK, NEW r \in Runs, Snapshot(r)
  PROVE  SnapsTyped(snaps')
<1> USE DEF SnapsTyped
<1>1. DOMAIN snaps' \subseteq DOMAIN snaps \cup {txn[r]}
  BY DEF Snapshot, Kept
<1>2. ASSUME NEW t \in DOMAIN snaps', t # txn[r]
      PROVE  t \in DOMAIN snaps /\ snaps'[t] = snaps[t]
  BY <1>1, <1>2 DEF Snapshot
<1>3. ASSUME txn[r] \in DOMAIN snaps'
      PROVE  snaps'[txn[r]] = Copies(r)
  BY <1>3 DEF Snapshot
<1>4. /\ DOMAIN Copies(r) \subseteq Artefacts
      /\ \A a \in DOMAIN Copies(r) : Copies(r)[a] \subseteq Txns
  BY TypeParts DEF Copies, Copied, Present, LocalsTyped, SharedTyped
<1>5. txn[r] \in Txns /\ SnapsTyped(snaps)
  BY TypeParts DEF LocalsTyped, SharedTyped
<1> QED BY <1>1, <1>2, <1>3, <1>4, <1>5

LEMMA TypeInit == Init => TypeOK
<1> SUFFICES ASSUME Init PROVE TypeOK
  OBVIOUS
<1>1. 0 \in Txns /\ 1 \in 1..MaxNow /\ recorded \in 0..MaxDecisions /\ starts \in 0..MaxStarts /\ shifts \in 0..MaxShifts
  BY Bounds DEF Init, Txns
<1>2. LocalsTyped
  BY <1>1 DEF Init, LocalsTyped, States
<1>3. newest \in Versions /\ SnapsTyped(snaps) /\ evolved \subseteq 1..MaxDecisions
  BY <1>1, VersionTypes DEF Init, SnapsTyped
<1>4. content \in [Artefacts -> SUBSET Txns]
  BY <1>1 DEF Init
<1> QED BY <1>1, <1>2, <1>3, <1>4, TypeParts DEF Init, SharedTyped

\* One step per action; each leaf only moves the caller and what the action
\* assigns.
LEMMA TypeStep == TypeOK /\ [Next]_vars => TypeOK'
<1> SUFFICES ASSUME TypeOK, [Next]_vars PROVE TypeOK'
  OBVIOUS
<1>p. TypeOK' <=> busy' \in [Procs -> BOOLEAN] /\ LocalsTyped' /\ SharedTyped'
  BY DEF TypeOK, LocalsTyped, SharedTyped, SnapsTyped, States
<1>t. busy \in [Procs -> BOOLEAN] /\ LocalsTyped /\ SharedTyped
  BY TypeParts
<1>s. ASSUME UNCHANGED <<newest, files, decisions, clock>>
      PROVE  SharedTyped'
  BY <1>t, <1>s DEF SharedTyped, SnapsTyped, files, decisions, clock
<1>h. ASSUME NEW r \in Runs PROVE ProcOf[r] \in Procs
  BY RunsAssumption
<1>1. ASSUME NEW r \in Runs, Enter(r) PROVE TypeOK'
  <2>1. starts' \in 0..MaxStarts
    BY <1>1, <1>t, Bounds DEF Enter, SharedTyped
  <2>2. LocalsTyped' /\ busy' \in [Procs -> BOOLEAN]
    BY <1>1, <1>t, <1>h DEF Enter, At, LocalsTyped, States
  <2> QED BY <1>1, <1>p, <1>t, <2>1, <2>2 DEF Enter, SharedTyped, SnapsTyped, files, decisions
<1>2. ASSUME NEW r \in Runs, Skip(r) PROVE TypeOK'
  <2>1. starts' \in 0..MaxStarts
    BY <1>2, <1>t, Bounds DEF Skip, SharedTyped
  <2>2. LocalsTyped' /\ busy' \in [Procs -> BOOLEAN]
    BY <1>2, <1>t DEF Skip, locals, LocalsTyped
  <2>3. newest' \in Versions
    BY <1>2, VersionTypes, Bounds DEF Skip, Txns
  <2> QED BY <1>2, <1>p, <1>t, <2>1, <2>2, <2>3 DEF Skip, SharedTyped, SnapsTyped, files, decisions
<1>3. ASSUME NEW r \in Runs, Decline(r) PROVE TypeOK'
  <2>1. LocalsTyped' /\ busy' \in [Procs -> BOOLEAN]
    BY <1>3, <1>t, <1>h, ForgetTyped DEF Decline, At, Release, LocalsTyped, States
  <2>2. newest' \in Versions
    BY <1>3, VersionTypes, Bounds DEF Decline, Txns
  <2> QED BY <1>3, <1>p, <1>t, <2>1, <2>2 DEF Decline, SharedTyped, SnapsTyped, files, decisions, clock
<1>4. ASSUME NEW r \in Runs, Execute(r) PROVE TypeOK'
  <2>1. now \in Txns
    BY <1>t, Bounds DEF SharedTyped, Txns
  <2>2. Decided \in SUBSET (1..MaxDecisions)
    BY <1>t, Bounds DEF SharedTyped, Decided
  <2>3. scope' \in [Runs -> SUBSET Artefacts] /\ pending' \in [Runs -> SUBSET (Artefacts \cup {"reply"})]
    BY <1>4, <1>t, ScopesAssumption DEF Execute, LocalsTyped
  <2>4. LocalsTyped'
    BY <1>4, <1>t, <2>1, <2>2, <2>3 DEF Execute, At, LocalsTyped, States
  <2>5. newest' \in Versions
    BY <1>4, <2>1, VersionTypes DEF Execute
  <2> QED BY <1>4, <1>p, <1>t, <2>4, <2>5 DEF Execute, SharedTyped, SnapsTyped, files, decisions, clock
<1>5. ASSUME NEW r \in Runs, Snapshot(r) PROVE TypeOK'
  <2>1. LocalsTyped'
    BY <1>5, <1>t DEF Snapshot, At, LocalsTyped, States
  <2>2. SnapsTyped(snaps')
    BY <1>5, SnapshotTyped
  <2>3. SharedTyped'
    BY <1>5, <1>t, <2>2 DEF Snapshot, SharedTyped, decisions, clock
  <2> QED BY <1>5, <1>p, <1>t, <2>1, <2>3 DEF Snapshot
<1>6. ASSUME NEW r \in Runs, ReadRules(r) PROVE TypeOK'
  <2> DEFINE Reads(some, out) ==
        /\ content' = [content EXCEPT !["rules"] = @ \ out]
        /\ base' = [base EXCEPT ![r] = content["rules"] \ out]
        /\ retired' = [retired EXCEPT ![r] = out]
        /\ changes' = [changes EXCEPT ![r] = IF some THEN @ \cup {"rules"} ELSE @]
        /\ newest' = IF some THEN Row(txn[r]) ELSE newest
  <2>0. PICK some \in BOOLEAN : \E out \in SUBSET content["rules"] : Reads(some, out)
    BY <1>6 DEF ReadRules, Retirable
  <2>9. PICK out \in SUBSET content["rules"] : Reads(some, out)
    BY <2>0
  <2>1. content["rules"] \subseteq Txns /\ txn[r] \in Txns
    BY <1>t DEF SharedTyped, LocalsTyped, Artefacts
  <2>2. LocalsTyped'
    <3>1. base' \in [Runs -> SUBSET Txns] /\ retired' \in [Runs -> SUBSET Txns]
      BY <1>t, <2>1, <2>9 DEF LocalsTyped
    <3>2. changes' \in [Runs -> SUBSET Artefacts]
      BY <1>t, <2>9 DEF LocalsTyped, Artefacts
    <3>3. pending' \in [Runs -> SUBSET (Artefacts \cup {"reply"})]
      BY <1>6, <1>t DEF ReadRules, LocalsTyped
    <3> QED BY <1>6, <1>t, <3>1, <3>2, <3>3 DEF ReadRules, Learning, LocalsTyped
  <2>3. newest' \in Versions /\ content' \in [Artefacts -> SUBSET Txns]
    BY <1>t, <2>1, <2>9, VersionTypes DEF SharedTyped
  <2>4. SharedTyped'
    BY <1>6, <1>t, <2>3 DEF ReadRules, Learning, SharedTyped, SnapsTyped, decisions, clock
  <2> QED BY <1>6, <1>p, <1>t, <2>2, <2>4 DEF ReadRules, Learning
<1>7. ASSUME NEW r \in Runs, WriteRules(r) PROVE TypeOK'
  <2>1. LocalsTyped'
    BY <1>7, <1>t DEF WriteRules, ForgetRules, Learning, LocalsTyped, Artefacts
  <2>2. content' \in [Artefacts -> SUBSET Txns]
    BY <1>7, <1>t DEF WriteRules, LocalsTyped, SharedTyped
  <2>3. SharedTyped'
    BY <1>7, <1>t, <2>2 DEF WriteRules, Learning, SharedTyped, SnapsTyped, decisions, clock
  <2> QED BY <1>7, <1>p, <1>t, <2>1, <2>3 DEF WriteRules, Learning
<1>8. ASSUME NEW r \in Runs, NEW a \in Artefacts, Append(r, a) PROVE TypeOK'
  <2>1. LocalsTyped'
    BY <1>8, <1>t DEF Append, Due, Learning, LocalsTyped
  <2>2. content' \in [Artefacts -> SUBSET Txns]
    BY <1>8, <1>t DEF Append, LocalsTyped, SharedTyped
  <2>3. SharedTyped'
    BY <1>8, <1>t, <2>2 DEF Append, Learning, SharedTyped, SnapsTyped, decisions, clock
  <2> QED BY <1>8, <1>p, <1>t, <2>1, <2>3 DEF Append, Learning
<1>9. ASSUME NEW r \in Runs, NEW a \in Artefacts, Barren(r, a) PROVE TypeOK'
  <2>1. LocalsTyped'
    BY <1>9, <1>t DEF Barren, Learning, LocalsTyped
  <2>2. newest' \in Versions
    BY <1>9, <1>t, VersionTypes, Bounds DEF Barren, SharedTyped, Txns
  <2>3. SharedTyped'
    BY <1>9, <1>t, <2>2 DEF Barren, Learning, SharedTyped, SnapsTyped, decisions, clock
  <2> QED BY <1>9, <1>p, <1>t, <2>1, <2>3 DEF Barren, Learning
<1>22. ASSUME NEW r \in Runs, NoRules(r) \/ PromptsFail(r) PROVE TypeOK'
  <2>1. LocalsTyped'
    BY <1>22, <1>t DEF NoRules, PromptsFail, ForgetRules, Learning, LocalsTyped
  <2>2. newest' \in Versions
    BY <1>22, <1>t, VersionTypes, Bounds DEF NoRules, PromptsFail, SharedTyped, Txns
  <2>3. SharedTyped'
    BY <1>22, <1>t, <2>2 DEF NoRules, PromptsFail, Learning, SharedTyped, SnapsTyped, decisions, clock
  <2> QED BY <1>22, <1>p, <1>t, <2>1, <2>3 DEF NoRules, PromptsFail, Learning
<1>10. ASSUME NEW r \in Runs, Join(r) PROVE TypeOK'
  <2>1. LocalsTyped'
    BY <1>10, <1>t DEF Join, At, LocalsTyped, States
  <2> QED BY <1>10, <1>p, <1>t, <1>s, <2>1 DEF Join
<1>11. ASSUME NEW r \in Runs, NoExternal(r) PROVE TypeOK'
  <2>1. LocalsTyped'
    BY <1>11, <1>t DEF NoExternal, At, LocalsTyped, States
  <2>2. newest' \in Versions
    BY <1>11, <1>t, VersionTypes DEF NoExternal, LocalsTyped, SharedTyped
  <2> QED BY <1>11, <1>p, <1>t, <2>1, <2>2 DEF NoExternal, SharedTyped, SnapsTyped, files, decisions, clock
<1>12. ASSUME NEW r \in Runs, LearnExternal(r) PROVE TypeOK'
  <2>1. LocalsTyped'
    BY <1>12, <1>t DEF LearnExternal, At, LocalsTyped, States, Artefacts
  <2>2. newest' \in Versions
    BY <1>12, <1>t, VersionTypes DEF LearnExternal, LocalsTyped
  <2>3. content' \in [Artefacts -> SUBSET Txns]
    BY <1>12, <1>t DEF LearnExternal, LocalsTyped, SharedTyped
  <2> QED BY <1>12, <1>p, <1>t, <2>1, <2>2, <2>3 DEF LearnExternal, SharedTyped, SnapsTyped, decisions, clock
<1>13. ASSUME NEW r \in Runs, Record(r) PROVE TypeOK'
  <2>1. LocalsTyped'
    BY <1>13, <1>t DEF Record, At, LocalsTyped, States
  <2>2. newest' \in Versions
    BY <1>13, <1>t, VersionTypes DEF Record, LocalsTyped, SharedTyped
  <2>3. declining' \in BOOLEAN /\ shifts' \in 0..MaxShifts
    BY <1>13, <1>t, MetricsTyped DEF Record
  <2>4. evolved' \subseteq 1..MaxDecisions
    BY <1>13, <1>t DEF Record, ToMark, LocalsTyped, SharedTyped
  <2> QED BY <1>13, <1>p, <1>t, <2>1, <2>2, <2>3, <2>4 DEF Record, SharedTyped, SnapsTyped, files
<1>14. ASSUME NEW r \in Runs, Judge(r) PROVE TypeOK'
  <2>1. LocalsTyped'
    BY <1>14, <1>t DEF Judge, At, LocalsTyped, States
  <2>2. newest' \in Versions /\ content' \in [Artefacts -> SUBSET Txns]
    BY <1>14, <1>t, RollbackTyped DEF Judge
  <2> QED BY <1>14, <1>p, <1>t, <2>1, <2>2 DEF Judge, SharedTyped, SnapsTyped, decisions, clock
<1>15. ASSUME NEW r \in Runs, JudgeFails(r) PROVE TypeOK'
  <2>1. LocalsTyped' /\ busy' \in [Procs -> BOOLEAN]
    BY <1>15, <1>t, <1>h, ForgetTyped DEF JudgeFails, At, Release, LocalsTyped, States
  <2>2. newest' \in Versions
    BY <1>15, VersionTypes, Bounds DEF JudgeFails, Txns
  <2> QED BY <1>15, <1>p, <1>t, <2>1, <2>2 DEF JudgeFails, SharedTyped, SnapsTyped, files, decisions, clock
<1>16. ASSUME NEW r \in Runs, Finish(r) PROVE TypeOK'
  <2>1. LocalsTyped' /\ busy' \in [Procs -> BOOLEAN]
    BY <1>16, <1>t, <1>h, ForgetTyped DEF Finish, At, Release, LocalsTyped, States
  <2>2. newest' \in Versions
    BY <1>16, <1>t, VersionTypes DEF Finish, LocalsTyped
  <2> QED BY <1>16, <1>p, <1>t, <2>1, <2>2 DEF Finish, SharedTyped, SnapsTyped, files, decisions, clock
<1>17. ASSUME NEW r \in Runs, Summary(r) PROVE TypeOK'
  <2>1. LocalsTyped'
    BY <1>17, <1>t DEF Summary, At, LocalsTyped, States
  <2>2. newest' \in Versions /\ content' \in [Artefacts -> SUBSET Txns]
    BY <1>17, <1>t, RollbackTyped DEF Summary, SharedTyped
  <2> QED BY <1>17, <1>p, <1>t, <2>1, <2>2 DEF Summary, SharedTyped, SnapsTyped, decisions, clock
<1>18. ASSUME NEW p \in Procs, Exit(p) PROVE TypeOK'
  <2>1. LocalsTyped' /\ busy' \in [Procs -> BOOLEAN]
    BY <1>18, <1>t, ForgetTyped DEF Exit, LocalsTyped, States
  <2> QED BY <1>18, <1>p, <1>t, <1>s, <2>1 DEF Exit
<1>19. CASE Decide
  <2>1. declining' \in BOOLEAN /\ shifts' \in 0..MaxShifts
    BY <1>19, <1>t, MetricsTyped DEF Decide
  <2>2. recorded' \in 0..MaxDecisions /\ evolved' \subseteq 1..MaxDecisions
    BY <1>19, <1>t, Bounds DEF Decide, SharedTyped, Decided
  <2> QED BY <1>19, <1>p, <1>t, <2>1, <2>2 DEF Decide, locals, LocalsTyped, SharedTyped, SnapsTyped, files
<1>20. CASE Tick
  <2>1. declining' \in BOOLEAN /\ shifts' \in 0..MaxShifts
    BY <1>20, <1>t, MetricsTyped DEF Tick
  <2>2. now' \in 1..MaxNow
    BY <1>20, <1>t, Bounds DEF Tick, SharedTyped
  <2> QED BY <1>20, <1>p, <1>t, <2>1, <2>2 DEF Tick, locals, LocalsTyped, SharedTyped, SnapsTyped, files, decisions
<1>21. CASE UNCHANGED vars
  BY <1>21, <1>p, <1>t, <1>s DEF vars, locals, LocalsTyped
<1> QED BY <1>1, <1>2, <1>3, <1>4, <1>5, <1>6, <1>7, <1>8, <1>9, <1>10, <1>11, <1>12, <1>13, <1>14,
           <1>15, <1>16, <1>17, <1>18, <1>19, <1>20, <1>21, <1>22 DEF Next, RunStep, Rest

\* Every variable keeps its type in every behaviour.
THEOREM TypeCorrect == Spec => []TypeOK
BY TypeInit, TypeStep, PTL DEF Spec

-----------------------------------------------------------------------------
(* The flag.  FlagIsHeld is inductive together with the types. *)

\* A step of a run that stays between try_start and finish, or outside.
LEMMA FlagStays ==
  ASSUME FlagIsHeld, UNCHANGED busy, \A r \in Runs : Holding(r)' <=> Holding(r)
  PROVE  FlagIsHeld'
BY DEF FlagIsHeld

\* A run that gives the flag back was the only one of its process.
LEMMA FlagReturned ==
  ASSUME TypeOK, FlagIsHeld, NEW r \in Runs, Holding(r), Release(r),
         \A q \in Runs : Holding(q)' <=> Holding(q) /\ q # r
  PROVE  FlagIsHeld'
<1> SUFFICES ASSUME NEW p \in Procs
             PROVE  /\ busy'[p] <=> \E q \in Runs : ProcOf[q] = p /\ Holding(q)'
                    /\ \A q1, q2 \in Runs : ProcOf[q1] = p /\ ProcOf[q2] = p /\ Holding(q1)' /\ Holding(q2)' => q1 = q2
  BY DEF FlagIsHeld
<1>1. busy'[p] = IF p = ProcOf[r] THEN FALSE ELSE busy[p]
  BY DEF Release, TypeOK
<1>2. CASE p = ProcOf[r]
  BY <1>1, <1>2 DEF FlagIsHeld
<1>3. CASE p # ProcOf[r]
  BY <1>1, <1>3 DEF FlagIsHeld
<1> QED BY <1>2, <1>3

LEMMA FlagInit == Init => FlagIsHeld
BY RunsAssumption DEF Init, FlagIsHeld, Holding

LEMMA FlagStep == TypeOK /\ FlagIsHeld /\ [Next]_vars => FlagIsHeld'
<1> SUFFICES ASSUME TypeOK, FlagIsHeld, [Next]_vars PROVE FlagIsHeld'
  OBVIOUS
<1>t. pc \in [Runs -> States] /\ busy \in [Procs -> BOOLEAN]
  BY TypeParts DEF LocalsTyped
<1>h. ASSUME NEW r \in Runs PROVE ProcOf[r] \in Procs
  BY RunsAssumption
<1>1. ASSUME NEW r \in Runs, Enter(r) PROVE FlagIsHeld'
  <2>1. \A q \in Runs : Holding(q)' <=> Holding(q) \/ q = r
    BY <1>1, <1>t DEF Enter, At, Holding
  <2>2. ~\E q \in Runs : ProcOf[q] = ProcOf[r] /\ Holding(q)
    BY <1>1, <1>h DEF Enter, MayEnter, FlagIsHeld
  <2>3. \A p \in Procs : busy'[p] = IF p = ProcOf[r] THEN TRUE ELSE busy[p]
    BY <1>1, <1>t DEF Enter
  <2> QED BY <2>1, <2>2, <2>3 DEF FlagIsHeld
<1>2. ASSUME NEW r \in Runs, Decline(r) \/ JudgeFails(r) \/ Finish(r) PROVE FlagIsHeld'
  <2>1. Holding(r) /\ Release(r)
    BY <1>2 DEF Decline, JudgeFails, Finish, At, Holding
  <2>2. \A q \in Runs : Holding(q)' <=> Holding(q) /\ q # r
    BY <1>2, <1>t DEF Decline, JudgeFails, Finish, At, Holding
  <2> QED BY <2>1, <2>2, FlagReturned
<1>3. ASSUME NEW r \in Runs,
             \/ Execute(r) \/ Snapshot(r) \/ Join(r) \/ NoExternal(r) \/ LearnExternal(r)
             \/ Record(r) \/ Judge(r) \/ Summary(r)
      PROVE FlagIsHeld'
  <2>1. \A q \in Runs : Holding(q)' <=> Holding(q)
    BY <1>3, <1>t DEF Execute, Snapshot, Join, NoExternal, LearnExternal, Record, Judge, Summary, At, Holding
  <2>2. UNCHANGED busy
    BY <1>3 DEF Execute, Snapshot, Join, NoExternal, LearnExternal, Record, Judge, Summary
  <2> QED BY <2>1, <2>2, FlagStays
<1>4. ASSUME UNCHANGED <<busy, pc>> PROVE FlagIsHeld'
  BY <1>4, FlagStays DEF Holding
<1>5. ASSUME NEW p \in Procs, Exit(p) PROVE FlagIsHeld'
  <2>1. \A q \in Runs : Holding(q)' <=> Holding(q) /\ ProcOf[q] # p
    BY <1>5, <1>t DEF Exit, Holding
  <2>2. \A q \in Procs : busy'[q] = IF q = p THEN FALSE ELSE busy[q]
    BY <1>5, <1>t DEF Exit
  <2> QED BY <2>1, <2>2 DEF FlagIsHeld
<1>6. ASSUME NEW r \in Runs, Skip(r) \/ ReadRules(r) \/ WriteRules(r) \/ NoRules(r) \/ PromptsFail(r)
                \/ (\E a \in Artefacts : Append(r, a)) \/ (\E a \in Artefacts : Barren(r, a))
      PROVE  UNCHANGED <<busy, pc>>
  BY <1>6 DEF Skip, ReadRules, WriteRules, NoRules, PromptsFail, Append, Barren, Learning, locals
<1>7. ASSUME Decide \/ Tick \/ UNCHANGED vars PROVE UNCHANGED <<busy, pc>>
  BY <1>7 DEF Decide, Tick, vars, locals
<1> QED BY <1>1, <1>2, <1>3, <1>4, <1>5, <1>6, <1>7 DEF Next, RunStep, Rest

\* The flag of each process is up exactly while one run of the process holds
\* it, on every way out of a run and across exits.
THEOREM FlagHolds == Spec => []FlagIsHeld
BY FlagInit, TypeInit, TypeStep, FlagStep, PTL DEF Spec

-----------------------------------------------------------------------------
(* Snapshots and changes, for the callers of one process.  The flag then lets
   at most one run be dated, its txn_id is the largest that has a directory,
   and the newest row, if it has a version, is its own.  So a rollback takes
   the latest snapshot, from which the files differ by the changes of that one
   run.                                                                       *)

OneProcess == \A r, q \in Runs : ProcOf[r] = ProcOf[q]

\* A run with its snapshot directory, and one that has a txn_id.
Writing(r) == pc[r] \in {"learn", "external", "record", "judge", "finish"}
Dated(r) == pc[r] = "snapshot" \/ Writing(r)

Latest(t) == \A u \in DOMAIN snaps : u <= t
Undoes(t) == \A a \in DOMAIN snaps[t] : content[a] \subseteq snaps[t][a] \cup {t}

SnapsInv == \A t \in DOMAIN snaps : t <= now /\ (Latest(t) => Undoes(t))
NewestInv == newest.kind = "run" => Latest(newest.txn)
DatedInv(r) == txn[r] <= now /\ Latest(txn[r]) /\ (newest.kind = "run" => newest.txn = txn[r])
PendingInv(r) == "reply" \in pending[r] => pc[r] = "learn" /\ "rules" \in scope[r] /\ "rules" \notin pending[r]
ScopeInv(r) == pending[r] \subseteq scope[r] \cup {"reply"}
SnapshotInv(r) ==
  /\ txn[r] \in DOMAIN snaps
  /\ "rules" \in scope[r] => "rules" \in DOMAIN snaps[txn[r]]
  /\ "rules" \in pending[r] => snaps[txn[r]]["rules"] \subseteq content["rules"]
BaseInv(r) ==
  "reply" \in pending[r] =>
    /\ base[r] \subseteq snaps[txn[r]]["rules"] \cup {txn[r]}
    /\ content["rules"] \subseteq base[r] \cup retired[r] \cup {txn[r]}
    /\ snaps[txn[r]]["rules"] \subseteq base[r] \cup retired[r]
RunInv(r) ==
  /\ Dated(r) => DatedInv(r) /\ PendingInv(r) /\ ScopeInv(r)
  /\ Writing(r) => SnapshotInv(r) /\ BaseInv(r)

ChangesInv == SnapsInv /\ NewestInv /\ \A r \in Runs : RunInv(r)

\* What the steps below start from.
Sound == TypeOK /\ FlagIsHeld /\ ChangesInv

LEMMA OneHolding ==
  ASSUME OneProcess, FlagIsHeld, NEW r \in Runs, NEW q \in Runs, Holding(r), Holding(q)
  PROVE  r = q
<1>1. ProcOf[r] \in Procs /\ ProcOf[r] = ProcOf[q]
  BY RunsAssumption DEF OneProcess
<1> QED BY <1>1 DEF FlagIsHeld

\* Numbers are numbers.
LEMMA Dates ==
  ASSUME TypeOK
  PROVE  /\ now \in Nat /\ newest.txn \in Nat /\ \A r \in Runs : txn[r] \in Nat
         /\ \A t \in DOMAIN snaps : t \in Nat
BY Bounds DEF TypeOK, Txns, Versions

LEMMA OneLatest ==
  ASSUME TypeOK, NEW t \in DOMAIN snaps, NEW u \in DOMAIN snaps, Latest(t), Latest(u)
  PROVE  t = u
BY Dates DEF Latest

\* Pruning spares the largest directory.
LEMMA LargestKept ==
  ASSUME NEW S, S \subseteq Nat, NEW t \in S, \A u \in S : u <= t
  PROVE  t \in Kept(S)
<1>1. {u \in S : u > t} = {}
  <2>1. \A u \in S : ~(u > t)
    OBVIOUS
  <2> QED BY <2>1
<1>2. Cardinality({u \in S : u > t}) = 0
  BY <1>1, FS_EmptySet
<1> QED BY <1>2, Bounds DEF Kept

\* While a run holds the flag no other is dated, before and after its step.
LEMMA OthersUndated ==
  ASSUME OneProcess, FlagIsHeld, pc \in [Runs -> States], NEW r \in Runs, Holding(r),
         NEW s, pc' = [pc EXCEPT ![r] = s]
  PROVE  \A q \in Runs \ {r} : ~Dated(q)' /\ RunInv(q)'
<1> SUFFICES ASSUME NEW q \in Runs \ {r} PROVE ~Dated(q)' /\ RunInv(q)'
  OBVIOUS
<1>1. ~Holding(q)
  BY OneHolding
<1>2. pc'[q] = pc[q]
  OBVIOUS
<1>3. ~Dated(q)' /\ ~Writing(q)'
  BY <1>1, <1>2 DEF Dated, Writing, Holding
<1> QED BY <1>3 DEF RunInv

\* Steps that leave the files and the snapshots alone.
LEMMA FilesStay ==
  ASSUME SnapsInv, TypeOK, UNCHANGED <<content, snaps>>, now' \in Nat, now' >= now
  PROVE  SnapsInv'
BY Dates DEF SnapsInv, Latest, Undoes

\* A dated run whose locals stay, when only an unversioned row is appended.
LEMMA LocalsStay ==
  ASSUME TypeOK, UNCHANGED <<content, snaps>>, now' \in Nat, now' >= now, newest' \in {newest, Blank},
         NEW q \in Runs, RunInv(q), UNCHANGED <<pc[q], scope[q], txn[q], pending[q], base[q], retired[q]>>
  PROVE  RunInv(q)'
BY Dates DEF RunInv, Dated, Writing, DatedInv, PendingInv, ScopeInv, SnapshotInv, BaseInv, Latest, Blank

LEMMA NewestStays ==
  ASSUME NewestInv, UNCHANGED snaps, newest' \in {newest, Blank} \/ (\E t \in Txns : newest' = Undone(t) \/ (newest' = Row(t) /\ Latest(t)))
  PROVE  NewestInv'
BY DEF NewestInv, Latest, Blank, Undone, Row

\* What a rollback does to the files.
LEMMA RollbackUndoes ==
  ASSUME Sound, Rollback, UNCHANGED <<snaps, now>>
  PROVE  /\ SnapsInv' /\ NewestInv'
         /\ \A a \in Artefacts : content[a] \ content'[a] \subseteq {newest.txn}
         /\ newest' = Undone(newest.txn)
<1> USE DEF Sound, ChangesInv
<1>1. CASE newest.kind # "run"
  <2>1. \A a \in Artefacts : content'[a] = content[a]
    BY <1>1 DEF Rollback, Restored
  <2>2. \A t \in DOMAIN snaps : DOMAIN snaps[t] \subseteq Artefacts
    BY DEF TypeOK
  <2>3. SnapsInv'
    BY <2>1, <2>2 DEF SnapsInv, Latest, Undoes
  <2> QED BY <2>1, <2>3 DEF Rollback, NewestInv, Undone
<1>2. CASE newest.kind = "run"
  <2> DEFINE t == newest.txn
  <2>1. t \in DOMAIN snaps /\ Latest(t)
    BY <1>2 DEF Rollback, Restorable, NewestInv
  <2>2. \A a \in Artefacts : content'[a] = IF a \in DOMAIN snaps[t] THEN snaps[t][a] ELSE content[a]
    BY <1>2 DEF Rollback, Restored
  <2>3. \A u \in DOMAIN snaps : Latest(u) => u = t
    BY <2>1, OneLatest
  <2>4. DOMAIN snaps[t] \subseteq Artefacts
    BY <2>1 DEF TypeOK
  <2>5. Undoes(t)
    BY <2>1 DEF SnapsInv
  <2>6. \A a \in DOMAIN snaps[t] : content'[a] \subseteq snaps[t][a] \cup {t}
    BY <2>2, <2>4
  <2>7. SnapsInv'
    BY <2>3, <2>6 DEF SnapsInv, Latest, Undoes
  <2>8. \A a \in Artefacts : content[a] \ content'[a] \subseteq {t}
    BY <2>2, <2>5 DEF Undoes
  <2> QED BY <2>7, <2>8 DEF Rollback, NewestInv, Undone
<1> QED BY <1>1, <1>2

\* A dated run survives a rollback: what is restored is its own snapshot.
LEMMA RollbackSpares ==
  ASSUME Sound, Rollback, UNCHANGED <<snaps, now>>,
         NEW q \in Runs, UNCHANGED <<scope[q], txn[q], pending[q], base[q], retired[q]>>,
         Dated(q)' => Dated(q), Writing(q)' => Writing(q),
         pc'[q] = pc[q] \/ "reply" \notin pending[q]
  PROVE  RunInv(q)'
<1> USE DEF Sound, ChangesInv
<1>1. ASSUME Dated(q)' PROVE DatedInv(q)' /\ PendingInv(q)' /\ ScopeInv(q)'
  BY <1>1 DEF RunInv, DatedInv, PendingInv, ScopeInv, Latest, Rollback, Undone
<1>2. ASSUME Writing(q)' PROVE SnapshotInv(q)' /\ BaseInv(q)'
  <2>1. SnapshotInv(q) /\ BaseInv(q) /\ DatedInv(q) /\ PendingInv(q) /\ ScopeInv(q) /\ Dated(q)
    BY <1>2 DEF RunInv, Dated
  <2>2. CASE newest.kind # "run"
    <3>1. content'["rules"] = content["rules"]
      BY <2>2 DEF Rollback, Restored, Artefacts
    <3> QED BY <2>1, <3>1 DEF SnapshotInv, BaseInv
  <2>3. CASE newest.kind = "run" /\ "rules" \in scope[q]
    <3>1. newest.txn = txn[q]
      BY <2>1, <2>3 DEF DatedInv
    <3>2. content'["rules"] = snaps[txn[q]]["rules"]
      BY <2>1, <2>3, <3>1 DEF Rollback, Restored, Artefacts, SnapshotInv
    <3> QED BY <2>1, <2>3, <3>2 DEF SnapshotInv, BaseInv
  <2>4. CASE "rules" \notin scope[q]
    BY <2>1, <2>4 DEF SnapshotInv, BaseInv, PendingInv, ScopeInv
  <2> QED BY <2>2, <2>3, <2>4
<1> QED BY <1>1, <1>2 DEF RunInv

\* A learner of r adds the run to one file.
LEMMA AddsItself ==
  ASSUME Sound, NEW r \in Runs, Writing(r), UNCHANGED <<snaps, now>>, NEW a \in Artefacts,
         content' = [content EXCEPT ![a] = @ \cup {txn[r]}]
  PROVE  SnapsInv'
<1> USE DEF Sound, ChangesInv
<1>1. txn[r] \in DOMAIN snaps /\ Latest(txn[r])
  BY DEF RunInv, Dated, SnapshotInv, DatedInv
<1>2. \A t \in DOMAIN snaps : Latest(t) => t = txn[r]
  BY <1>1, OneLatest
<1>3. \A b \in Artefacts : content'[b] \subseteq content[b] \cup {txn[r]}
  BY DEF TypeOK
<1>4. DOMAIN snaps[txn[r]] \subseteq Artefacts
  BY <1>1 DEF TypeOK
<1>5. Undoes(txn[r])
  BY <1>1 DEF SnapsInv
<1>6. \A b \in DOMAIN snaps[txn[r]] : content'[b] \subseteq snaps[txn[r]][b] \cup {txn[r]}
  BY <1>3, <1>4, <1>5 DEF Undoes
<1> QED BY <1>2, <1>6 DEF SnapsInv, Latest, Undoes

LEMMA ChangesInit == Init => ChangesInv
BY DEF Init, ChangesInv, SnapsInv, NewestInv, Blank, RunInv, Dated, Writing

\* What a step may take from the files.
Retires(t) == \E r \in Runs : pending'[r] # pending[r] /\ t \in retired[r] \cup retired'[r]
Stay == \A a \in Artefacts : \A t \in content[a] \ content'[a] : newest' = Undone(t) \/ (a = "rules" /\ Retires(t))

\* Steps outside the runs' own work.
LEMMA OutsideStep ==
  ASSUME OneProcess, Sound,
         Decide \/ Tick \/ (\E r \in Runs : Enter(r) \/ Skip(r)) \/ (\E p \in Procs : Exit(p)) \/ UNCHANGED vars
  PROVE  ChangesInv' /\ Stay
<1> USE DEF Sound, ChangesInv
<1>1. UNCHANGED <<content, snaps>> /\ now' \in Nat /\ now' >= now /\ newest' \in {newest, Blank}
  <2>1. CASE Tick
    BY <2>1, Dates DEF Tick, files
  <2>2. CASE Decide \/ (\E r \in Runs : Enter(r) \/ Skip(r)) \/ (\E p \in Procs : Exit(p)) \/ UNCHANGED vars
    <3>1. UNCHANGED <<content, snaps, now>> /\ newest' \in {newest, Blank}
      BY <2>2 DEF Decide, Enter, Skip, Exit, vars, locals, files, clock
    <3> QED BY <3>1, Dates
  <2> QED BY <2>1, <2>2
<1>2. SnapsInv' /\ NewestInv' /\ Stay
  BY <1>1, FilesStay, NewestStays DEF Stay
<1>3. ASSUME NEW q \in Runs PROVE RunInv(q)'
  <2>1. CASE UNCHANGED <<pc[q], scope[q], txn[q], pending[q], base[q], retired[q]>>
    BY <1>1, <2>1, LocalsStay
  <2>2. CASE ~UNCHANGED <<pc[q], scope[q], txn[q], pending[q], base[q], retired[q]>>
    <3>1. pc'[q] \in {"select", "idle"}
      BY <2>2, TypeParts DEF Decide, Tick, Enter, Skip, Exit, At, Forget, vars, locals, LocalsTyped
    <3> QED BY <3>1 DEF RunInv, Dated, Writing
  <2> QED BY <2>1, <2>2
<1> QED BY <1>2, <1>3

\* A run takes its txn_id: the newest of all.
LEMMA ExecuteStep ==
  ASSUME OneProcess, Sound, NEW r \in Runs, Execute(r)
  PROVE  ChangesInv' /\ Stay
<1> USE DEF Sound, ChangesInv
<1>1. UNCHANGED <<content, snaps, now>> /\ newest' = Row(now) /\ pc' = [pc EXCEPT ![r] = "snapshot"] /\ Holding(r)
  BY DEF Execute, At, files, clock, Holding
<1>2. Latest(now) /\ now \in Txns
  BY Bounds DEF SnapsInv, Latest, TypeOK, Txns
<1>3. SnapsInv' /\ NewestInv' /\ Stay
  BY <1>1, <1>2, Dates, FilesStay, NewestStays DEF Stay
<1>4. \A q \in Runs \ {r} : RunInv(q)'
  BY <1>1, OthersUndated, TypeParts DEF LocalsTyped
<1>5. RunInv(r)'
  <2>1. txn'[r] = now /\ pc'[r] = "snapshot" /\ pending'[r] = scope'[r] /\ "reply" \notin pending'[r]
    BY <1>1, TypeParts, ScopesAssumption DEF Execute, LocalsTyped, Artefacts
  <2> QED BY <1>1, <1>2, <2>1, Dates DEF RunInv, Dated, Writing, DatedInv, PendingInv, ScopeInv, Latest, Row
<1> QED BY <1>3, <1>4, <1>5

\* The new directory is the largest, is kept, and holds what the files hold.
LEMMA SnapshotStep ==
  ASSUME OneProcess, Sound, NEW r \in Runs, Snapshot(r)
  PROVE  ChangesInv' /\ Stay
<1> USE DEF Sound, ChangesInv
<1> DEFINE t == txn[r]
           S == DOMAIN snaps \cup {t}
<1>1. /\ UNCHANGED <<content, now, newest, txn, scope, pending, base, retired>>
      /\ pc' = [pc EXCEPT ![r] = "learn"] /\ pc[r] = "snapshot" /\ Holding(r)
  BY DEF Snapshot, At, clock, Holding
<1>2. DatedInv(r) /\ PendingInv(r) /\ ScopeInv(r)
  BY <1>1 DEF RunInv, Dated
<1>3. t \in Nat /\ S \subseteq Nat /\ \A u \in S : u <= t
  BY <1>2, Dates DEF DatedInv, Latest
<1>4. t \in Kept(S) /\ Kept(S) \subseteq S
  BY <1>3, LargestKept DEF Kept
<1>5. DOMAIN snaps' = Kept(S) /\ snaps'[t] = Copies(r)
  BY <1>4 DEF Snapshot
<1>6. \A u \in DOMAIN snaps' : u <= t
  BY <1>3, <1>4, <1>5
<1>7. \A u \in DOMAIN snaps' : u \in Nat /\ ((\A v \in DOMAIN snaps' : v <= u) => u = t)
  <2> SUFFICES ASSUME NEW u \in DOMAIN snaps' PROVE u \in Nat /\ ((\A v \in DOMAIN snaps' : v <= u) => u = t)
    OBVIOUS
  <2>1. u \in Nat /\ u <= t /\ t \in DOMAIN snaps'
    BY <1>3, <1>4, <1>5, <1>6
  <2> QED BY <1>3, <2>1
<1>8. \A a \in DOMAIN Copies(r) : content[a] \subseteq Copies(r)[a] \cup {t}
  <2> SUFFICES ASSUME NEW a \in DOMAIN Copies(r) PROVE content[a] \subseteq Copies(r)[a] \cup {t}
    OBVIOUS
  <2>1. CASE a \in Copied(r)
    BY <2>1 DEF Copies
  <2>2. CASE a \notin Copied(r)
    <3>1. t \in DOMAIN snaps /\ a \in DOMAIN snaps[t] /\ Copies(r)[a] = snaps[t][a]
      BY <2>2 DEF Copies, Present
    <3>2. Undoes(t)
      BY <1>2, <3>1 DEF SnapsInv, DatedInv
    <3> QED BY <3>1, <3>2 DEF Undoes
  <2> QED BY <2>1, <2>2
<1>9. SnapsInv'
  <2>1. ASSUME NEW u \in DOMAIN snaps' PROVE u <= now'
    <3>1. u \in Nat /\ u <= t /\ t <= now /\ now \in Nat
      BY <1>2, <1>6, <1>7, Dates DEF DatedInv
    <3> QED BY <1>1, <1>3, <3>1
  <2>2. ASSUME NEW u \in DOMAIN snaps', Latest(u)' PROVE Undoes(u)'
    BY <1>1, <1>5, <1>7, <1>8, <2>2 DEF Latest, Undoes
  <2> QED BY <2>1, <2>2 DEF SnapsInv
<1>10. NewestInv'
  BY <1>1, <1>2, <1>6 DEF NewestInv, DatedInv, Latest
<1>11. \A q \in Runs \ {r} : RunInv(q)'
  BY <1>1, OthersUndated, TypeParts DEF LocalsTyped
<1>12. RunInv(r)'
  <2>1. pc'[r] = "learn"
    BY <1>1, TypeParts DEF LocalsTyped
  <2>2. "reply" \notin pending[r]
    BY <1>1, <1>2 DEF PendingInv
  <2>3. DatedInv(r)' /\ PendingInv(r)' /\ ScopeInv(r)' /\ BaseInv(r)'
    BY <1>1, <1>2, <1>6, <2>2 DEF DatedInv, PendingInv, ScopeInv, BaseInv, Latest
  <2>4. "rules" \in scope[r] => "rules" \in DOMAIN Copies(r) /\ Copies(r)["rules"] = content["rules"]
    BY DEF Copies, Copied
  <2>5. SnapshotInv(r)'
    BY <1>1, <1>2, <1>4, <1>5, <2>4 DEF SnapshotInv, ScopeInv
  <2> QED BY <2>3, <2>5 DEF RunInv
<1> QED BY <1>1, <1>9, <1>10, <1>11, <1>12 DEF Stay

\* A step of a writing run that leaves files and snapshots alone: its other
\* locals stay, and its rows are its own.
LEMMA QuietStep ==
  ASSUME OneProcess, Sound, NEW r \in Runs, Writing(r), UNCHANGED <<content, snaps, now>>,
         NEW s, pc' = [pc EXCEPT ![r] = s],
         newest' \in {newest, Blank, Row(txn[r])},
         ~Dated(r)' \/
           ( /\ UNCHANGED <<scope[r], txn[r]>>
             /\ "reply" \in pending'[r] => UNCHANGED <<base[r], retired[r]>>
             /\ pending'[r] \subseteq pending[r]
             /\ pc'[r] = pc[r] \/ "reply" \notin pending[r] )
  PROVE  ChangesInv' /\ Stay
<1> USE DEF Sound, ChangesInv
<1>1. Dated(r) /\ Holding(r)
  BY DEF Writing, Dated, Holding
<1>2. DatedInv(r) /\ PendingInv(r) /\ ScopeInv(r) /\ SnapshotInv(r) /\ BaseInv(r)
  BY <1>1 DEF RunInv
<1>3. SnapsInv' /\ NewestInv' /\ Stay
  <2>1. txn[r] \in Txns /\ Latest(txn[r])
    BY <1>2, TypeParts DEF DatedInv, LocalsTyped
  <2> QED BY <2>1, Dates, FilesStay, NewestStays DEF Stay
<1>4. \A q \in Runs \ {r} : RunInv(q)'
  BY <1>1, OthersUndated, TypeParts DEF LocalsTyped
<1>5. RunInv(r)'
  <2>1. CASE ~Dated(r)'
    BY <2>1 DEF RunInv, Dated
  <2>2. CASE Dated(r)'
    <3>1. DatedInv(r)' /\ PendingInv(r)' /\ ScopeInv(r)'
      BY <1>2, <2>2 DEF DatedInv, PendingInv, ScopeInv, Latest, Blank, Row
    <3>2. SnapshotInv(r)' /\ BaseInv(r)'
      BY <1>2, <2>2 DEF SnapshotInv, BaseInv
    <3> QED BY <3>1, <3>2 DEF RunInv
  <2> QED BY <2>1, <2>2
<1> QED BY <1>3, <1>4, <1>5

\* The prompt learner takes its copy of the rules.
LEMMA ReadStep ==
  ASSUME OneProcess, Sound, NEW r \in Runs, ReadRules(r)
  PROVE  ChangesInv' /\ Stay
<1> USE DEF Sound, ChangesInv
<1>0. PICK out \in SUBSET content["rules"] :
        /\ content' = [content EXCEPT !["rules"] = @ \ out]
        /\ base' = [base EXCEPT ![r] = content["rules"] \ out]
        /\ retired' = [retired EXCEPT ![r] = out]
        /\ newest' \in {newest, Row(txn[r])}
  BY DEF ReadRules, Retirable
<1>1. /\ UNCHANGED <<snaps, now, pc, scope, txn>>
      /\ pc[r] = "learn" /\ Holding(r) /\ pc' = [pc EXCEPT ![r] = "learn"] /\ Writing(r)
  BY TypeParts DEF ReadRules, Learning, clock, Holding, LocalsTyped, Writing
<1>2. DatedInv(r) /\ PendingInv(r) /\ ScopeInv(r) /\ SnapshotInv(r) /\ Dated(r)
  BY <1>1 DEF RunInv, Dated
<1>3. /\ "rules" \in pending[r] /\ pending'[r] = (pending[r] \ {"rules"}) \cup {"reply"}
      /\ base'[r] = content["rules"] \ out /\ retired'[r] = out /\ "rules" \in scope[r]
  BY <1>0, <1>2, TypeParts DEF ReadRules, LocalsTyped, ScopeInv
<1>4. /\ content'["rules"] = content["rules"] \ out
      /\ \A a \in Artefacts : content'[a] \subseteq content[a] /\ (a # "rules" => content'[a] = content[a])
  BY <1>0 DEF TypeOK, Artefacts
<1>5. Stay
  <2>1. "reply" \in pending'[r] /\ "reply" \notin pending[r]
    BY <1>2, <1>3 DEF PendingInv
  <2> QED BY <1>3, <1>4, <2>1 DEF Stay, Retires
<1>6. SnapsInv' /\ NewestInv'
  <2>1. \A t \in DOMAIN snaps : DOMAIN snaps[t] \subseteq Artefacts
    BY DEF TypeOK
  <2>2. SnapsInv'
    BY <1>1, <1>4, <2>1 DEF SnapsInv, Latest, Undoes
  <2>3. txn[r] \in Txns /\ Latest(txn[r])
    BY <1>2, TypeParts DEF DatedInv, LocalsTyped
  <2> QED BY <1>0, <1>1, <2>2, <2>3, NewestStays
<1>7. \A q \in Runs \ {r} : RunInv(q)'
  BY <1>1, OthersUndated, TypeParts DEF LocalsTyped
<1>8. RunInv(r)'
  <2>1. DatedInv(r)' /\ PendingInv(r)' /\ ScopeInv(r)' /\ SnapshotInv(r)'
    BY <1>0, <1>1, <1>2, <1>3 DEF DatedInv, PendingInv, ScopeInv, SnapshotInv, Latest, Row
  <2>2. Undoes(txn[r])
    BY <1>2 DEF SnapsInv, SnapshotInv, DatedInv
  <2>3. BaseInv(r)'
    BY <1>1, <1>2, <1>3, <1>4, <2>2 DEF BaseInv, SnapshotInv, Undoes
  <2> QED BY <2>1, <2>3 DEF RunInv
<1> QED BY <1>5, <1>6, <1>7, <1>8

\* The answer is written: the list that was read still holds all but r's own.
LEMMA WriteStep ==
  ASSUME OneProcess, Sound, NEW r \in Runs, WriteRules(r)
  PROVE  ChangesInv' /\ Stay
<1> USE DEF Sound, ChangesInv
<1>1. /\ UNCHANGED <<snaps, now, newest, pc, scope, txn>>
      /\ pc[r] = "learn" /\ Holding(r) /\ pc' = [pc EXCEPT ![r] = "learn"] /\ Writing(r)
  BY TypeParts DEF WriteRules, ForgetRules, Learning, clock, Holding, LocalsTyped, Writing
<1>2. DatedInv(r) /\ PendingInv(r) /\ ScopeInv(r) /\ SnapshotInv(r) /\ BaseInv(r)
  BY <1>1 DEF RunInv, Dated
<1>3. "reply" \in pending[r] /\ pending'[r] = pending[r] \ {"reply"}
  BY TypeParts DEF WriteRules, LocalsTyped
<1>4. /\ content'["rules"] = base[r] \cup {txn[r]}
      /\ \A a \in Artefacts : a # "rules" => content'[a] = content[a]
  BY DEF WriteRules, TypeOK, Artefacts
<1>5. Stay
  BY <1>2, <1>3, <1>4 DEF BaseInv, Stay, Retires
<1>6. SnapsInv'
  <2>1. \A t \in DOMAIN snaps : Latest(t) => t = txn[r]
    BY <1>2, OneLatest DEF DatedInv, SnapshotInv
  <2>2. Undoes(txn[r]) /\ DOMAIN snaps[txn[r]] \subseteq Artefacts
    BY <1>2 DEF SnapsInv, DatedInv, SnapshotInv, TypeOK
  <2>3. \A a \in DOMAIN snaps[txn[r]] : content'[a] \subseteq snaps[txn[r]][a] \cup {txn[r]}
    BY <1>2, <1>3, <1>4, <2>2 DEF Undoes, BaseInv
  <2> QED BY <1>1, <2>1, <2>3 DEF SnapsInv, Latest, Undoes
<1>7. NewestInv'
  BY <1>1 DEF NewestInv, Latest
<1>8. \A q \in Runs \ {r} : RunInv(q)'
  BY <1>1, OthersUndated, TypeParts DEF LocalsTyped
<1>9. RunInv(r)'
  <2>1. DatedInv(r)' /\ PendingInv(r)' /\ ScopeInv(r)' /\ BaseInv(r)'
    BY <1>1, <1>2, <1>3 DEF DatedInv, PendingInv, ScopeInv, BaseInv, Latest
  <2>2. SnapshotInv(r)'
    BY <1>1, <1>2, <1>3, <1>4 DEF SnapshotInv, BaseInv, PendingInv
  <2> QED BY <2>1, <2>2 DEF RunInv
<1> QED BY <1>5, <1>6, <1>7, <1>8, <1>9

\* Additions to a file by a learner that read nothing before.
LEMMA AddStep ==
  ASSUME OneProcess, Sound, NEW r \in Runs, Writing(r), UNCHANGED <<snaps, now, scope, txn, base, retired>>,
         NEW s \in {"learn", "record"}, pc' = [pc EXCEPT ![r] = s],
         newest' \in {newest, Row(txn[r])}, pending'[r] \subseteq pending[r],
         NEW a \in Artefacts, content' = [content EXCEPT ![a] = @ \cup {txn[r]}],
         pc[r] = s \/ "reply" \notin pending[r],
         a # "rules" \/ "reply" \notin pending[r]
  PROVE  ChangesInv' /\ Stay
<1> USE DEF Sound, ChangesInv
<1>1. Dated(r) /\ Holding(r) /\ pc'[r] = s
  BY TypeParts DEF Writing, Dated, Holding, LocalsTyped
<1>2. DatedInv(r) /\ PendingInv(r) /\ ScopeInv(r) /\ SnapshotInv(r) /\ BaseInv(r)
  BY <1>1 DEF RunInv
<1>3. SnapsInv'
  BY AddsItself
<1>4. NewestInv'
  <2>1. txn[r] \in Txns /\ Latest(txn[r])
    BY <1>2, TypeParts DEF DatedInv, LocalsTyped
  <2> QED BY <2>1, NewestStays
<1>5. \A b \in Artefacts : content[b] \subseteq content'[b] /\ (b # a => content'[b] = content[b])
  BY DEF TypeOK
<1>6. \A q \in Runs \ {r} : RunInv(q)'
  BY <1>1, OthersUndated, TypeParts DEF LocalsTyped
<1>7. RunInv(r)'
  <2>1. DatedInv(r)' /\ PendingInv(r)' /\ ScopeInv(r)'
    BY <1>1, <1>2 DEF DatedInv, PendingInv, ScopeInv, Latest, Row
  <2>2. SnapshotInv(r)'
    BY <1>2, <1>5 DEF SnapshotInv, Artefacts
  <2>3. BaseInv(r)'
    BY <1>2, <1>5 DEF BaseInv, Artefacts
  <2> QED BY <2>1, <2>2, <2>3 DEF RunInv
<1> QED BY <1>3, <1>4, <1>5, <1>6, <1>7 DEF Stay

\* Both rollback checks, with or without the flag.
LEMMA RollbackStep ==
  ASSUME Sound, NEW r \in Runs, Judge(r) \/ Summary(r)
  PROVE  ChangesInv' /\ Stay
<1> USE DEF Sound, ChangesInv
<1>1. /\ UNCHANGED <<snaps, now, scope, txn, pending, base, retired>>
      /\ pc[r] \in {"judge", "summary"} /\ pc' \in {[pc EXCEPT ![r] = "finish"], [pc EXCEPT ![r] = "idle"]}
      /\ Rollback \/ UNCHANGED <<content, newest>>
      /\ pc[r] = "judge" => pc' = [pc EXCEPT ![r] = "finish"]
      /\ pc[r] = "summary" => pc' = [pc EXCEPT ![r] = "idle"]
  BY DEF Judge, Summary, At, clock, NoRollback
<1>2. ASSUME NEW q \in Runs
      PROVE  /\ Dated(q)' => Dated(q)
             /\ Writing(q)' => Writing(q)
             /\ pc'[q] = pc[q] \/ q = r
  BY <1>1, TypeParts DEF Dated, Writing, LocalsTyped
<1>3. ASSUME NEW q \in Runs, Dated(q)' PROVE pc'[q] = pc[q] \/ "reply" \notin pending[q]
  BY <1>1, <1>2, <1>3 DEF RunInv, PendingInv, Dated
<1>4. CASE Rollback
  <2>1. SnapsInv' /\ NewestInv' /\ Stay
    <3>1. /\ SnapsInv' /\ NewestInv'
          /\ \A a \in Artefacts : content[a] \ content'[a] \subseteq {newest.txn}
          /\ newest' = Undone(newest.txn)
      BY <1>1, <1>4, RollbackUndoes
    <3> QED BY <3>1 DEF Stay
  <2>2. ASSUME NEW q \in Runs PROVE RunInv(q)'
    <3>1. CASE Dated(q)'
      BY <1>1, <1>2, <1>3, <1>4, <3>1, RollbackSpares
    <3>2. CASE ~Dated(q)'
      BY <3>2 DEF RunInv, Dated
    <3> QED BY <3>1, <3>2
  <2> QED BY <2>1, <2>2
<1>5. CASE UNCHANGED <<content, newest>>
  <2>1. SnapsInv' /\ NewestInv' /\ Stay
    BY <1>1, <1>5 DEF SnapsInv, NewestInv, Latest, Undoes, Stay
  <2>2. ASSUME NEW q \in Runs PROVE RunInv(q)'
    <3>1. DatedInv(q)' <=> DatedInv(q)
      BY <1>1, <1>5 DEF DatedInv, Latest
    <3>2. Dated(q)' => (PendingInv(q) => PendingInv(q)')
      BY <1>1, <1>3 DEF PendingInv
    <3>3. (ScopeInv(q)' <=> ScopeInv(q)) /\ (SnapshotInv(q)' <=> SnapshotInv(q)) /\ (BaseInv(q)' <=> BaseInv(q))
      BY <1>1, <1>5 DEF ScopeInv, SnapshotInv, BaseInv
    <3> QED BY <1>2, <3>1, <3>2, <3>3 DEF RunInv
  <2> QED BY <2>1, <2>2
<1> QED BY <1>1, <1>4, <1>5

LEMMA ChangesStep == OneProcess /\ Sound /\ [Next]_vars => ChangesInv' /\ Stay
<1> SUFFICES ASSUME OneProcess, Sound, [Next]_vars PROVE ChangesInv' /\ Stay
  OBVIOUS
<1>t. pc \in [Runs -> States] /\ pending \in [Runs -> SUBSET (Artefacts \cup {"reply"})]
  BY TypeParts DEF Sound, LocalsTyped
<1>n. ASSUME NEW r \in Runs, Writing(r), pc[r] # "learn" PROVE "reply" \notin pending[r]
  BY <1>n DEF Sound, ChangesInv, RunInv, Dated, PendingInv
<1>1. ASSUME NEW r \in Runs, Decline(r) PROVE ChangesInv' /\ Stay
  <2>1. UNCHANGED <<content, snaps, now>> /\ newest' = Blank /\ Holding(r) /\ pc' = [pc EXCEPT ![r] = "idle"]
    BY <1>1 DEF Decline, At, files, clock, Holding
  <2>2. SnapsInv' /\ NewestInv' /\ Stay
    BY <2>1, Dates, FilesStay, NewestStays DEF Sound, ChangesInv, Stay
  <2>3. \A q \in Runs \ {r} : RunInv(q)'
    BY <1>t, <2>1, OthersUndated DEF Sound
  <2>4. RunInv(r)'
    BY <1>t, <2>1 DEF RunInv, Dated, Writing
  <2> QED BY <2>2, <2>3, <2>4 DEF ChangesInv
<1>2. ASSUME NEW r \in Runs, JudgeFails(r) \/ Finish(r) PROVE ChangesInv' /\ Stay
  <2>1. /\ UNCHANGED <<content, snaps, now>> /\ newest' \in {Blank, Row(txn[r])} /\ Writing(r)
        /\ \E s \in {"idle", "summary"} : pc' = [pc EXCEPT ![r] = s]
    BY <1>2 DEF JudgeFails, Finish, At, files, clock, Writing
  <2>2. ~Dated(r)'
    BY <1>t, <2>1 DEF Dated, Writing
  <2> QED BY <2>1, <2>2, QuietStep
<1>3. ASSUME NEW r \in Runs, Join(r) PROVE ChangesInv' /\ Stay
  <2>1. /\ UNCHANGED <<content, snaps, now, newest, scope, txn, base, retired, pending>> /\ Writing(r)
        /\ pc' = [pc EXCEPT ![r] = "external"] /\ pending[r] = {}
    BY <1>3 DEF Join, At, files, clock, Writing
  <2> QED BY <2>1, QuietStep
<1>4. ASSUME NEW r \in Runs, NoExternal(r) \/ Record(r) PROVE ChangesInv' /\ Stay
  <2>1. /\ UNCHANGED <<content, snaps, now, scope, txn, base, retired, pending>> /\ Writing(r) /\ pc[r] # "learn"
        /\ newest' \in {newest, Row(txn[r])}
        /\ \E s \in {"record", "judge"} : pc' = [pc EXCEPT ![r] = s]
    BY <1>4 DEF NoExternal, Record, At, files, clock, Writing
  <2> QED BY <1>n, <2>1, QuietStep
<1>5. ASSUME NEW r \in Runs, NEW a \in Artefacts, Barren(r, a) PROVE ChangesInv' /\ Stay
  <2>1. /\ UNCHANGED <<content, snaps, now, scope, txn, base, retired, pc>> /\ pc[r] = "learn"
        /\ newest' \in {newest, Blank} /\ pending'[r] \subseteq pending[r] /\ pc' = [pc EXCEPT ![r] = "learn"]
    BY <1>5, <1>t DEF Barren, Learning, clock
  <2> QED BY <2>1, QuietStep DEF Writing
<1>8. ASSUME NEW r \in Runs, NoRules(r) \/ PromptsFail(r) PROVE ChangesInv' /\ Stay
  <2>1. /\ UNCHANGED <<content, snaps, now, scope, txn, pc>> /\ pc[r] = "learn"
        /\ newest' \in {newest, Blank} /\ pc' = [pc EXCEPT ![r] = "learn"]
        /\ pending'[r] \subseteq pending[r] /\ "reply" \notin pending'[r]
    BY <1>8, <1>t DEF NoRules, PromptsFail, Prompts, Learning, clock
  <2> QED BY <2>1, QuietStep DEF Writing
<1>6. ASSUME NEW r \in Runs, NEW a \in Artefacts, Append(r, a) PROVE ChangesInv' /\ Stay
  <2>1. /\ UNCHANGED <<snaps, now, scope, txn, base, retired, pc, newest>> /\ pc[r] = "learn" /\ a # "rules"
        /\ content' = [content EXCEPT ![a] = @ \cup {txn[r]}]
        /\ pending'[r] \subseteq pending[r] /\ pc' = [pc EXCEPT ![r] = "learn"]
    BY <1>6, <1>t DEF Append, Due, Learning, clock
  <2> QED BY <2>1, AddStep DEF Writing
<1>7. ASSUME NEW r \in Runs, LearnExternal(r) PROVE ChangesInv' /\ Stay
  <2>1. /\ UNCHANGED <<snaps, now, scope, txn, base, retired, pending>> /\ pc[r] = "external" /\ newest' = Row(txn[r])
        /\ content' = [content EXCEPT !["rules"] = @ \cup {txn[r]}] /\ pc' = [pc EXCEPT ![r] = "record"]
    BY <1>7 DEF LearnExternal, At, clock
  <2>2. Writing(r) /\ "reply" \notin pending[r] /\ "rules" \in Artefacts
    BY <1>n, <2>1 DEF Writing, Artefacts
  <2> QED BY <2>1, <2>2, AddStep
<1> QED BY <1>1, <1>2, <1>3, <1>4, <1>5, <1>6, <1>7, <1>8, OutsideStep, ExecuteStep, SnapshotStep, ReadStep, WriteStep, RollbackStep
        DEF Next, RunStep, Rest

LEMMA SoundInvariant == ASSUME OneProcess PROVE Spec => []Sound
<1>1. Init => Sound
  BY TypeInit, FlagInit, ChangesInit DEF Sound
<1>2. Sound /\ [Next]_vars => Sound'
  BY TypeStep, FlagStep, ChangesStep DEF Sound
<1> QED BY <1>1, <1>2, PTL DEF Spec

\* With all callers in one process a run finds its own snapshot directory until
\* it ends, whatever is pruned, for every number of directories kept.
THEOREM SnapshotKept == ASSUME OneProcess PROVE Spec => []ActiveSnapshotKept
<1>1. Sound => ActiveSnapshotKept
  BY DEF Sound, ChangesInv, RunInv, Writing, SnapshotInv, ActiveSnapshotKept
<1> QED BY <1>1, SoundInvariant, PTL

\* With all callers in one process a file loses a run's change only to a
\* rollback of that run, or because a prompt learner of a later run retired it
\* as a rule that does badly: the learners write over nothing else, and both
\* rollback checks take back one run at most.
THEOREM ChangesKept == ASSUME OneProcess PROVE Spec => ChangesStay
<1>1. Sound /\ [Next]_vars => 
        [\A a \in Artefacts : \A t \in content[a] \ content'[a] :
           \/ newest' = Undone(t)
           \/ a = "rules" /\ \E r \in Runs : pending'[r] # pending[r] /\ t \in retired[r] \cup retired'[r]]_vars
  BY ChangesStep DEF Stay, Retires
<1> QED BY <1>1, SoundInvariant, PTL DEF Spec, ChangesStay

-----------------------------------------------------------------------------
(* Decisions. *)

\* What a run marks was there when it chose its scope.
LEMMA MarksItsOwn == \A r \in Runs, generate \in BOOLEAN : ToMark(r, generate) \subseteq ids[r]
BY DEF ToMark

\* A decision is marked only by the record of a run that knew it from its start,
\* for any processes and callers, and whatever is decided meanwhile.
THEOREM LateDecisionsKept == Spec => LateDecisionsStay
<1> DEFINE Marks == \A d \in evolved' \ evolved : \E r \in Runs : pc[r] = "record" /\ pc'[r] = "judge" /\ d \in ids[r]
<1>1. ASSUME TypeOK, [Next]_vars PROVE Marks
  <2>t. pc \in [Runs -> States]
    BY <1>1, TypeParts DEF LocalsTyped
  <2>1. ASSUME NEW r \in Runs, Record(r) PROVE Marks
    <3>1. pc[r] = "record" /\ pc'[r] = "judge"
      BY <2>1, <2>t DEF Record, At
    <3>2. PICK generate \in BOOLEAN : evolved' = evolved \cup ToMark(r, generate)
      BY <2>1 DEF Record
    <3> QED BY <3>1, <3>2, MarksItsOwn
  <2>2. CASE UNCHANGED evolved
    BY <2>2
  <2>3. ASSUME NEW r \in Runs, Enter(r) \/ Skip(r) \/ RunStep(r), ~Record(r) PROVE UNCHANGED evolved
    <3>1. CASE Enter(r) \/ Skip(r) \/ Decline(r) \/ Execute(r) \/ Snapshot(r)
      BY <3>1 DEF Enter, Skip, Decline, Execute, Snapshot, decisions
    <3>2. CASE ReadRules(r) \/ WriteRules(r) \/ NoRules(r) \/ PromptsFail(r) \/ Join(r) \/ NoExternal(r) \/ LearnExternal(r)
      BY <3>2 DEF ReadRules, WriteRules, NoRules, PromptsFail, Learning, Join, NoExternal, LearnExternal, decisions
    <3>3. ASSUME NEW a \in Artefacts, Barren(r, a) \/ Append(r, a)
          PROVE UNCHANGED evolved
      BY <3>3 DEF Append, Barren, Learning, decisions
    <3>4. CASE Judge(r) \/ JudgeFails(r) \/ Finish(r) \/ Summary(r)
      BY <3>4 DEF Judge, JudgeFails, Finish, Summary, decisions
    <3> QED BY <2>3, <3>1, <3>2, <3>3, <3>4 DEF RunStep
  <2>4. ASSUME NEW p \in Procs, Exit(p) PROVE UNCHANGED evolved
    BY <2>4 DEF Exit, decisions
  <2>5. CASE Decide \/ Tick \/ Rest \/ UNCHANGED vars
    BY <2>5 DEF Decide, Tick, Rest, vars, decisions
  <2> QED BY <1>1, <2>1, <2>2, <2>3, <2>4, <2>5 DEF Next
<1>2. TypeOK /\ [Next]_vars => [Marks]_vars
  BY <1>1
<1> QED BY <1>2, TypeCorrect, PTL DEF Spec, LateDecisionsStay
=============================================================================
