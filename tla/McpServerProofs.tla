-------------------------- MODULE McpServerProofs --------------------------
(* Proofs about McpServer: its type invariant and, for any number of skills,
   contents, codes and scan ids, that only reviewed content starts and that a
   scan id serves once and in time.

   The argument looks at a step from two sides.  What it does to the scan cache
   and its history is one of three things (Effect): it keeps or drops entries,
   it issues a fresh id, or it spends one that is alive.  That alone preserves
   the relation of the cache to the history.  What it starts or confirms is
   then justified by the entry it spent or by a clean precheck, and stays
   justified because the history only grows.

   At the end, the reader of its stdin: for every input and every way in which
   its bytes arrive, what the calls return are its lines.                       *)
EXTENDS McpServer, McpStdin, TLAPS

-----------------------------------------------------------------------------
(* The inductive invariant. *)

\* What the cache holds was issued and has not been accepted yet.
CacheIsIssued == \A i \in Ids : cache[i] # None => cache[i] = issued[i] /\ spent[i] = 0

UnissuedUnspent == \A i \in Ids : issued[i] = None => spent[i] = 0

\* The contents that passed the two calls.
Passed == {h \in Hashes : Reviewed(h)}

ConfirmedPassed == \A s \in Skills : confirmed[s] \in Passed \cup {None}

\* The skill whose environment is being built was reviewed.
StartingPassed == starting # None /\ config.level = 3 => HashOf[starting.version] \in Passed

\* Until folders change, it is as it was checked.
StartingStands ==
  starting # None => /\ starting.at <= edits
                     /\ starting.at = edits => files[starting.skill] = starting.version

\* Code that runs without confirmation had no serious finding; the one that
\* runs with a confirmation is the one its scan id was issued for.
CodeRunJustified ==
  ran # None /\ ran.level = 3 /\ ran.kind = "code" =>
    \/ ran.by = NoId /\ Severity[ran.item] \in {"low", "medium"}
    \/ ran.by \in Issued /\ issued[ran.by].kind = "code" /\ issued[ran.by].item = ran.item /\ spent[ran.by] = 1

SkillRunJustified ==
  ran # None /\ ran.level = 3 /\ ran.kind = "skill" =>
    /\ HashOf[ran.item.checked.version] \in Passed
    /\ ran.item.checked.at = edits => ran.item.found = ran.item.checked.version

HistoryInv == CacheIsIssued /\ UnissuedUnspent /\ TokenUsedOnce

Justified == ConfirmedPassed /\ StartingPassed /\ CodeRunJustified /\ SkillRunJustified /\ CriticalNeverRuns

IInv == TypeOK /\ HistoryInv /\ Justified /\ StartingStands

-----------------------------------------------------------------------------
(* What a step does to the cache and the history. *)

Keeps == UNCHANGED history /\ cache' \in [Ids -> Scans \cup {None}] /\ \A i \in Ids : cache'[i] \in {cache[i], None}
Issues == \E scan \in Scans : Issue(scan)
Spends == \E i \in Ids : Alive(i) /\ Spend(i)
Effect == Keeps \/ Issues \/ Spends

LEMMA IdsNat == Ids \subseteq Nat /\ NoId \in Int /\ NoId \notin Ids
  BY BoundsAssumption DEF Ids, NoId

LEMMA SweptType ==
  ASSUME TypeOK PROVE Swept \in [Ids -> Scans \cup {None}] /\ \A i \in Ids : Swept[i] \in {cache[i], None}
  BY DEF TypeOK, Swept

LEMMA SweepKeeps == ASSUME TypeOK, Sweep PROVE Keeps
  BY SweptType DEF Sweep, Keeps

LEMMA CodeScanType ==
  ASSUME TypeOK, NEW c \in Codes, NEW fails \in BOOLEAN PROVE CodeScan(c, fails) \in Scans
  BY CodesAssumption DEF TypeOK, CodeScan, Scan, Scans

LEMMA HashType == ASSUME NEW v \in Versions PROVE HashOf[v] \in Hashes
  BY DEF Hashes

LEMMA CodeEffect == ASSUME TypeOK, ExecuteCode PROVE Effect
  <1> PICK c \in Codes : \/ \E fails \in BOOLEAN : ExecuteScanned(c, fails)
                         \/ \E i \in Ids \cup {NoId} : ExecuteConfirmed(c, i)
                         \/ Sweep /\ RunCode(c, 2, NoId)
    BY DEF ExecuteCode
  <1>1. CASE \E fails \in BOOLEAN : ExecuteScanned(c, fails)
    BY <1>1, CodeScanType DEF ExecuteScanned, Effect, Issues
  <1>2. CASE \E i \in Ids \cup {NoId} : ExecuteConfirmed(c, i)
    BY <1>2, SweepKeeps DEF ExecuteConfirmed, Accepts, Effect, Spends
  <1>3. CASE Sweep /\ RunCode(c, 2, NoId)
    BY <1>3, SweepKeeps DEF Effect
  <1> QED BY <1>1, <1>2, <1>3

LEMMA PrecheckEffect ==
  ASSUME TypeOK, NEW s \in Skills, files[s] # None, Precheck(s) PROVE Effect
  <1> DEFINE h == HashOf[files[s]]
             scan == Scan("skill", h, IF Review[h] = "critical" THEN "critical" ELSE "high")
  <1>1. scan \in Scans
    BY HashType DEF TypeOK, Scan, Scans
  <1>2. Sweep \/ Issue(scan)
    BY DEF Precheck
  <1> QED BY <1>1, <1>2, SweepKeeps DEF Effect, Issues

LEMMA ConfirmEffect ==
  ASSUME TypeOK, NEW s \in Skills, NEW i \in Ids, ConfirmWith(s, i) PROVE Effect
  <1>1. CASE TokenFor(s, i) /\ cache[i].severity # "critical"
    BY <1>1 DEF ConfirmWith, TokenFor, Effect, Spends
  <1>2. CASE ~(TokenFor(s, i) /\ cache[i].severity # "critical")
    BY <1>2, SweptType DEF ConfirmWith, Effect, Keeps
  <1> QED BY <1>1, <1>2

LEMMA SkillEffect == ASSUME TypeOK, RunSkill PROVE Effect
  BY SweepKeeps, PrecheckEffect, ConfirmEffect DEF RunSkill, Refuse, Effect

LEMMA StepEffect == ASSUME TypeOK, Next PROVE Effect
  <1>1. CASE ReadOnly \/ ScanCode
    BY <1>1, SweepKeeps, CodeScanType DEF ReadOnly, ScanCode, Effect, Issues
  <1>2. CASE StartSkill \/ SkillsChange \/ Tick
    BY <1>2 DEF StartSkill, SkillsChange, Tick, memory, Effect, Keeps, TypeOK
  <1>3. CASE Restart
    BY <1>3 DEF Restart, Effect, Keeps, TypeOK
  <1> QED BY <1>1, <1>2, <1>3, CodeEffect, SkillEffect DEF Next, Request

\* The relation of cache and history needs no more than the effect.
LEMMA HistoryStep == ASSUME TypeOK, HistoryInv, Effect PROVE HistoryInv'
  <1>1. CASE Keeps
    BY <1>1 DEF Keeps, history, HistoryInv, CacheIsIssued, UnissuedUnspent, TokenUsedOnce, TypeOK
  <1>2. CASE Issues
    <2> PICK scan \in Scans, i \in Ids :
          /\ Fresh(i) /\ UNCHANGED spent
          /\ cache' = [Swept EXCEPT ![i] = scan]
          /\ issued' = [issued EXCEPT ![i] = scan]
      BY <1>2 DEF Issues, Issue
    <2>1. CacheIsIssued'
      BY SweptType DEF HistoryInv, CacheIsIssued, UnissuedUnspent, TypeOK, Fresh
    <2>2. UnissuedUnspent' /\ TokenUsedOnce'
      BY DEF HistoryInv, UnissuedUnspent, TokenUsedOnce, TypeOK, Fresh
    <2> QED BY <2>1, <2>2 DEF HistoryInv
  <1>3. CASE Spends
    <2> PICK i \in Ids : Alive(i) /\ Spend(i)
      BY <1>3 DEF Spends
    <2>1. cache[i] = issued[i] /\ cache[i] # None /\ spent[i] = 0
      BY DEF Alive, HistoryInv, CacheIsIssued
    <2>2. CacheIsIssued'
      BY SweptType DEF HistoryInv, CacheIsIssued, TypeOK, Spend
    <2>3. UnissuedUnspent' /\ TokenUsedOnce'
      BY <2>1 DEF HistoryInv, UnissuedUnspent, TokenUsedOnce, TypeOK, Spend
    <2> QED BY <2>2, <2>3 DEF HistoryInv
  <1> QED BY <1>1, <1>2, <1>3 DEF Effect

\* What was issued stays, and confirmations are not taken back.
LEMMA HistoryGrows ==
  ASSUME TypeOK, Effect
  PROVE \A i \in Ids : /\ i \in Issued => i \in Issued' /\ issued'[i] = issued[i]
                       /\ spent'[i] >= spent[i]
  <1>1. CASE Keeps
    BY <1>1 DEF Keeps, history, Issued, TypeOK
  <1>2. CASE Issues
    BY <1>2 DEF Issues, Issue, Fresh, Issued, TypeOK
  <1>3. CASE Spends
    BY <1>3 DEF Spends, Spend, Issued, TypeOK
  <1> QED BY <1>1, <1>2, <1>3 DEF Effect

LEMMA ReviewStays ==
  ASSUME TypeOK, Effect, NEW h, Reviewed(h) PROVE Reviewed(h)'
  <1>1. CASE Review[h] = "clean"
    BY <1>1 DEF Reviewed
  <1>2. CASE Review[h] # "clean"
    <2> PICK i \in Issued : /\ issued[i].kind = "skill" /\ issued[i].item = h
                            /\ issued[i].severity # "critical" /\ spent[i] > 0
      BY <1>2 DEF Reviewed
    <2> i \in Ids
      BY DEF Issued
    <2>1. i \in Issued' /\ issued'[i] = issued[i] /\ spent'[i] >= spent[i]
      BY HistoryGrows
    <2>2. spent[i] \in Int /\ spent'[i] > 0
      <3>1. CASE Keeps
        BY <3>1 DEF Keeps, history, TypeOK
      <3>2. CASE Issues
        BY <3>2 DEF Issues, Issue, TypeOK
      <3>3. CASE Spends
        BY <3>3 DEF Spends, Spend, TypeOK
      <3> QED BY <3>1, <3>2, <3>3 DEF Effect
    <2> QED BY <2>1, <2>2 DEF Reviewed
  <1> QED BY <1>1, <1>2

-----------------------------------------------------------------------------
(* Types. *)

RunTypes == [kind : {"code", "skill"}, item : Codes \cup Starts, level : {2, 3}, by : Ids \cup {NoId}]

LEMMA LevelType == ASSUME TypeOK PROVE config.level \in {2, 3} /\ config.block \in BOOLEAN /\ config.approve \in BOOLEAN
  BY ConfigsAssumption DEF TypeOK

LEMMA RunCodeType ==
  ASSUME TypeOK, NEW c \in Codes, NEW level \in {2, 3}, NEW by \in Ids \cup {NoId}, RunCode(c, level, by)
  PROVE ran' \in {None} \cup RunTypes /\ confirmed' = confirmed /\ starting' = starting
  BY DEF RunCode, RunTypes

LEMMA ProceedType ==
  ASSUME TypeOK, NEW s \in Skills, NEW consent \in BOOLEAN, files[s] # None, Proceed(s, consent)
  PROVE ran' = None /\ starting' \in Requests \cup {None}
  BY DEF Proceed, TypeOK, Requests

LEMMA ConfirmType ==
  ASSUME TypeOK, NEW s \in Skills, files[s] # None, Confirm(s)
  PROVE confirmed' \in [Skills -> Hashes \cup {None}]
  <1>1. HashOf[files[s]] \in Hashes
    BY HashType DEF TypeOK
  <1> QED BY <1>1 DEF Confirm, TypeOK

Mine == /\ ran' \in {None} \cup RunTypes
        /\ confirmed' \in [Skills -> Hashes \cup {None}]
        /\ starting' \in Requests \cup {None}

LEMMA AnsweredType == ASSUME TypeOK, Answered PROVE Mine
  BY DEF Answered, Mine, TypeOK

LEMMA CodeType == ASSUME TypeOK, ExecuteCode PROVE Mine
  <1> PICK c \in Codes : \/ \E fails \in BOOLEAN : ExecuteScanned(c, fails)
                         \/ \E i \in Ids \cup {NoId} : ExecuteConfirmed(c, i)
                         \/ Sweep /\ RunCode(c, 2, NoId)
    BY DEF ExecuteCode
  <1>1. ASSUME NEW level \in {2, 3}, NEW by \in Ids \cup {NoId}, RunCode(c, level, by) PROVE Mine
    BY <1>1, RunCodeType DEF Mine, TypeOK
  <1>2. CASE \E fails \in BOOLEAN : ExecuteScanned(c, fails)
    BY <1>1, <1>2, AnsweredType DEF ExecuteScanned
  <1>3. CASE \E i \in Ids \cup {NoId} : ExecuteConfirmed(c, i)
    BY <1>1, <1>3, AnsweredType DEF ExecuteConfirmed
  <1>4. CASE Sweep /\ RunCode(c, 2, NoId)
    BY <1>1, <1>4
  <1> QED BY <1>2, <1>3, <1>4

LEMMA SkillType == ASSUME TypeOK, RunSkill PROVE Mine
  <1> PICK s \in Skills, consent \in BOOLEAN :
        IF files[s] = None \/ Blocked(s) THEN Refuse
        ELSE IF config.level # 3 \/ AlreadyConfirmed(s)
             THEN Sweep /\ Proceed(s, consent) /\ UNCHANGED confirmed
             ELSE IF ~consent THEN Precheck(s)
                  ELSE Refuse \/ \E i \in Ids : ConfirmWith(s, i)
    BY DEF RunSkill
  <1>1. CASE Answered
    BY <1>1, AnsweredType
  <1>2. ASSUME NEW c \in BOOLEAN, files[s] # None, Proceed(s, c), confirmed' = confirmed \/ Confirm(s) PROVE Mine
    BY <1>2, ProceedType, ConfirmType DEF Mine, TypeOK
  <1>3. CASE files[s] # None /\ Precheck(s)
    BY <1>1, <1>2, <1>3 DEF Precheck
  <1>4. ASSUME NEW i \in Ids, files[s] # None, ConfirmWith(s, i) PROVE Mine
    BY <1>1, <1>2, <1>4 DEF ConfirmWith
  <1> QED BY <1>1, <1>2, <1>3, <1>4 DEF Refuse

LEMMA StartType == ASSUME TypeOK, StartSkill PROVE Mine
  <1>1. CASE ran' = None
    BY <1>1 DEF StartSkill, Mine, TypeOK, memory
  <1>2. CASE /\ files[starting.skill] # None
             /\ ran' = [kind |-> "skill", item |-> [checked |-> starting, found |-> files[starting.skill]],
                        level |-> config.level, by |-> NoId]
    <2>1. starting \in Requests /\ files[starting.skill] \in Versions
      BY <1>2 DEF StartSkill, Requests, TypeOK
    <2>2. [checked |-> starting, found |-> files[starting.skill]] \in Starts
      BY <2>1 DEF Starts
    <2>3. ran' \in RunTypes
      BY <1>2, <2>2, LevelType, IdsNat DEF RunTypes
    <2> QED BY <2>3 DEF StartSkill, Mine, TypeOK, memory
  <1> QED BY <1>1, <1>2 DEF StartSkill

LEMMA StepType == ASSUME TypeOK, Next PROVE Mine
  <1>1. CASE ReadOnly \/ ScanCode
    BY <1>1, AnsweredType DEF ReadOnly, ScanCode
  <1>2. CASE SkillsChange \/ Tick \/ Restart
    BY <1>2 DEF SkillsChange, Tick, Restart, Mine, TypeOK, memory
  <1> QED BY <1>1, <1>2, CodeType, SkillType, StartType DEF Next, Request

LEMMA EffectType ==
  ASSUME TypeOK, Effect
  PROVE /\ cache' \in [Ids -> Scans \cup {None}]
        /\ issued' \in [Ids -> Scans \cup {None}]
        /\ spent' \in [Ids -> Nat]
  <1>1. CASE Keeps
    BY <1>1 DEF Keeps, history, TypeOK
  <1>2. CASE Issues
    BY <1>2, SweptType DEF Issues, Issue, TypeOK
  <1>3. CASE Spends
    BY <1>3, SweptType DEF Spends, Spend, TypeOK
  <1> QED BY <1>1, <1>2, <1>3 DEF Effect

LEMMA DiskType ==
  ASSUME TypeOK, Next
  PROVE /\ config' \in Configs
        /\ files' \in [Skills -> Versions \cup {None}]
        /\ manifest' \in [Skills -> [version : Versions, source : Sources] \cup {None}]
        /\ clock' \in 0..MaxClock /\ edits' \in 0..MaxEdits /\ restarts' \in 0..MaxRestarts
  <1>1. CASE Request /\ UNCHANGED <<config, disk, clock, restarts>>
    BY <1>1 DEF disk, TypeOK
  <1>2. CASE SkillsChange
    <2>1. files' \in [Skills -> Versions \cup {None}]
          /\ manifest' \in [Skills -> [version : Versions, source : Sources] \cup {None}]
      BY <1>2 DEF SkillsChange, Install, Edit, Uninstall, TypeOK
    <2>2. edits' \in 0..MaxEdits
      BY <1>2, BoundsAssumption DEF SkillsChange, TypeOK
    <2> QED BY <1>2, <2>1, <2>2 DEF SkillsChange, TypeOK
  <1>3. CASE Tick \/ Restart
    BY <1>3, BoundsAssumption DEF Tick, Restart, disk, TypeOK
  <1> QED BY <1>1, <1>2, <1>3 DEF Next

LEMMA TypeStep == ASSUME TypeOK, [Next]_vars PROVE TypeOK'
  <1>1. CASE Next
    BY <1>1, StepEffect, StepType, EffectType, DiskType DEF Mine, RunTypes, TypeOK
  <1>2. CASE UNCHANGED vars
    BY <1>2 DEF vars, memory, disk, history, TypeOK
  <1> QED BY <1>1, <1>2

LEMMA InitType == ASSUME Init PROVE TypeOK
  BY BoundsAssumption, VersionsAssumption DEF Init, TypeOK

\* Every variable keeps its type.
THEOREM TypeCorrect == Spec => []TypeOK
  BY InitType, TypeStep, PTL DEF Spec

-----------------------------------------------------------------------------
(* What starts was reviewed. *)

Quiet == UNCHANGED <<confirmed, starting>> /\ ran' = None

LEMMA PassedGrows == ASSUME TypeOK, Effect PROVE Passed \subseteq Passed'
  BY ReviewStays DEF Passed

\* A run, an environment or a confirmation that was already there.
LEMMA QuietJustified ==
  ASSUME IInv, Effect, confirmed' = confirmed \/ confirmed' = [s \in Skills |-> None],
         starting' = starting \/ starting' = None, ran' = None, config' = config
  PROVE Justified'
  BY PassedGrows DEF IInv, Justified, ConfirmedPassed, StartingPassed, CodeRunJustified, SkillRunJustified, CriticalNeverRuns

LEMMA CodeRunStep ==
  ASSUME IInv, Effect, NEW c \in Codes, NEW level \in {2, 3}, NEW by \in Ids \cup {NoId},
         RunCode(c, level, by), config' = config,
         level = 3 => \/ by = NoId /\ Severity[c] \in {"low", "medium"}
                      \/ by \in Issued' /\ issued'[by].kind = "code" /\ issued'[by].item = c /\ spent'[by] = 1
  PROVE Justified'
  <1>1. ConfirmedPassed' /\ StartingPassed' /\ SkillRunJustified'
    BY PassedGrows DEF IInv, Justified, RunCode, ConfirmedPassed, StartingPassed, SkillRunJustified
  <1>2. CriticalNeverRuns'
    BY DEF RunCode, RunnerAllows, CriticalNeverRuns
  <1>3. CodeRunJustified'
    BY DEF RunCode, CodeRunJustified
  <1> QED BY <1>1, <1>2, <1>3 DEF Justified

LEMMA CodeStep == ASSUME IInv, Effect, ExecuteCode, config' = config PROVE Justified'
  <1> PICK c \in Codes : \/ \E fails \in BOOLEAN : ExecuteScanned(c, fails)
                         \/ \E i \in Ids \cup {NoId} : ExecuteConfirmed(c, i)
                         \/ Sweep /\ RunCode(c, 2, NoId)
    BY DEF ExecuteCode
  <1>1. CASE Answered
    BY <1>1, QuietJustified DEF Answered
  <1>2. CASE \E fails \in BOOLEAN : ExecuteScanned(c, fails)
    <2> PICK fails \in BOOLEAN : ExecuteScanned(c, fails)
      BY <1>2
    <2>1. CASE ~Serious(CodeScan(c, fails))
      <3>1. Severity[c] \in {"low", "medium"}
        BY <2>1, CodesAssumption DEF Serious, CodeScan, Scan
      <3> QED BY <2>1, <3>1, CodeRunStep DEF ExecuteScanned
    <2> QED BY <1>1, <2>1 DEF ExecuteScanned
  <1>3. CASE \E i \in Ids \cup {NoId} : ExecuteConfirmed(c, i)
    <2> PICK i \in Ids \cup {NoId} : ExecuteConfirmed(c, i)
      BY <1>3
    <2>1. CASE i \in Ids /\ Accepts(c, i)
      <3>1. cache[i] = issued[i] /\ issued[i] # None /\ spent[i] = 0
        BY <2>1 DEF Accepts, Alive, IInv, HistoryInv, CacheIsIssued
      <3>2. i \in Issued' /\ issued'[i].kind = "code" /\ issued'[i].item = c /\ spent'[i] = 1
        BY <2>1, <3>1 DEF ExecuteConfirmed, Spend, Accepts, Issued, IInv, TypeOK
      <3> QED BY <2>1, <3>2, CodeRunStep DEF ExecuteConfirmed
    <2> QED BY <1>1, <2>1 DEF ExecuteConfirmed
  <1>4. CASE Sweep /\ RunCode(c, 2, NoId)
    BY <1>4, CodeRunStep
  <1> QED BY <1>2, <1>3, <1>4

\* run_skill goes on with a content that has passed, at Level 3.
LEMMA ProceedStep ==
  ASSUME IInv, Effect, NEW s \in Skills, NEW consent \in BOOLEAN, files[s] # None,
         Proceed(s, consent), confirmed' = confirmed \/ Confirm(s), config' = config,
         config.level = 3 \/ Confirm(s) => HashOf[files[s]] \in Passed'
  PROVE Justified'
  <1>1. ConfirmedPassed'
    <2>1. CASE confirmed' = confirmed
      BY <2>1, PassedGrows DEF IInv, Justified, ConfirmedPassed
    <2>2. CASE Confirm(s)
      BY <2>2, PassedGrows DEF Confirm, IInv, Justified, ConfirmedPassed, TypeOK
    <2> QED BY <2>1, <2>2
  <1>2. StartingPassed'
    BY PassedGrows DEF Proceed, IInv, Justified, StartingPassed
  <1> QED BY <1>1, <1>2 DEF Proceed, Justified, CodeRunJustified, SkillRunJustified, CriticalNeverRuns

LEMMA PrecheckStep ==
  ASSUME IInv, Effect, NEW s \in Skills, files[s] # None, Precheck(s), config' = config PROVE Justified'
  <1>1. HashOf[files[s]] \in Hashes
    BY HashType DEF IInv, TypeOK
  <1>2. CASE Review[HashOf[files[s]]] = "clean"
    <2>1. HashOf[files[s]] \in Passed'
      BY <1>1, <1>2 DEF Passed, Reviewed
    <2> QED BY <1>2, <2>1, ProceedStep DEF Precheck
  <1>3. CASE Review[HashOf[files[s]]] # "clean"
    BY <1>3, QuietJustified DEF Precheck, Answered
  <1> QED BY <1>2, <1>3

LEMMA ConfirmStep ==
  ASSUME IInv, Effect, NEW s \in Skills, NEW i \in Ids, files[s] # None, ConfirmWith(s, i), config' = config
  PROVE Justified'
  <1>1. CASE TokenFor(s, i) /\ cache[i].severity # "critical"
    <2>1. cache[i] = issued[i] /\ issued[i] # None /\ spent[i] = 0
      BY <1>1 DEF TokenFor, Alive, IInv, HistoryInv, CacheIsIssued
    <2>2. /\ i \in Issued' /\ spent'[i] > 0 /\ issued'[i].kind = "skill"
          /\ issued'[i].item = HashOf[files[s]] /\ issued'[i].severity # "critical"
      BY <1>1, <2>1 DEF ConfirmWith, Spend, TokenFor, Issued, IInv, TypeOK
    <2>3. HashOf[files[s]] \in Passed'
      BY <2>2, HashType DEF Passed, Reviewed, IInv, TypeOK
    <2> QED BY <1>1, <2>3, ProceedStep DEF ConfirmWith
  <1>2. CASE ~(TokenFor(s, i) /\ cache[i].severity # "critical")
    BY <1>2, QuietJustified DEF ConfirmWith, Answered
  <1> QED BY <1>1, <1>2

LEMMA SkillStep == ASSUME IInv, Effect, RunSkill, config' = config PROVE Justified'
  <1> PICK s \in Skills, consent \in BOOLEAN :
        IF files[s] = None \/ Blocked(s) THEN Refuse
        ELSE IF config.level # 3 \/ AlreadyConfirmed(s)
             THEN Sweep /\ Proceed(s, consent) /\ UNCHANGED confirmed
             ELSE IF ~consent THEN Precheck(s)
                  ELSE Refuse \/ \E i \in Ids : ConfirmWith(s, i)
    BY DEF RunSkill
  <1>1. CASE Refuse
    BY <1>1, QuietJustified DEF Refuse, Answered
  <1>2. CASE /\ files[s] # None
             /\ config.level # 3 \/ AlreadyConfirmed(s)
             /\ Proceed(s, consent) /\ UNCHANGED confirmed
    <2>1. CASE Confirm(s) \/ config.level = 3
      <3>1. HashOf[files[s]] \in Hashes
        BY <1>2, HashType DEF IInv, TypeOK
      <3>2. AlreadyConfirmed(s) => HashOf[files[s]] \in Passed
        BY <3>1, VersionsAssumption DEF AlreadyConfirmed, IInv, Justified, ConfirmedPassed
      <3>3. Confirm(s) => confirmed[s] = HashOf[files[s]]
        BY <1>2 DEF Confirm, IInv, TypeOK
      <3> QED BY <1>2, <2>1, <3>2, <3>3, PassedGrows, ProceedStep DEF AlreadyConfirmed, IInv
    <2>2. CASE ~(Confirm(s) \/ config.level = 3)
      BY <1>2, <2>2, ProceedStep
    <2> QED BY <2>1, <2>2
  <1>3. CASE files[s] # None /\ Precheck(s)
    BY <1>3, PrecheckStep
  <1>4. CASE files[s] # None /\ \E i \in Ids : ConfirmWith(s, i)
    BY <1>4, ConfirmStep
  <1> QED BY <1>1, <1>2, <1>3, <1>4

LEMMA StartStep == ASSUME IInv, Effect, StartSkill, config' = config, UNCHANGED disk PROVE Justified'
  <1>1. CASE ran' = None
    BY <1>1, QuietJustified DEF StartSkill, memory
  <1>2. CASE ran' = [kind |-> "skill", item |-> [checked |-> starting, found |-> files[starting.skill]],
                     level |-> config.level, by |-> NoId]
    <2>1. CodeRunJustified' /\ CriticalNeverRuns'
      BY <1>2 DEF CodeRunJustified, CriticalNeverRuns
    <2>2. SkillRunJustified'
      <3>1. config.level = 3 => HashOf[starting.version] \in Passed'
        BY PassedGrows DEF StartSkill, IInv, Justified, StartingPassed
      <3>2. starting.at = edits' => files[starting.skill] = starting.version
        BY DEF StartSkill, IInv, StartingStands, disk
      <3> QED BY <1>2, <3>1, <3>2 DEF SkillRunJustified
    <2>3. ConfirmedPassed' /\ StartingPassed'
      BY PassedGrows DEF StartSkill, memory, IInv, Justified, ConfirmedPassed, StartingPassed
    <2> QED BY <2>1, <2>2, <2>3 DEF Justified
  <1> QED BY <1>1, <1>2 DEF StartSkill

\* What is checked is noted with the number of changes so far.
LEMMA StandsStep == ASSUME IInv, Next PROVE StartingStands'
  <1>1. edits \in Nat /\ (starting # None => starting.at \in Nat)
    BY BoundsAssumption DEF IInv, TypeOK, Requests
  <1>2. CASE Request /\ UNCHANGED <<config, disk, clock, restarts>>
    <2>1. \/ starting' \in {starting, None}
          \/ \E s \in Skills, consent \in BOOLEAN : Proceed(s, consent)
      <3>1. CASE ReadOnly \/ ScanCode \/ ExecuteCode \/ StartSkill
        BY <3>1 DEF ReadOnly, ScanCode, ExecuteCode, ExecuteScanned, ExecuteConfirmed, RunCode, StartSkill, Answered
      <3>2. CASE RunSkill
        BY <3>2 DEF RunSkill, Refuse, Precheck, ConfirmWith, Answered
      <3> QED BY <1>2, <3>1, <3>2 DEF Request
    <2>2. CASE starting' \in {starting, None}
      BY <1>2, <2>2 DEF StartingStands, IInv, disk
    <2>3. ASSUME NEW s \in Skills, NEW consent \in BOOLEAN, Proceed(s, consent) PROVE StartingStands'
      <3>1. CASE starting' = [skill |-> s, version |-> files[s], consent |-> consent, at |-> edits]
        BY <1>1, <1>2, <3>1 DEF StartingStands, disk
      <3>2. CASE starting' = starting
        BY <1>2, <3>2 DEF StartingStands, IInv, disk
      <3> QED BY <2>3, <3>1, <3>2 DEF Proceed
    <2> QED BY <2>1, <2>2, <2>3
  <1>3. CASE SkillsChange
    BY <1>1, <1>3 DEF SkillsChange, StartingStands, IInv
  <1>4. CASE Tick \/ Restart
    BY <1>4 DEF Tick, Restart, StartingStands, IInv, disk
  <1> QED BY <1>2, <1>3, <1>4 DEF Next

LEMMA JustifiedStep == ASSUME IInv, Next PROVE Justified'
  <1>1. Effect
    BY StepEffect DEF IInv
  <1>2. config' = config
    BY DEF Next, SkillsChange, Tick, Restart
  <1>3. CASE ReadOnly \/ ScanCode \/ SkillsChange \/ Tick \/ Restart
    BY <1>1, <1>2, <1>3, QuietJustified DEF ReadOnly, ScanCode, Answered, SkillsChange, Tick, Restart, memory
  <1>4. CASE StartSkill /\ UNCHANGED <<config, disk, clock, restarts>>
    BY <1>1, <1>2, <1>4, StartStep
  <1> QED BY <1>1, <1>2, <1>3, <1>4, CodeStep, SkillStep DEF Next, Request

LEMMA IInvStep == ASSUME IInv, [Next]_vars PROVE IInv'
  <1>1. TypeOK'
    BY TypeStep DEF IInv
  <1>2. CASE Next
    BY <1>1, <1>2, StepEffect, HistoryStep, JustifiedStep, StandsStep DEF IInv
  <1>3. CASE UNCHANGED vars
    BY <1>1, <1>3 DEF IInv, HistoryInv, CacheIsIssued, UnissuedUnspent, TokenUsedOnce, Justified, ConfirmedPassed,
      StartingPassed, CodeRunJustified, SkillRunJustified, CriticalNeverRuns, Passed, Reviewed, Issued, StartingStands,
      vars, memory, disk, history
  <1> QED BY <1>2, <1>3

LEMMA InitIInv == ASSUME Init PROVE IInv
  BY InitType DEF Init, IInv, HistoryInv, CacheIsIssued, UnissuedUnspent, TokenUsedOnce, Justified, ConfirmedPassed,
    StartingPassed, CodeRunJustified, SkillRunJustified, CriticalNeverRuns, StartingStands

LEMMA Invariant == Spec => []IInv
  BY InitIInv, IInvStep, PTL DEF Spec

\* A scan id is accepted once.
THEOREM ScanIdsServeOnce == Spec => []TokenUsedOnce
  <1>1. IInv => TokenUsedOnce
    BY DEF IInv, HistoryInv
  <1> QED BY <1>1, Invariant, PTL

\* A skill counts as confirmed only for content that was reviewed.
THEOREM OnlyReviewedIsConfirmed == Spec => []ConfirmedWasReviewed
  <1>1. IInv => ConfirmedWasReviewed
    BY DEF IInv, Justified, ConfirmedPassed, Passed, ConfirmedWasReviewed
  <1> QED BY <1>1, Invariant, PTL

\* At Level 3 only reviewed content starts.
THEOREM OnlyReviewedRuns == Spec => []RunsWereReviewed
  <1>1. IInv => RunsWereReviewed
    BY DEF IInv, TypeOK, Justified, CodeRunJustified, SkillRunJustified, Passed, RunsWereReviewed
  <1> QED BY <1>1, Invariant, PTL

\* Code with critical findings never runs.
THEOREM CriticalIsFinal == Spec => []CriticalNeverRuns
  <1>1. IInv => CriticalNeverRuns
    BY DEF IInv, Justified
  <1> QED BY <1>1, Invariant, PTL

-----------------------------------------------------------------------------
(* Action properties. *)

\* An expired scan confirms nothing.
LEMMA TimelyStep == ASSUME IInv, Next, NEW i \in Ids, spent'[i] > spent[i] PROVE clock - issued[i].born < Ttl
  <1>1. spent[i] \in Nat /\ cache[i] \in Scans \cup {None}
    BY DEF IInv, TypeOK
  <1>2. Effect
    BY StepEffect DEF IInv
  <1>3. Alive(i)
    <2>1. CASE Keeps
      BY <1>1, <2>1 DEF Keeps, history
    <2>2. CASE Issues
      BY <1>1, <2>2 DEF Issues, Issue
    <2>3. CASE Spends
      BY <1>1, <2>3 DEF Spends, Spend, IInv, TypeOK
    <2> QED BY <1>2, <2>1, <2>2, <2>3 DEF Effect
  <1> QED BY <1>3 DEF Alive, IInv, HistoryInv, CacheIsIssued

LEMMA OnceStep == ASSUME IInv, Next, NEW i \in Ids, spent'[i] > spent[i] PROVE spent[i] = 0
  <1>1. spent[i] \in Nat /\ spent'[i] \in Nat /\ spent'[i] <= 1
    BY IInvStep DEF IInv, HistoryInv, TokenUsedOnce, TypeOK
  <1> QED BY <1>1

\* TokensHold: a scan id is accepted once, and for no scan that has expired.
THEOREM TokensServe == Spec => TokensHold
  <1>1. IInv /\ Next => \A i \in Ids : spent'[i] > spent[i] => spent[i] = 0 /\ clock - issued[i].born < Ttl
    BY TimelyStep, OnceStep
  <1>2. IInv /\ [Next]_vars =>
          [\A i \in Ids : spent'[i] > spent[i] => spent[i] = 0 /\ clock - issued[i].born < Ttl]_vars
    BY <1>1
  <1> QED BY <1>2, Invariant, PTL DEF Spec, TokensHold

\* With the supply-chain block, only unchanged and consented skills start.
LEMMA TrustedProceeds ==
  ASSUME TypeOK, NEW s \in Skills, NEW consent \in BOOLEAN, files[s] # None, config.block, ~Blocked(s),
         Proceed(s, consent), starting = None, starting' # None
  PROVE /\ starting'.skill = s
        /\ manifest[s] # None => manifest[s].version = starting'.version
        /\ (manifest[s] = None \/ manifest[s].source # "official") => starting'.consent
  <1>1. starting' = [skill |-> s, version |-> files[s], consent |-> consent, at |-> edits] /\ (NeedsConsent(s) => consent)
    BY DEF Proceed
  <1>2. manifest[s] # None => manifest[s].version = files[s]
    BY DEF Blocked, Trust, Status
  <1>3. (manifest[s] = None \/ manifest[s].source # "official") => ~(SourceScore(s) + 48 >= 65)
    <2>1. manifest[s] # None => manifest[s].source \in {"official", "repository", "local"}
      BY VersionsAssumption DEF TypeOK
    <2> QED BY <2>1 DEF SourceScore
  <1>4. (manifest[s] = None \/ manifest[s].source # "official") => NeedsConsent(s)
    <2>1. Trust(s) # "Deny"
      BY DEF Blocked
    <2>2. (manifest[s] = None \/ manifest[s].source # "official") => Trust(s) = "RequireConfirm"
      BY <1>3, <2>1 DEF Trust
    <2> QED BY <2>2 DEF NeedsConsent
  <1> QED BY <1>1, <1>2, <1>4

\* What SupplyChainBlockHolds says of one step.
KeepsBlock ==
  config.block /\ starting = None /\ starting' # None =>
    LET s == starting'.skill IN
    /\ manifest[s] # None => manifest[s].version = starting'.version
    /\ (manifest[s] = None \/ manifest[s].source # "official") => starting'.consent

LEMMA BlockStep == ASSUME TypeOK, Next PROVE KeepsBlock
  <1> SUFFICES ASSUME config.block, starting = None, starting' # None PROVE KeepsBlock
    BY DEF KeepsBlock
  <1>1. RunSkill
    BY DEF Next, Request, ReadOnly, ScanCode, ExecuteCode, ExecuteScanned, ExecuteConfirmed, RunCode, Answered,
      StartSkill, SkillsChange, Tick, Restart
  <1>2. PICK s \in Skills, consent \in BOOLEAN :
          IF files[s] = None \/ Blocked(s) THEN Refuse
          ELSE IF config.level # 3 \/ AlreadyConfirmed(s)
               THEN Sweep /\ Proceed(s, consent) /\ UNCHANGED confirmed
               ELSE IF ~consent THEN Precheck(s)
                    ELSE Refuse \/ \E i \in Ids : ConfirmWith(s, i)
    BY <1>1 DEF RunSkill
  <1>3. ~Refuse /\ ~Answered
    BY DEF Refuse, Answered
  <1>4. files[s] # None /\ ~Blocked(s)
    BY <1>2, <1>3
  <1>5. \E c \in BOOLEAN : Proceed(s, c)
    BY <1>2, <1>3 DEF Precheck, ConfirmWith
  <1> QED BY <1>4, <1>5, TrustedProceeds DEF KeepsBlock

THEOREM SupplyChainBlockHolds == Spec => BlockHolds
  <1>1. TypeOK /\ [Next]_vars => [KeepsBlock]_vars
    BY BlockStep
  <1>2. Spec => [][KeepsBlock]_vars
    BY <1>1, TypeCorrect, PTL DEF Spec
  <1>3. [KeepsBlock]_vars <=> [config.block /\ starting = None /\ starting' # None =>
        LET s == starting'.skill IN
        /\ manifest[s] # None => manifest[s].version = starting'.version
        /\ (manifest[s] = None \/ manifest[s].source # "official") => starting'.consent]_vars
    BY DEF KeepsBlock
  <1> QED BY <1>2, <1>3, PTL DEF BlockHolds

-----------------------------------------------------------------------------
(* The properties of the runs.                                                *)

\* RunsAreReviewed: over any requests, edits, restarts and settings, what is
\* confirmed was reviewed, so is what Level 3 starts unless folders changed since
\* the skill was checked, and critical code never runs.
THEOREM GateHolds == Spec => []RunsAreReviewed
  BY OnlyReviewedIsConfirmed, OnlyReviewedRuns, CriticalIsFinal, PTL DEF RunsAreReviewed

-----------------------------------------------------------------------------
(* The reader of the server's stdin, for inputs of every size and every limit. *)

Answers == [kind : {"error", "line"}, first : Nat, last : Nat]

ReaderTypeOK ==
  /\ stdin.bytes \in Nat /\ stdin.newlines \in SUBSET (1..stdin.bytes)
  /\ consumed \in 0..stdin.bytes /\ begun \in 0..consumed
  /\ skipping \in BOOLEAN
  /\ got \in Seq(Answers)

\* What the current call has consumed holds no newline, and the call skips
\* exactly when this is too much.
CallIsInLine ==
  /\ stdin.newlines \cap (begun + 1)..consumed = {}
  /\ skipping <=> consumed - begun > Limit

\* The current call begins behind the newline that ended the last answer, or
\* at the end of the input.
CallFollows ==
  IF got = <<>> THEN begun = 0
  ELSE LET last == got[Len(got)].last
       IN  \/ begun = last + 1 /\ begun \in stdin.newlines
           \/ begun = last /\ begun = stdin.bytes

\* Each answer is a line, with the kind its length calls for.
Framed(i) ==
  /\ Follows(i)
  /\ got[i].kind = IF got[i].last - got[i].first >= Limit THEN "error" ELSE "line"

ReaderInv ==
  /\ ReaderTypeOK
  /\ CallIsInLine
  /\ CallFollows
  /\ \A i \in DOMAIN got : Framed(i)

\* Each input has its newlines among its bytes.
LEMMA InputShape ==
  ASSUME NEW i \in Inputs
  PROVE  i.bytes \in Nat /\ i.newlines \in SUBSET (1..i.bytes)
  BY LimitAssumption DEF Inputs

\* The first newline of what is available.
LEMMA PositionShape ==
  ASSUME ReaderTypeOK, NEW upto \in Places, NEW n \in Position(upto)
  PROVE  /\ n \in stdin.newlines /\ n \in Nat
         /\ consumed + 1 <= n /\ n <= upto /\ upto <= stdin.bytes
         /\ stdin.newlines \cap (consumed + 1)..(n - 1) = {}
  <1>1. /\ n \in stdin.newlines /\ n \in (consumed + 1)..upto
        /\ \A m \in stdin.newlines \cap (consumed + 1)..upto : n <= m
    BY DEF Position, Newlines
  <1>2. consumed \in Nat /\ stdin.bytes \in Nat /\ upto \in Nat /\ upto <= stdin.bytes
    BY DEF ReaderTypeOK, Places
  <1>3. n \in Nat /\ consumed + 1 <= n /\ n <= upto
    BY <1>1, <1>2
  <1>4. ASSUME NEW m \in stdin.newlines, m \in (consumed + 1)..(n - 1)
        PROVE  FALSE
    <2>1. m \in (consumed + 1)..upto /\ ~(n <= m)
      BY <1>2, <1>3, <1>4
    <2> QED BY <1>1, <2>1, <1>4
  <1> QED BY <1>1, <1>2, <1>3, <1>4

\* A call that returns the bytes of a line, or an error for them, and leaves
\* the rest of the input to the next one.
LEMMA ReturnKeeps ==
  ASSUME ReaderInv, NEW kind \in {"error", "line"}, NEW last \in Nat, NEW end \in Nat,
         Returns(kind, last), stdin' = stdin, consumed' = end, begun' = end, skipping' = FALSE,
         begun < stdin.bytes,
         begun <= last, last <= end, consumed <= end, end <= stdin.bytes,
         stdin.newlines \cap (begun + 1)..last = {},
         \/ end = last + 1 /\ end \in stdin.newlines
         \/ end = last /\ last = stdin.bytes /\ begun < last,
         kind = IF last - begun > Limit THEN "error" ELSE "line"
  PROVE  ReaderInv'
  <1> DEFINE answer == [kind |-> kind, first |-> begun + 1, last |-> last]
  <1>0. PICK n \in Nat : n = Len(got)
    BY DEF ReaderInv, ReaderTypeOK
  <1>1. /\ n \in Nat /\ begun \in Nat /\ consumed \in Nat /\ stdin.bytes \in Nat
        /\ n = Len(got) /\ DOMAIN got = 1..n
        /\ got \in Seq(Answers) /\ answer \in Answers /\ Limit \in Nat
    BY LimitAssumption, <1>0 DEF ReaderInv, ReaderTypeOK, Answers
  <1>2. got' = Append(got, answer)
    BY DEF Returns
  <1>3. /\ got' \in Seq(Answers) /\ Len(got') = n + 1 /\ DOMAIN got' = 1..(n + 1)
        /\ got'[n + 1] = answer /\ \A i \in 1..n : got'[i] = got[i]
    <2> HIDE DEF answer
    <2> QED BY <1>1, <1>2
  <1>4. ReaderTypeOK'
    <2>1. end \in 0..stdin.bytes /\ end \in 0..end
      BY <1>1
    <2> HIDE DEF answer
    <2> QED BY <2>1, <1>3 DEF ReaderInv, ReaderTypeOK
  <1>5. CallIsInLine'
    BY <1>1 DEF CallIsInLine
  <1>6. got' # <<>> /\ got'[Len(got')].last = last
    BY <1>1, <1>3
  <1>7. CallFollows'
    BY <1>6 DEF CallFollows
  <1>8. ASSUME NEW i \in 1..n
        PROVE  Framed(i)'
    <2>1. Framed(i) /\ got'[i] = got[i] /\ got[i] \in Answers
      BY <1>1, <1>3 DEF ReaderInv
    <2>2. i # 1 => i - 1 \in 1..n /\ got'[i - 1] = got[i - 1]
      BY <1>1, <1>3
    <2>3. \/ got[i].last + 1 \in stdin.newlines
          \/ got[i].last = stdin.bytes /\ got[i].first <= got[i].last /\ i = n
      BY <1>1, <2>1 DEF Framed, Follows
    <2>4. i = n => got[i].last # stdin.bytes \/ got[i].last + 1 \in stdin.newlines
      <3>1. SUFFICES ASSUME i = n, got[i].last = stdin.bytes PROVE FALSE
        OBVIOUS
      <3>2. got # <<>>
        BY <1>1
      <3>3. begun = stdin.bytes + 1 \/ begun = stdin.bytes
        BY <1>1, <3>1, <3>2 DEF ReaderInv, CallFollows
      <3> QED BY <3>3, <1>1
    <2>5. got[i].last + 1 \in stdin.newlines
      BY <2>3, <2>4
    <2>6. /\ got[i].first = IF i = 1 THEN 1 ELSE got[i - 1].last + 2
          /\ stdin.newlines \cap got[i].first..got[i].last = {}
          /\ got[i].kind = IF got[i].last - got[i].first >= Limit THEN "error" ELSE "line"
      BY <2>1 DEF Framed, Follows
    <2> QED BY <2>1, <2>2, <2>5, <2>6 DEF Framed, Follows
  <1>9. Framed(n + 1)'
    <2>1. got'[n + 1].first = begun + 1 /\ got'[n + 1].last = last /\ got'[n + 1].kind = kind
      BY <1>3
    <2>2. begun + 1 = IF n + 1 = 1 THEN 1 ELSE got'[n].last + 2
      <3>1. CASE n = 0
        <4>1. got = <<>>
          BY <3>1, <1>1
        <4> QED BY <4>1, <3>1, <1>1 DEF ReaderInv, CallFollows
      <3>2. CASE n # 0
        <4>1. got # <<>> /\ n \in 1..n /\ got'[n] = got[n] /\ got[n] \in Answers
          BY <3>2, <1>1, <1>3
        <4>2. begun = got[n].last + 1
          BY <4>1, <1>1 DEF ReaderInv, CallFollows
        <4> QED BY <4>1, <4>2, <3>2, <1>1 DEF Answers
      <3> QED BY <3>1, <3>2
    <2>3. (n + 1) - 1 = n
      BY <1>1
    <2>4. last - begun > Limit <=> last - (begun + 1) >= Limit
      BY <1>1
    <2>5. \/ last + 1 \in stdin.newlines
          \/ last = stdin.bytes /\ begun + 1 <= last /\ n + 1 = Len(got')
      BY <1>1, <1>3
    <2>6. Follows(n + 1)'
      BY <2>1, <2>2, <2>3, <2>5 DEF Follows
    <2>7. kind = IF last - (begun + 1) >= Limit THEN "error" ELSE "line"
      BY <2>4
    <2> QED BY <2>1, <2>6, <2>7 DEF Framed
  <1>10. ASSUME NEW i \in DOMAIN got' PROVE Framed(i)'
    <2>1. i \in 1..n \/ i = n + 1
      BY <1>1, <1>3
    <2> QED BY <2>1, <1>8, <1>9
  <1> QED BY <1>4, <1>5, <1>7, <1>10 DEF ReaderInv

\* A call that consumes more of a line without its newline.
LEMMA PartKeeps ==
  ASSUME ReaderInv, NEW upto \in Places, Newlines(upto) = {},
         stdin' = stdin, begun' = begun, got' = got, consumed' = upto,
         skipping' \in BOOLEAN, skipping' <=> upto - begun > Limit
  PROVE  ReaderInv'
  <1>1. /\ begun \in Nat /\ consumed \in Nat /\ stdin.bytes \in Nat /\ upto \in Nat
        /\ begun <= consumed /\ consumed + 1 <= upto /\ upto <= stdin.bytes
    BY DEF ReaderInv, ReaderTypeOK, Places
  <1>2. ReaderTypeOK'
    BY <1>1 DEF ReaderInv, ReaderTypeOK
  <1>3. stdin.newlines \cap (begun + 1)..upto = {}
    <2>1. (begun + 1)..upto \subseteq (begun + 1)..consumed \cup (consumed + 1)..upto
      BY <1>1
    <2>2. /\ stdin.newlines \cap (begun + 1)..consumed = {}
          /\ stdin.newlines \cap (consumed + 1)..upto = {}
      BY DEF ReaderInv, CallIsInLine, Newlines
    <2> QED BY <2>1, <2>2
  <1>4. CallIsInLine'
    BY <1>3 DEF CallIsInLine
  <1>5. CallFollows'
    BY DEF ReaderInv, CallFollows
  <1>6. ASSUME NEW i \in DOMAIN got' PROVE Framed(i)'
    BY <1>6 DEF ReaderInv, Framed, Follows
  <1> QED BY <1>2, <1>4, <1>5, <1>6 DEF ReaderInv

\* One fill_buf in the middle of the input.
LEMMA ReadKeeps ==
  ASSUME ReaderInv, NEW upto \in Places,
         TakeLine(upto) \/ TakePart(upto) \/ Overflow(upto) \/ SkipPart(upto) \/ SkipEnd(upto)
  PROVE  ReaderInv'
  <1>1. /\ begun \in Nat /\ consumed \in Nat /\ stdin.bytes \in Nat /\ Limit \in Nat
        /\ upto \in Nat /\ begun <= consumed /\ consumed + 1 <= upto /\ upto <= stdin.bytes
        /\ ReaderTypeOK /\ skipping \in BOOLEAN
    BY LimitAssumption DEF ReaderInv, ReaderTypeOK, Places
  <1>2. skipping <=> consumed - begun > Limit
    BY DEF ReaderInv, CallIsInLine
  <1>3. ASSUME NEW n \in Position(upto)
        PROVE  /\ n \in stdin.newlines /\ n \in Nat /\ n - 1 \in Nat
               /\ consumed + 1 <= n /\ n <= stdin.bytes
               /\ stdin.newlines \cap (begun + 1)..(n - 1) = {}
    <2>1. /\ n \in stdin.newlines /\ n \in Nat
          /\ consumed + 1 <= n /\ n <= upto /\ upto <= stdin.bytes
          /\ stdin.newlines \cap (consumed + 1)..(n - 1) = {}
      BY <1>1, PositionShape
    <2>2. (begun + 1)..(n - 1) \subseteq (begun + 1)..consumed \cup (consumed + 1)..(n - 1)
      BY <1>1, <2>1
    <2>3. stdin.newlines \cap (begun + 1)..consumed = {}
      BY DEF ReaderInv, CallIsInLine
    <2>4. n - 1 \in Nat /\ n <= stdin.bytes
      BY <1>1, <2>1
    <2> QED BY <2>1, <2>2, <2>3, <2>4
  <1>4. CASE TakeLine(upto)
    <2>1. PICK n \in Position(upto) :
            /\ Returns(IF n - 1 - begun > Limit THEN "error" ELSE "line", n - 1)
            /\ consumed' = n /\ begun' = n
      BY <1>4 DEF TakeLine
    <2>2. stdin' = stdin /\ skipping' = FALSE
      BY <1>1, <1>4 DEF TakeLine
    <2>3. /\ n \in stdin.newlines /\ n \in Nat /\ n - 1 \in Nat
          /\ consumed + 1 <= n /\ n <= stdin.bytes
          /\ stdin.newlines \cap (begun + 1)..(n - 1) = {}
      BY <1>3
    <2>4. begun < stdin.bytes /\ begun <= n - 1 /\ n - 1 <= n /\ consumed <= n /\ n = (n - 1) + 1
      BY <1>1, <2>3
    <2> DEFINE kind == IF n - 1 - begun > Limit THEN "error" ELSE "line"
    <2>5. kind \in {"error", "line"} /\ kind = IF (n - 1) - begun > Limit THEN "error" ELSE "line"
      OBVIOUS
    <2>6. Returns(kind, n - 1)
      BY <2>1
    <2> HIDE DEF kind
    <2> QED BY <2>1, <2>2, <2>3, <2>4, <2>5, <2>6, ReturnKeeps
  <1>5. CASE TakePart(upto)
    BY <1>1, <1>5, PartKeeps DEF TakePart
  <1>6. CASE Overflow(upto)
    BY <1>1, <1>6, PartKeeps DEF Overflow
  <1>7. CASE SkipPart(upto)
    <2>1. upto - begun > Limit
      BY <1>1, <1>2, <1>7 DEF SkipPart
    <2> QED BY <1>1, <1>7, <2>1, PartKeeps DEF SkipPart
  <1>8. CASE SkipEnd(upto)
    <2>1. PICK n \in Position(upto) : Returns("error", n - 1) /\ consumed' = n /\ begun' = n
      BY <1>8 DEF SkipEnd
    <2>2. stdin' = stdin /\ skipping' = FALSE /\ skipping
      BY <1>8 DEF SkipEnd
    <2>3. /\ n \in stdin.newlines /\ n \in Nat /\ n - 1 \in Nat
          /\ consumed + 1 <= n /\ n <= stdin.bytes
          /\ stdin.newlines \cap (begun + 1)..(n - 1) = {}
      BY <1>3
    <2>4. begun < stdin.bytes /\ begun <= n - 1 /\ n - 1 <= n /\ consumed <= n /\ n = (n - 1) + 1
      BY <1>1, <2>3
    <2>5. "error" = IF (n - 1) - begun > Limit THEN "error" ELSE "line"
      BY <1>1, <1>2, <2>2, <2>3
    <2> QED BY <2>1, <2>2, <2>3, <2>4, <2>5, ReturnKeeps
  <1> QED BY <1>4, <1>5, <1>6, <1>7, <1>8

\* The end of the input, which may end a line.
LEMMA EndKeeps ==
  ASSUME ReaderInv, EndOfLine
  PROVE  ReaderInv'
  <1>1. /\ begun \in Nat /\ consumed \in Nat /\ stdin.bytes \in Nat /\ Limit \in Nat
        /\ begun <= consumed /\ skipping \in BOOLEAN
    BY LimitAssumption DEF ReaderInv, ReaderTypeOK
  <1>2. /\ skipping <=> consumed - begun > Limit
        /\ stdin.newlines \cap (begun + 1)..consumed = {}
    BY DEF ReaderInv, CallIsInLine
  <1>3. /\ consumed = stdin.bytes /\ (skipping \/ begun < consumed)
        /\ Returns(IF skipping THEN "error" ELSE "line", consumed)
        /\ begun' = consumed /\ skipping' = FALSE /\ stdin' = stdin /\ consumed' = consumed
    BY DEF EndOfLine
  <1>4. begun < consumed
    BY <1>1, <1>2, <1>3
  <1> DEFINE kind == IF skipping THEN "error" ELSE "line"
  <1>5. kind \in {"error", "line"} /\ kind = IF consumed - begun > Limit THEN "error" ELSE "line"
    BY <1>2
  <1>6. Returns(kind, consumed)
    BY <1>3
  <1>7. /\ begun < stdin.bytes /\ begun <= consumed /\ consumed <= consumed
        /\ consumed <= stdin.bytes /\ consumed = stdin.bytes
    BY <1>1, <1>3, <1>4
  <1> HIDE DEF kind
  <1> QED BY <1>1, <1>2, <1>3, <1>4, <1>5, <1>6, <1>7, ReturnKeeps

\* Before anything is read.
LEMMA UnreadInv ==
  ASSUME stdin.bytes \in Nat, stdin.newlines \in SUBSET (1..stdin.bytes),
         consumed = 0, begun = 0, skipping = FALSE, got = <<>>
  PROVE  ReaderInv
  <1>1. got \in Seq(Answers) /\ DOMAIN got = {}
    OBVIOUS
  <1>2. ReaderTypeOK
    <2>1. 0 \in 0..stdin.bytes /\ 0 \in 0..0
      OBVIOUS
    <2> QED BY <1>1, <2>1 DEF ReaderTypeOK
  <1>3. CallIsInLine
    BY LimitAssumption DEF CallIsInLine
  <1> QED BY <1>1, <1>2, <1>3 DEF ReaderInv, CallFollows

\* The same of a step that starts again.
LEMMA UnreadStep ==
  ASSUME stdin'.bytes \in Nat, stdin'.newlines \in SUBSET (1..stdin'.bytes),
         consumed' = 0, begun' = 0, skipping' = FALSE, got' = <<>>
  PROVE  ReaderInv'
  <1>1. got' \in Seq(Answers) /\ DOMAIN got' = {}
    OBVIOUS
  <1>2. ReaderTypeOK'
    <2>1. 0 \in 0..stdin'.bytes /\ 0 \in 0..0
      OBVIOUS
    <2> QED BY <1>1, <2>1 DEF ReaderTypeOK
  <1>3. CallIsInLine'
    BY LimitAssumption DEF CallIsInLine
  <1> QED BY <1>1, <1>2, <1>3 DEF ReaderInv, CallFollows

\* An empty input has been answered by nothing.
LEMMA NothingGot ==
  ASSUME ReaderInv, stdin = Empty
  PROVE  got = <<>>
  <1> SUFFICES ASSUME got # <<>> PROVE FALSE
    OBVIOUS
  <1>1. PICK n \in Nat : n = Len(got) /\ n \in DOMAIN got /\ got[n] \in Answers
                       /\ (n # 1 => got[n - 1] \in Answers)
    BY DEF ReaderInv, ReaderTypeOK
  <1>2. /\ \/ got[n].last + 1 \in stdin.newlines
           \/ got[n].last = stdin.bytes /\ got[n].first <= got[n].last
        /\ got[n].first = IF n = 1 THEN 1 ELSE got[n - 1].last + 2
    BY <1>1 DEF ReaderInv, Framed, Follows
  <1>3. got[n].first \in Nat /\ got[n].first > 0
    BY <1>1, <1>2 DEF Answers
  <1> QED BY <1>2, <1>3 DEF Empty

LEMMA EmptyShape == Empty.bytes \in Nat /\ Empty.newlines \in SUBSET (1..Empty.bytes)
  BY DEF Empty

LEMMA ReaderInitInv == ReaderInit => ReaderInv
  BY EmptyShape, UnreadInv DEF ReaderInit

LEMMA ReaderStep == ReaderInv /\ [ReaderNext]_reader => ReaderInv'
  <1> SUFFICES ASSUME ReaderInv, [ReaderNext]_reader PROVE ReaderInv'
    OBVIOUS
  <1>1. CASE WriteInput
    <2>1. /\ stdin = Empty /\ stdin' \in Inputs
          /\ consumed' = consumed /\ begun' = begun /\ skipping' = skipping /\ got' = got
      BY <1>1 DEF WriteInput
    <2>2. stdin'.bytes \in Nat /\ stdin'.newlines \in SUBSET (1..stdin'.bytes)
      BY <2>1, InputShape
    <2>3. consumed = 0 /\ begun = 0
      BY <2>1 DEF ReaderInv, ReaderTypeOK, Empty
    <2>4. skipping = FALSE
      BY <2>3, LimitAssumption DEF ReaderInv, ReaderTypeOK, CallIsInLine
    <2>5. got = <<>>
      BY <2>1, NothingGot
    <2>6. consumed' = 0 /\ begun' = 0 /\ skipping' = FALSE /\ got' = <<>>
      BY <2>1, <2>3, <2>4, <2>5
    <2> QED BY <2>2, <2>6, UnreadStep
  <1>2. CASE Reads
    BY <1>2, ReadKeeps DEF Reads
  <1>3. CASE EndOfLine
    BY <1>3, EndKeeps
  <1>4. CASE EndOfInput
    BY <1>4, EmptyShape, UnreadStep DEF EndOfInput
  <1>5. CASE UNCHANGED reader
    BY <1>5 DEF reader, ReaderInv, ReaderTypeOK, CallIsInLine, CallFollows, Framed, Follows
  <1> QED BY <1>1, <1>2, <1>3, <1>4, <1>5 DEF ReaderNext

\* What the calls returned is the input cut at its newlines, and at its end
\* nothing is missing.
LEMMA InvFrames == ReaderInv => ReaderFramesLines
  <1> SUFFICES ASSUME ReaderInv PROVE ReaderFramesLines
    OBVIOUS
  <1>1. \A i \in DOMAIN got : Framed(i)
    BY DEF ReaderInv
  <1>2. ASSUME begun = stdin.bytes, begun > 0
        PROVE  got # <<>> /\ got[Len(got)].last \in {stdin.bytes, stdin.bytes - 1}
    <2>1. got # <<>>
      BY <1>2 DEF ReaderInv, CallFollows
    <2>2. Len(got) \in DOMAIN got /\ got[Len(got)] \in Answers
      BY <2>1 DEF ReaderInv, ReaderTypeOK
    <2>3. got[Len(got)].last \in Nat /\ begun \in Nat
      BY <2>2 DEF Answers, ReaderInv, ReaderTypeOK
    <2>4. begun = got[Len(got)].last + 1 \/ begun = got[Len(got)].last
      BY <2>1 DEF ReaderInv, CallFollows
    <2> QED BY <1>2, <2>1, <2>3, <2>4
  <1> QED BY <1>1, <1>2 DEF Framed, ReaderFramesLines

\* ReaderFramesLines: for every input, every limit and every way in which the
\* bytes arrive, the calls return the lines of the input one after the other,
\* each longer than the limit as one error, and none is missing at its end.
THEOREM LinesAreFramed == ReaderSpec => []ReaderFramesLines
  <1>1. ReaderInit => ReaderInv
    BY ReaderInitInv
  <1>2. ReaderInv /\ [ReaderNext]_reader => ReaderInv'
    BY ReaderStep
  <1>3. ReaderInv => ReaderFramesLines
    BY InvFrames
  <1> QED BY <1>1, <1>2, <1>3, PTL DEF ReaderSpec
=============================================================================
