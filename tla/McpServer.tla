----------------------------- MODULE McpServer -----------------------------
(* The MCP server of skilllite (`skilllite mcp-serve`): its scan cache with a
   time to live, the confirmation of reviewed code in two calls, the list of
   skills confirmed in this session, and the supply-chain checks in front of
   run_skill.  Requests come one at a time over stdin; while the server works,
   the skill folders change under it (skilllite add, the evolution run, an
   editor), also between the check of a skill and its start, which waits for
   the skill's environment to be built.

   A version is the content of a whole skill folder.  compute_skill_hash reads
   only SKILL.md and the entry script, so versions may share a hash; the
   fingerprint of the manifest covers every file.  One handler reads a skill
   folder in one step up to the call of ensure_environment.  Stdin is the
   client's pipe, never a terminal.  A scan id is a number given out once.     *)
EXTENDS Integers

CONSTANTS Skills,      \* folder names under skills_dir
          Versions,    \* contents of a skill folder
          HashOf,      \* compute_skill_hash of a version
          Review,      \* what run_skill_precheck says of a hash
          Runnable,    \* versions whose SKILL.md gives an entry point
          Signed,      \* versions with a SKILL.sig
          Sources,     \* where skills are installed from
          Denied,      \* skills on the denylist
          Codes,       \* code sent by the client
          Severity,    \* worst issue the scanner finds in it
          Configs,     \* values of [block, level, approve] to run with
          Folders, Baseline,    \* the skill folders and the manifest at the start
          Ttl,         \* cache_ttl, in ticks
          MaxIds, MaxClock, MaxEdits, MaxRestarts    \* bounds of the instance

Hashes == {HashOf[v] : v \in Versions}
Ids == 1..MaxIds
NoId == 0

CONSTANTS None

ASSUME VersionsAssumption ==
  /\ DOMAIN HashOf = Versions
  /\ Review \in [Hashes -> {"clean", "report", "critical"}]
  /\ Sources \subseteq {"official", "repository", "local"}
  /\ Runnable \subseteq Versions /\ Signed \subseteq Versions /\ Denied \subseteq Skills
  /\ Folders \in [Skills -> Versions \cup {None}]
  /\ Baseline \in [Skills -> [version : Versions, source : Sources] \cup {None}]
  /\ None \notin Versions \cup Hashes \cup Codes
ASSUME CodesAssumption == Severity \in [Codes -> {"low", "medium", "high", "critical"}]
ASSUME ConfigsAssumption == Configs \subseteq [block : BOOLEAN, level : {2, 3}, approve : BOOLEAN]
ASSUME BoundsAssumption == {MaxIds, MaxClock, MaxEdits, MaxRestarts} \subseteq Nat /\ Ttl \in Nat \ {0}

VARIABLES config,     \* environment of the server process
          cache,      \* scan_cache
          confirmed,  \* confirmed_skills: the hash confirmed for each name
          starting,   \* the skill whose environment is being built, as it was checked
          ran,        \* what the last step started in the sandbox
          files,      \* skill folders
          manifest,   \* .skilllite-manifest.json: version and source installed
          clock, edits, restarts,
          issued,     \* history: the scan behind each id
          spent       \* history: confirmations each id was accepted for

memory == <<cache, confirmed>>
disk == <<files, manifest, edits>>
history == <<issued, spent>>
vars == <<config, memory, starting, ran, disk, clock, restarts, history>>

Scan(kind, item, severity) == [kind |-> kind, item |-> item, severity |-> severity, born |-> clock]
Scans == [kind : {"code", "skill"}, item : Codes \cup Hashes,
          severity : {"low", "medium", "high", "critical"}, born : 0..MaxClock]
Issued == {i \in Ids : issued[i] # None}
Fresh(i) == issued[i] = None /\ \A j \in Ids : j < i => issued[j] # None

Init ==
  /\ config \in Configs
  /\ cache = [i \in Ids |-> None]
  /\ confirmed = [s \in Skills |-> None]
  /\ starting = None
  /\ ran = None
  /\ files = Folders
  /\ manifest = Baseline
  /\ clock = 0 /\ edits = 0 /\ restarts = 0
  /\ issued = [i \in Ids |-> None]
  /\ spent = [i \in Ids |-> 0]

-----------------------------------------------------------------------------
(* Integrity and trust of a skill folder.  The fingerprint covers SKILL.sig
   itself, so no signature ever equals it: a signed folder is invalid.         *)

\* Mutation: only the fingerprint of signed skills is compared.
StatusOfSigned(s) ==
  CASE files[s] \in Signed -> "SignatureInvalid"
    [] OTHER -> "Unsigned"

Status(s) ==
  CASE files[s] \in Signed -> "SignatureInvalid"
    [] manifest[s] # None /\ manifest[s].version # files[s] -> "HashChanged"
    [] OTHER -> "Unsigned"

SourceScore(s) ==
  IF manifest[s] = None THEN 0
  ELSE CASE manifest[s].source = "official" -> 25
         [] manifest[s].source = "repository" -> 15
         [] manifest[s].source = "local" -> 8

\* Unsigned 8, hash baseline 20, no high finding 20 (none is passed in).
Trust(s) ==
  IF Status(s) \in {"HashChanged", "SignatureInvalid"} THEN "Deny"
  ELSE IF SourceScore(s) + 48 >= 65 THEN "Allow" ELSE "RequireConfirm"

\* run_skill before it looks at the sandbox level.
Blocked(s) == s \in Denied \/ (config.block /\ Trust(s) = "Deny")
NeedsConsent(s) == config.block /\ Trust(s) = "RequireConfirm"

-----------------------------------------------------------------------------
(* The scan cache.  Every request that parses first drops what has expired.    *)

Alive(i) == cache[i] # None /\ clock - cache[i].born < Ttl

Swept == [i \in Ids |-> IF Alive(i) THEN cache[i] ELSE None]

Idle == starting = None

\* Mutation: the entry stays after the confirmation.
KeepsEntry(i) ==
  /\ cache' = Swept
  /\ spent' = [spent EXCEPT ![i] = @ + 1]
  /\ UNCHANGED issued

\* One-time consumption of a scan id.
Spend(i) ==
  /\ cache' = [Swept EXCEPT ![i] = None]
  /\ spent' = [spent EXCEPT ![i] = @ + 1]
  /\ UNCHANGED issued

Sweep == cache' = Swept /\ UNCHANGED history

Issue(scan) == \E i \in Ids :
  /\ Fresh(i)
  /\ cache' = [Swept EXCEPT ![i] = scan]
  /\ issued' = [issued EXCEPT ![i] = scan]
  /\ UNCHANGED spent

\* The request ends with a text, a report or an error.
Answered == ran' = None /\ UNCHANGED <<confirmed, starting>>

\* initialize, ping, tools/list, list_skills, get_skill_info, an unknown tool or
\* language.
ReadOnly == Idle /\ Sweep /\ Answered

-----------------------------------------------------------------------------
(* Code: scan_code and execute_code.                                           *)

\* perform_scan: a scanner that fails counts as High.
CodeScan(c, fails) == Scan("code", c, IF fails THEN "high" ELSE Severity[c])
Serious(scan) == scan.severity \in {"high", "critical"}

ScanCode == \E c \in Codes, fails \in BOOLEAN :
  Idle /\ Issue(CodeScan(c, fails)) /\ Answered

\* The runner's own precheck of the script: no terminal to ask at.
RunnerAllows(c) ==
  Severity[c] = "low" \/ (Severity[c] \in {"medium", "high"} /\ config.approve)

\* execute_code_in_sandbox.  by: the scan id that was confirmed, or none.
RunCode(c, level, by) ==
  /\ ran' = IF RunnerAllows(c) THEN [kind |-> "code", item |-> c, level |-> level, by |-> by] ELSE None
  /\ UNCHANGED <<confirmed, starting>>

\* Level 3, not confirmed: scan first, run what has no serious issue.
ExecuteScanned(c, fails) ==
  LET scan == CodeScan(c, fails) IN
  /\ Issue(scan)
  /\ IF Serious(scan) THEN Answered ELSE RunCode(c, 3, NoId)

\* Level 3, confirmed: the id must be alive and be for this code.
Accepts(c, i) ==
  Alive(i) /\ cache[i].kind = "code" /\ cache[i].item = c /\ cache[i].severity # "critical"

ExecuteConfirmed(c, i) ==
  IF i \in Ids /\ Accepts(c, i)
  THEN Spend(i) /\ RunCode(c, 3, i)
  ELSE Sweep /\ Answered

ExecuteCode == \E c \in Codes :
  /\ Idle
  /\ \/ \E fails \in BOOLEAN : ExecuteScanned(c, fails)
     \/ \E i \in Ids \cup {NoId} : ExecuteConfirmed(c, i)
     \/ Sweep /\ RunCode(c, 2, NoId)

-----------------------------------------------------------------------------
(* Skills: run_skill up to the environment, and the start of the skill.        *)

Refuse == Sweep /\ Answered

\* The end of run_skill's checks: nothing to run, a consent is missing, or go.
Proceed(s, consent) ==
  /\ ran' = None
  /\ IF files[s] \in Runnable /\ (NeedsConsent(s) => consent)
     THEN starting' = [skill |-> s, version |-> files[s], consent |-> consent, at |-> edits]
     ELSE UNCHANGED starting

Confirm(s) == confirmed' = [confirmed EXCEPT ![s] = HashOf[files[s]]]

\* Mutation: the skill's content is not compared with what was reviewed.
AnySkillToken(s, i) == Alive(i) /\ cache[i].kind = "skill"

\* A token of the same skill content, under whatever name it was asked for.
TokenFor(s, i) == Alive(i) /\ cache[i].kind = "skill" /\ cache[i].item = HashOf[files[s]]

\* confirmed=true: the token is gone whether it fits or not.
ConfirmWith(s, i) ==
  IF TokenFor(s, i) /\ cache[i].severity # "critical"
  THEN Spend(i) /\ Confirm(s) /\ Proceed(s, TRUE)
  ELSE cache' = [Swept EXCEPT ![i] = None] /\ UNCHANGED history /\ Answered

\* Not confirmed: a report gives a token, a clean precheck confirms by itself.
Precheck(s) ==
  LET h == HashOf[files[s]] IN
  IF Review[h] = "clean"
  THEN Sweep /\ Confirm(s) /\ Proceed(s, FALSE)
  ELSE /\ Issue(Scan("skill", h, IF Review[h] = "critical" THEN "critical" ELSE "high"))
       /\ Answered

AlreadyConfirmed(s) == confirmed[s] = HashOf[files[s]]

RunSkill == \E s \in Skills, consent \in BOOLEAN :
  /\ Idle
  /\ IF files[s] = None \/ Blocked(s) THEN Refuse
     ELSE IF config.level # 3 \/ AlreadyConfirmed(s)
          THEN Sweep /\ Proceed(s, consent) /\ UNCHANGED confirmed
          ELSE IF ~consent THEN Precheck(s)
               ELSE Refuse \/ \E i \in Ids : ConfirmWith(s, i)

\* Below Level 3 the runner prechecks the skill itself.
RunnerAllowsSkill(v) ==
  \/ config.level = 3
  \/ Review[HashOf[v]] = "clean"
  \/ Review[HashOf[v]] = "report" /\ config.approve

\* The environment is ready, or failed; the runner takes the folder as it is
\* now, which nobody compares with what was checked.
StartSkill ==
  /\ starting # None
  /\ starting' = None
  /\ \/ ran' = None
     \/ /\ files[starting.skill] # None /\ RunnerAllowsSkill(files[starting.skill])
        /\ ran' = [kind |-> "skill", item |-> [checked |-> starting, found |-> files[starting.skill]],
                   level |-> config.level, by |-> NoId]
  /\ UNCHANGED <<memory, history>>

-----------------------------------------------------------------------------
(* Everything else: skill folders change, time passes, the server restarts.    *)

\* skilllite add: the folder and its manifest entry.
Install == \E s \in Skills, v \in Versions, source \in Sources :
  /\ files' = [files EXCEPT ![s] = v]
  /\ manifest' = [manifest EXCEPT ![s] = [version |-> v, source |-> source]]

\* The evolution run or an editor: only the folder.
Edit == \E s \in Skills, v \in Versions :
  files' = [files EXCEPT ![s] = v] /\ UNCHANGED manifest

\* skilllite remove.
Uninstall == \E s \in Skills :
  /\ files' = [files EXCEPT ![s] = None]
  /\ manifest' = [manifest EXCEPT ![s] = None]

SkillsChange ==
  /\ edits < MaxEdits /\ edits' = edits + 1
  /\ Install \/ Edit \/ Uninstall
  /\ ran' = None
  /\ UNCHANGED <<config, memory, starting, clock, restarts, history>>

Tick ==
  /\ clock < MaxClock /\ clock' = clock + 1
  /\ ran' = None
  /\ UNCHANGED <<config, memory, starting, disk, restarts, history>>

\* The client closes stdin, or the process dies, and starts a new one with the
\* same settings.
Restart ==
  /\ restarts < MaxRestarts /\ restarts' = restarts + 1
  /\ cache' = [i \in Ids |-> None]
  /\ confirmed' = [s \in Skills |-> None]
  /\ starting' = None /\ ran' = None
  /\ UNCHANGED <<config, disk, clock, history>>

Request == ReadOnly \/ ScanCode \/ ExecuteCode \/ RunSkill \/ StartSkill

Next == (Request /\ UNCHANGED <<config, disk, clock, restarts>>) \/ SkillsChange \/ Tick \/ Restart

Spec == Init /\ [][Next]_vars

-----------------------------------------------------------------------------
(* Properties. *)

Requests == [skill : Skills, version : Versions, consent : BOOLEAN, at : 0..MaxEdits]
Starts == [checked : Requests, found : Versions]

\* Types, and what the cache holds is what was scanned.
TypeOK ==
  /\ config \in Configs
  /\ cache \in [Ids -> Scans \cup {None}]
  /\ confirmed \in [Skills -> Hashes \cup {None}]
  /\ starting \in Requests \cup {None}
  /\ ran \in {None} \cup [kind : {"code", "skill"}, item : Codes \cup Starts, level : {2, 3}, by : Ids \cup {NoId}]
  /\ files \in [Skills -> Versions \cup {None}]
  /\ manifest \in [Skills -> [version : Versions, source : Sources] \cup {None}]
  /\ clock \in 0..MaxClock /\ edits \in 0..MaxEdits /\ restarts \in 0..MaxRestarts
  /\ issued \in [Ids -> Scans \cup {None}]
  /\ spent \in [Ids -> Nat]

\* Content h passed the two calls: its precheck was clean, or a token for it
\* that was not critical was accepted.
Reviewed(h) ==
  \/ Review[h] = "clean"
  \/ \E i \in Issued : /\ issued[i].kind = "skill" /\ issued[i].item = h
                       /\ issued[i].severity # "critical" /\ spent[i] > 0

\* A skill that the session treats as confirmed is confirmed for content that
\* was reviewed, whichever names, edits and restarts came before.
ConfirmedWasReviewed == \A s \in Skills : confirmed[s] # None => Reviewed(confirmed[s])

\* One scan id is accepted once: a second call with it is refused, also after
\* a restart and also when the first was for another tool.
TokenUsedOnce == \A i \in Ids : spent[i] <= 1

\* At Level 3 the sandbox starts only what was reviewed: a skill whose content
\* is reviewed, unless folders changed after its check, while its environment
\* was built; or code with no serious finding or whose own report was
\* confirmed.
RunsWereReviewed ==
  ran # None /\ ran.level = 3 =>
    IF ran.kind = "skill"
    THEN /\ Reviewed(HashOf[ran.item.checked.version])
         /\ ran.item.checked.at = edits => Reviewed(HashOf[ran.item.found])
    ELSE \/ ran.by = NoId /\ Severity[ran.item] \in {"low", "medium"}
         \/ ran.by \in Issued /\ issued[ran.by].kind = "code" /\ issued[ran.by].item = ran.item
            /\ spent[ran.by] = 1

\* Code with critical findings never runs: at no level, not after a failed
\* scan was confirmed, not with automatic approval.
CriticalNeverRuns == ran # None /\ ran.kind = "code" => Severity[ran.item] # "critical"

\* The gate of the two calls, whichever names, edits, restarts and settings came
\* before: what the session treats as confirmed is content that was reviewed,
\* Level 3 starts nothing else unless folders change between a skill's check
\* and its start, and critical code starts never.
RunsAreReviewed == ConfirmedWasReviewed /\ RunsWereReviewed /\ CriticalNeverRuns

\* A scan id buys one call, in time: it is accepted once, for no scan older than
\* the time to live, also after a restart and in a call of another tool.
TokensHold ==
  [][\A i \in Ids : spent'[i] > spent[i] => spent[i] = 0 /\ clock - issued[i].born < Ttl]_vars

\* With the supply-chain block on, a skill begins to start only while its
\* folder is the one that was installed (or was never installed and carries no
\* signature), and if it is not from the official source, only in a call that
\* says it is confirmed.
BlockHolds ==
  [][ config.block /\ starting = None /\ starting' # None =>
        LET s == starting'.skill IN
        /\ manifest[s] # None => manifest[s].version = starting'.version
        /\ (manifest[s] = None \/ manifest[s].source # "official") => starting'.consent ]_vars
=============================================================================
