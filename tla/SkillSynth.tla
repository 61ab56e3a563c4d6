----------------------------- MODULE SkillSynth -----------------------------
(* Skill synthesis of skilllite-evolution: evolve_skills generates skills into
   _evolved/_pending and retires old ones, repair_one_skill lets the model fix a
   skill that fails its test, and the user confirms, rejects or resets.  A step
   of a process ends where it awaits the model: until the answer comes, the
   user and the other processes go on, and the folder it will write to by its
   path may be moved, removed or written by others.

   Of a folder are kept whether it has a SKILL.md and a script, and its
   .meta.json.  What a test, the model or the completeness check says
   is a choice.  The call counts of .meta.json stay zero: nothing calls
   track_skill_usage, so a skill retires by its age alone and
   refine_weakest_skill, which wants three calls, never finds one.            *)
EXTENDS Integers, FiniteSets

CONSTANTS Names, None,
          Runs,         \* processes that evolve skills, one run at a time each
          Fixers,       \* repair-skills commands
          MaxEvolved,   \* MAX_EVOLVED_SKILLS
          MaxRounds,    \* MAX_REFINE_ROUNDS
          RetireAfter,  \* RETIRE_UNUSED_DAYS
          MaxDay, MaxStarts  \* bounds of the instance

ASSUME BoundsAssumption ==
  /\ {MaxEvolved, MaxRounds, RetireAfter} \subseteq Nat \ {0}
  /\ {MaxDay, MaxStarts} \subseteq Nat
ASSUME ActorsAssumption == Runs \cap Fixers = {} /\ None \notin Runs \cup Fixers \cup Names
ASSUME FiniteAssumption == IsFiniteSet(Names) /\ IsFiniteSet(Runs)

VARIABLES dirs,    \* the skill folders under _evolved and _evolved/_pending
          pc,      \* what each process awaits
          stage,   \* which generation a run is at
          at,      \* the folder a process works on
          round,   \* of refine_loop or repair_one_skill
          queue,   \* failed skills a repair command has still to see
          day, starts

locals == <<pc, stage, at, round, queue>>
vars == <<dirs, locals, day, starts>>

Actors == Runs \cup Fixers
Paths == {"pending", "evolved"} \X Names
Pending(n) == <<"pending", n>>
Evolved(n) == <<"evolved", n>>

Metas == [archived : BOOLEAN, review : BOOLEAN, born : 0..MaxDay]
Folders == [md : BOOLEAN, script : BOOLEAN, meta : Metas \cup {None}]
Empty == [md |-> FALSE, script |-> FALSE, meta |-> None]
ASSUME NoneAssumption == None \notin Folders \cup Metas \cup Paths

Archived(p) == dirs[p] # None /\ dirs[p].meta # None /\ dirs[p].meta.archived

Init ==
  /\ dirs = [p \in Paths |-> None]
  /\ pc = [a \in Actors |-> "idle"]
  /\ stage = [r \in Runs |-> "failures"]
  /\ at = [a \in Actors |-> None]
  /\ round = [a \in Actors |-> 0]
  /\ queue = [f \in Fixers |-> {}]
  /\ day = 0 /\ starts = 0

Goes(a, to) == pc' = [pc EXCEPT ![a] = to]
Puts(p, folder) == dirs' = [dirs EXCEPT ![p] = folder]

-----------------------------------------------------------------------------
(* A run.                                                                     *)

\* Folders with a .meta.json count; archived ones do not, pending ones do.
Counted == {p \in Paths : dirs[p] # None /\ dirs[p].meta # None /\ ~(p[1] = "evolved" /\ Archived(p))}
\* Mutation: off by one.
CapReachedLate == Cardinality(Counted) > MaxEvolved
CapReached == Cardinality(Counted) >= MaxEvolved

\* retire_skills_with_conn.
Retires(p) ==
  /\ p[1] = "evolved" /\ dirs[p] # None /\ dirs[p].meta # None /\ ~Archived(p)
  /\ day - dirs[p].meta.born >= RetireAfter
RetireOld == dirs' = [p \in Paths |-> IF Retires(p) THEN [dirs[p] EXCEPT !.meta.archived = TRUE] ELSE dirs[p]]

Begin(r) ==
  /\ pc[r] = "idle" /\ starts < MaxStarts /\ starts' = starts + 1
  /\ RetireOld
  /\ \/ Goes(r, "next")                   \* generate, or forced
     \/ UNCHANGED pc
  /\ UNCHANGED <<stage, at, round, queue, day>>

Releases(a) == at' = [at EXCEPT ![a] = None] /\ round' = [round EXCEPT ![a] = 0]

\* The generation from failures is over, or the one from successes.
Leaves(r) ==
  IF stage[r] = "failures" THEN Goes(r, "next") /\ stage' = [stage EXCEPT ![r] = "successes"]
  ELSE Goes(r, "idle") /\ stage' = [stage EXCEPT ![r] = "failures"]

\* No pattern in the decisions, or as many skills as are allowed.
Skip(r) == pc[r] = "next" /\ Leaves(r) /\ UNCHANGED <<dirs, at, round, queue, day, starts>>

Ask(r) ==
  /\ pc[r] = "next" /\ ~CapReached
  /\ Goes(r, "asked")
  /\ UNCHANGED <<dirs, stage, at, round, queue, day, starts>>

\* The answer is no skill, a rejected or incomplete one, one like a pending one,
\* or one whose name is pending.
Discard(r) == pc[r] = "asked" /\ Leaves(r) /\ UNCHANGED <<dirs, at, round, queue, day, starts>>

Taken(n) == dirs[Pending(n)] # None /\ dirs[Pending(n)].md

\* write_skill_files.
Generated(review) ==
  [md |-> TRUE, script |-> TRUE, meta |-> [archived |-> FALSE, review |-> review, born |-> day]]

StartsRepair(a, p) ==
  /\ at' = [at EXCEPT ![a] = p]
  /\ round' = [round EXCEPT ![a] = 1]

\* The scan accepts the new script: it is written and then tested.
Write(r, n) ==
  /\ pc[r] = "asked" /\ ~Taken(n)
  /\ Puts(Pending(n), Generated(FALSE))
  /\ Goes(r, "test") /\ StartsRepair(r, Pending(n))
  /\ UNCHANGED <<stage, queue, day, starts>>

\* The scan refuses it: the model shall refine it, in a folder already made.
Refine(r, n) ==
  /\ pc[r] = "asked" /\ ~Taken(n)
  /\ IF dirs[Pending(n)] = None THEN Puts(Pending(n), Empty) ELSE UNCHANGED dirs
  /\ Goes(r, "refine") /\ StartsRepair(r, Pending(n))
  /\ UNCHANGED <<stage, queue, day, starts>>

RefineAgain(r) ==
  /\ pc[r] = "refine" /\ round[r] < MaxRounds
  /\ round' = [round EXCEPT ![r] = @ + 1]
  /\ UNCHANGED <<dirs, pc, stage, at, queue, day, starts>>

Refined(r) ==
  /\ pc[r] = "refine"
  /\ Puts(at[r], Generated(FALSE))
  /\ Goes(r, "test") /\ round' = [round EXCEPT ![r] = 1]
  /\ UNCHANGED <<stage, at, queue, day, starts>>

\* No fix: the script stays as it is, for the user to review.
KeepDraft(r) ==
  /\ pc[r] = "refine"
  /\ Puts(at[r], Generated(TRUE))
  /\ Leaves(r) /\ Releases(r)
  /\ UNCHANGED <<queue, day, starts>>

\* An error of the model leaves the folder as it is.
RefineFails(r) == pc[r] = "refine" /\ Leaves(r) /\ Releases(r) /\ UNCHANGED <<dirs, queue, day, starts>>

-----------------------------------------------------------------------------
(* Repair, in a run or in a command.                                          *)

\* The end of repair_one_skill, whatever it returns.
Ends(a) == Releases(a) /\ IF a \in Runs THEN Leaves(a) ELSE Goes(a, "idle") /\ UNCHANGED stage

\* The test and the check of SKILL.md: both pass, for which both must be there.
Passes(a) ==
  /\ pc[a] = "test"
  /\ dirs[at[a]] # None /\ dirs[at[a]].md /\ dirs[at[a]].script
  /\ Ends(a)
  /\ UNCHANGED <<dirs, queue, day, starts>>

\* Rounds 1 to MaxRounds ask for a fix, the test after them is the last.
Fails(a) ==
  /\ pc[a] = "test"
  /\ IF round[a] <= MaxRounds THEN Goes(a, "fix") /\ UNCHANGED <<stage, at, round>> ELSE Ends(a)
  /\ UNCHANGED <<dirs, queue, day, starts>>

\* The parts of a fix are written to the path, whose folder is made if it is gone.
Written(folder, md, script) ==
  [(IF folder = None THEN Empty ELSE folder) EXCEPT !.md = md \/ @, !.script = script \/ @]

Fix(a, md, script) ==
  /\ pc[a] = "fix"
  /\ IF md \/ script THEN Puts(at[a], Written(dirs[at[a]], md, script)) ELSE UNCHANGED dirs
  /\ Goes(a, "test") /\ round' = [round EXCEPT ![a] = @ + 1]
  /\ UNCHANGED <<stage, at, queue, day, starts>>

FixFails(a) == pc[a] = "fix" /\ Ends(a) /\ UNCHANGED <<dirs, queue, day, starts>>

\* validate_skills: any of the complete folders may fail, archived ones too.
Whole == {p \in Paths : dirs[p] # None /\ dirs[p].md /\ dirs[p].script}
Validate(f) ==
  /\ pc[f] = "idle" /\ queue[f] = {} /\ starts < MaxStarts /\ starts' = starts + 1
  /\ \E failed \in (SUBSET Whole) \ {{}} : queue' = [queue EXCEPT ![f] = failed]
  /\ UNCHANGED <<dirs, pc, stage, at, round, day>>

NextRepair(f) ==
  /\ pc[f] = "idle"
  /\ \E p \in queue[f] : StartsRepair(f, p) /\ queue' = [queue EXCEPT ![f] = @ \ {p}]
  /\ Goes(f, "test")
  /\ UNCHANGED <<dirs, stage, day, starts>>

\* A process is stopped while it awaits the model.
Kill(a) ==
  /\ pc[a] # "idle"
  /\ Goes(a, "idle") /\ Releases(a)
  /\ stage' = [r \in Runs |-> IF r = a THEN "failures" ELSE stage[r]]
  /\ queue' = [f \in Fixers |-> IF f = a THEN {} ELSE queue[f]]
  /\ UNCHANGED <<dirs, day, starts>>

-----------------------------------------------------------------------------
(* The user.                                                                  *)

\* Mutation: a skill of that name is replaced.
ConfirmOver(n) ==
  /\ dirs[Pending(n)] # None
  /\ dirs' = [dirs EXCEPT ![Evolved(n)] = dirs[Pending(n)], ![Pending(n)] = None]
  /\ UNCHANGED <<locals, day, starts>>

Confirm(n) ==
  /\ dirs[Pending(n)] # None /\ dirs[Evolved(n)] = None
  /\ dirs' = [dirs EXCEPT ![Evolved(n)] = dirs[Pending(n)], ![Pending(n)] = None]
  /\ UNCHANGED <<locals, day, starts>>

Reject(n) ==
  /\ dirs[Pending(n)] # None
  /\ Puts(Pending(n), None)
  /\ UNCHANGED <<locals, day, starts>>

\* cmd_reset removes _evolved, with what is pending.
Reset ==
  /\ \E p \in Paths : dirs[p] # None
  /\ dirs' = [p \in Paths |-> None]
  /\ UNCHANGED <<locals, day, starts>>

Tick == day < MaxDay /\ day' = day + 1 /\ UNCHANGED <<dirs, locals, starts>>

-----------------------------------------------------------------------------
Generate(r) ==
  \/ Begin(r) \/ Skip(r) \/ Ask(r) \/ Discard(r)
  \/ \E n \in Names : Write(r, n) \/ Refine(r, n)
  \/ RefineAgain(r) \/ Refined(r) \/ KeepDraft(r) \/ RefineFails(r)

Repair(a) ==
  \/ Passes(a) \/ Fails(a) \/ FixFails(a)
  \/ \E md, script \in BOOLEAN : Fix(a, md, script)

Command(f) == Validate(f) \/ NextRepair(f)

User == Reset \/ \E n \in Names : Confirm(n) \/ Reject(n)

Next ==
  \/ \E r \in Runs : Generate(r)
  \/ \E f \in Fixers : Command(f)
  \/ \E a \in Actors : Repair(a) \/ Kill(a)
  \/ User \/ Tick

Spec == Init /\ [][Next]_vars

-----------------------------------------------------------------------------
(* Properties. *)

TypeOK ==
  /\ dirs \in [Paths -> Folders \cup {None}]
  /\ pc \in [Actors -> {"idle", "next", "asked", "refine", "test", "fix"}]
  /\ stage \in [Runs -> {"failures", "successes"}]
  /\ at \in [Actors -> Paths \cup {None}]
  /\ round \in [Actors -> 0..(MaxRounds + 1)]
  /\ \A a \in Actors : pc[a] \in {"refine", "test", "fix"} => at[a] \in Paths
  /\ \A a \in Actors : pc[a] \in {"refine", "fix"} => round[a] \in 1..MaxRounds
  /\ queue \in [Fixers -> SUBSET Paths]
  /\ day \in 0..MaxDay /\ starts \in 0..MaxStarts

\* The limit on evolved skills is asked before the model is, and nobody asks
\* again when its answer is written or when the user confirms: processes that
\* asked at the same time may exceed it, by one skill for each but the first.
LimitHolds == Cardinality(Counted) < MaxEvolved + Cardinality(Runs)

\* The life of a skill, whatever the folders go through: see SkillLifecycle.
Status ==
  [n \in Names |-> CASE Archived(Evolved(n)) -> "archived"
                     [] dirs[Evolved(n)] # None /\ ~Archived(Evolved(n)) -> "active"
                     [] dirs[Evolved(n)] = None /\ dirs[Pending(n)] # None -> "pending"
                     [] OTHER -> "none"]
Open ==
  {n \in Names : \E a \in Actors : \/ pc[a] \in {"test", "fix"} /\ at[a] = Evolved(n)
                                   \/ a \in Fixers /\ Evolved(n) \in queue[a]}
Life == INSTANCE SkillLifecycle WITH status <- Status, open <- Open
ImplementsLifecycle == Life!Spec

\* Documented: a rejected skill is removed "without adding"; a confirmed one is
\* moved.  What is pending is then there only because a run generated it.
OnlyGenerationAdds ==
  [][ \A n \in Names : dirs[Pending(n)] = None /\ dirs'[Pending(n)] # None
        => \E r \in Runs : pc[r] \in {"asked", "refine"} /\ pc'[r] # pc[r] ]_vars
=============================================================================
