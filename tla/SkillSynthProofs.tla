-------------------------- MODULE SkillSynthProofs --------------------------
(* Proofs about SkillSynth, for any numbers of runs, repair commands and skills:
   its type invariant, the limit on evolved skills and the life of a skill.   *)
EXTENDS SkillSynth, FiniteSetTheorems, TLAPS

-----------------------------------------------------------------------------
(* The inductive invariant: types, where the processes work, and that what is
   pending is never archived.                                                 *)

FoldersOK ==
  /\ dirs \in [Paths -> Folders \cup {None}]
  /\ \A n \in Names : ~Archived(Pending(n))

LocalsType ==
  /\ pc \in [Actors -> {"idle", "next", "asked", "refine", "test", "fix"}]
  /\ stage \in [Runs -> {"failures", "successes"}]
  /\ at \in [Actors -> Paths \cup {None}]
  /\ round \in [Actors -> 0..(MaxRounds + 1)]
  /\ queue \in [Fixers -> SUBSET Paths]

Works(a) == pc[a] \in {"refine", "test", "fix"}
AtWork(a) ==
  /\ Works(a) => at[a] \in Paths /\ round[a] # 0
  /\ pc[a] \in {"refine", "fix"} => round[a] \in 1..MaxRounds
  /\ a \in Runs /\ Works(a) => \E n \in Names : at[a] = Pending(n)
  /\ a \in Fixers => pc[a] \in {"idle", "test", "fix"}
LocalsOK == LocalsType /\ \A a \in Actors : AtWork(a)

ClockOK == day \in 0..MaxDay /\ starts \in 0..MaxStarts

Typed == FoldersOK /\ LocalsOK /\ ClockOK

LEMMA PathFacts ==
  /\ \A n \in Names : /\ Pending(n) \in Paths /\ Pending(n)[1] = "pending"
                      /\ Evolved(n) \in Paths /\ Evolved(n)[1] = "evolved"
  /\ \A m, n \in Names : /\ Pending(m) # Evolved(n)
                         /\ Pending(m) = Pending(n) => m = n
                         /\ Evolved(m) = Evolved(n) => m = n
  /\ \A p \in Paths : \E n \in Names : p = Pending(n) \/ p = Evolved(n)
BY DEF Paths, Pending, Evolved

LEMMA NoneFacts == None \notin Folders /\ None \notin Metas /\ None \notin Paths
BY NoneAssumption

LEMMA EmptyFacts == Empty \in Folders /\ Empty # None /\ Empty.meta = None
<1>1. Empty \in Folders /\ Empty.meta = None
  BY DEF Empty, Folders
<1> QED BY <1>1, NoneFacts

LEMMA GeneratedFacts ==
  ASSUME NEW review \in BOOLEAN, day \in 0..MaxDay
  PROVE  /\ Generated(review) \in Folders /\ Generated(review) # None
         /\ Generated(review).meta # None /\ ~Generated(review).meta.archived
<1>1. [archived |-> FALSE, review |-> review, born |-> day] \in Metas
  BY DEF Metas
<1>2. Generated(review) \in Folders
  BY <1>1 DEF Generated, Folders
<1>3. Generated(review).meta = [archived |-> FALSE, review |-> review, born |-> day]
  BY DEF Generated
<1>4. Generated(review).meta.archived = FALSE
  BY <1>3
<1>5. Generated(review) # None /\ Generated(review).meta # None
  BY <1>1, <1>2, <1>3, NoneFacts
<1> QED BY <1>2, <1>4, <1>5

LEMMA WrittenFacts ==
  ASSUME NEW folder \in Folders \cup {None}, NEW md \in BOOLEAN, NEW script \in BOOLEAN
  PROVE  /\ Written(folder, md, script) \in Folders /\ Written(folder, md, script) # None
         /\ folder = None => Written(folder, md, script).meta = None
         /\ folder # None => Written(folder, md, script).meta = folder.meta
<1> DEFINE base == IF folder = None THEN Empty ELSE folder
           w    == Written(folder, md, script)
<1>1. base \in Folders /\ (folder = None => base.meta = None) /\ (folder # None => base = folder)
  BY EmptyFacts
<1>2. w = [base EXCEPT !.md = md \/ @, !.script = script \/ @]
  BY DEF Written
<1> HIDE DEF base, w
<1>3. w \in Folders /\ w.meta = base.meta
  BY <1>1, <1>2 DEF Folders
<1> QED BY <1>1, <1>3, NoneFacts DEF w

LEMMA TypedInit == Init => Typed
BY BoundsAssumption DEF Init, Typed, FoldersOK, LocalsOK, LocalsType, AtWork, ClockOK, Works, Archived, Actors, Pending, Paths

LEMMA FoldersStep == Typed /\ [Next]_vars => FoldersOK'
<1> SUFFICES ASSUME Typed, [Next]_vars PROVE FoldersOK'
  OBVIOUS
<1>p. /\ FoldersOK
      /\ dirs \in [Paths -> Folders \cup {None}]
      /\ \A n \in Names : ~Archived(Pending(n))
      /\ \A p \in Paths : dirs[p] # None => dirs[p] \in Folders
      /\ day \in 0..MaxDay
  BY DEF Typed, FoldersOK, ClockOK
<1>u. ASSUME UNCHANGED dirs PROVE FoldersOK'
  BY <1>p, <1>u DEF FoldersOK, Archived
<1>w. ASSUME NEW p \in Paths, NEW folder \in Folders \cup {None}, dirs' = [dirs EXCEPT ![p] = folder],
             folder # None => \/ folder.meta = None \/ ~folder.meta.archived
                             \/ (folder.meta = dirs[p].meta /\ dirs[p] # None)
      PROVE  FoldersOK'
  <2>1. dirs' \in [Paths -> Folders \cup {None}]
    BY <1>p, <1>w
  <2>2. ASSUME NEW n \in Names PROVE ~Archived(Pending(n))'
    BY <1>p, <1>w, PathFacts DEF Archived
  <2> QED BY <2>1, <2>2 DEF FoldersOK
<1>k. \A a \in Actors : Works(a) => at[a] \in Paths
  BY DEF Typed, LocalsOK, AtWork
<1>a. Runs \subseteq Actors
  BY DEF Actors
<1>1. ASSUME NEW r \in Runs, Begin(r) PROVE FoldersOK'
  <2>1. ASSUME NEW p \in Paths, Retires(p) PROVE [dirs[p] EXCEPT !.meta.archived = TRUE] \in Folders
    BY <1>p, <2>1 DEF Retires, Folders, Metas
  <2>2. \A n \in Names : Pending(n) \in Paths /\ ~Retires(Pending(n))
    BY PathFacts DEF Retires
  <2>3. dirs' = [p \in Paths |-> IF Retires(p) THEN [dirs[p] EXCEPT !.meta.archived = TRUE] ELSE dirs[p]]
    BY <1>1 DEF Begin, RetireOld
  <2>4. dirs' \in [Paths -> Folders \cup {None}]
    BY <1>p, <2>1, <2>3
  <2>5. \A n \in Names : dirs'[Pending(n)] = dirs[Pending(n)]
    BY <2>2, <2>3
  <2> QED BY <1>p, <2>4, <2>5 DEF FoldersOK, Archived
<1>2. ASSUME NEW r \in Runs, NEW n \in Names, Write(r, n) PROVE FoldersOK'
  <2>1. dirs' = [dirs EXCEPT ![Pending(n)] = Generated(FALSE)] /\ Pending(n) \in Paths
    BY <1>2, PathFacts DEF Write, Puts
  <2>2. Generated(FALSE) \in Folders /\ ~Generated(FALSE).meta.archived
    BY <1>p, GeneratedFacts
  <2> QED BY <1>w, <2>1, <2>2
<1>3. ASSUME NEW r \in Runs, NEW n \in Names, Refine(r, n) PROVE FoldersOK'
  <2>1. UNCHANGED dirs \/ dirs' = [dirs EXCEPT ![Pending(n)] = Empty]
    BY <1>3 DEF Refine, Puts
  <2>2. Pending(n) \in Paths
    BY PathFacts
  <2> QED BY <1>u, <1>w, <2>1, <2>2, EmptyFacts
<1>4. ASSUME NEW r \in Runs, Refined(r) \/ KeepDraft(r) PROVE FoldersOK'
  <2>1. at[r] \in Paths
    BY <1>4, <1>a, <1>k DEF Refined, KeepDraft, Works
  <2>2. PICK review \in BOOLEAN : dirs' = [dirs EXCEPT ![at[r]] = Generated(review)]
    BY <1>4 DEF Refined, KeepDraft, Puts
  <2>3. Generated(review) \in Folders /\ ~Generated(review).meta.archived
    BY <1>p, GeneratedFacts
  <2> QED BY <1>w, <2>1, <2>2, <2>3
<1>5. ASSUME NEW a \in Actors, NEW md \in BOOLEAN, NEW script \in BOOLEAN, Fix(a, md, script) PROVE FoldersOK'
  <2>1. at[a] \in Paths
    BY <1>5, <1>k DEF Fix, Works
  <2>2. CASE md \/ script
    <3>1. dirs' = [dirs EXCEPT ![at[a]] = Written(dirs[at[a]], md, script)]
      BY <1>5, <2>2 DEF Fix, Puts
    <3>2. dirs[at[a]] \in Folders \cup {None}
      BY <1>p, <2>1
    <3> DEFINE w == Written(dirs[at[a]], md, script)
    <3>3. w \in Folders /\ w # None /\ (w.meta = None \/ (w.meta = dirs[at[a]].meta /\ dirs[at[a]] # None))
      BY <3>2, WrittenFacts
    <3> HIDE DEF w
    <3>4. dirs' = [dirs EXCEPT ![at[a]] = w]
      BY <3>1 DEF w
    <3> QED BY <1>w, <2>1, <3>3, <3>4
  <2>3. CASE ~(md \/ script)
    BY <1>5, <1>u, <2>3 DEF Fix
  <2> QED BY <2>2, <2>3
<1>6. ASSUME NEW n \in Names, Confirm(n) PROVE FoldersOK'
  <2>1. dirs' = [dirs EXCEPT ![Evolved(n)] = dirs[Pending(n)], ![Pending(n)] = None]
    BY <1>6 DEF Confirm
  <2>2. dirs' \in [Paths -> Folders \cup {None}]
    BY <1>p, <2>1, PathFacts
  <2>3. ASSUME NEW k \in Names PROVE ~Archived(Pending(k))'
    BY <1>p, <2>1, PathFacts DEF Archived
  <2> QED BY <2>2, <2>3 DEF FoldersOK
<1>7. ASSUME NEW n \in Names, Reject(n) PROVE FoldersOK'
  BY <1>7, <1>w, PathFacts DEF Reject, Puts
<1>8. CASE Reset
  BY <1>8, PathFacts DEF Reset, FoldersOK, Archived
<1>9. CASE \/ UNCHANGED vars \/ Tick
           \/ \E r \in Runs : Skip(r) \/ Ask(r) \/ Discard(r) \/ RefineAgain(r) \/ RefineFails(r)
           \/ \E f \in Fixers : Command(f)
           \/ \E a \in Actors : Passes(a) \/ Fails(a) \/ FixFails(a) \/ Kill(a)
  BY <1>9, <1>u DEF vars, Tick, Skip, Ask, Discard, RefineAgain, RefineFails, Command, Validate, NextRepair,
                    Passes, Fails, FixFails, Kill
<1> QED BY <1>1, <1>2, <1>3, <1>4, <1>5, <1>6, <1>7, <1>8, <1>9 DEF Next, Generate, Repair, User

\* A step of one actor leaves the others as they are.
LEMMA LocalsMove ==
  ASSUME LocalsOK, NEW a \in Actors,
         NEW next \in {"idle", "next", "asked", "refine", "test", "fix"},
         NEW where \in Paths \cup {None}, NEW n \in 0..(MaxRounds + 1),
         pc' = [pc EXCEPT ![a] = next],
         at' = [at EXCEPT ![a] = where],
         round' = [round EXCEPT ![a] = n],
         stage' \in [Runs -> {"failures", "successes"}],
         queue' \in [Fixers -> SUBSET Paths],
         next \in {"refine", "test", "fix"} => where \in Paths /\ n # 0,
         next \in {"refine", "fix"} => n \in 1..MaxRounds,
         a \in Runs /\ next \in {"refine", "test", "fix"} => \E m \in Names : where = Pending(m),
         a \in Fixers => next \in {"idle", "test", "fix"}
  PROVE  LocalsOK'
<1>1. LocalsType'
  BY DEF LocalsOK, LocalsType
<1>2. ASSUME NEW b \in Actors PROVE AtWork(b)'
  <2>1. CASE b = a
    BY <2>1 DEF LocalsOK, LocalsType, AtWork, Works
  <2>2. CASE b # a
    <3>1. pc'[b] = pc[b] /\ at'[b] = at[b] /\ round'[b] = round[b]
      BY <2>2 DEF LocalsOK, LocalsType
    <3> QED BY <3>1 DEF LocalsOK, AtWork, Works
  <2> QED BY <2>1, <2>2
<1> QED BY <1>1, <1>2 DEF LocalsOK

LEMMA LocalsStep == Typed /\ [Next]_vars => LocalsOK'
<1> SUFFICES ASSUME Typed, [Next]_vars PROVE LocalsOK'
  OBVIOUS
<1>l. LocalsOK /\ LocalsType /\ \A a \in Actors : AtWork(a)
  BY DEF Typed, LocalsOK
<1>n. MaxRounds \in Nat /\ MaxRounds # 0
  BY BoundsAssumption
<1>a. /\ Runs \subseteq Actors /\ Fixers \subseteq Actors
      /\ \A r \in Runs : r \notin Fixers
      /\ \A a \in Actors : a \in Runs \/ a \in Fixers
  BY ActorsAssumption DEF Actors
<1>e. \A a \in Actors : at = [at EXCEPT ![a] = at[a]] /\ round = [round EXCEPT ![a] = round[a]]
                        /\ pc = [pc EXCEPT ![a] = pc[a]]
                        /\ at[a] \in Paths \cup {None} /\ round[a] \in 0..(MaxRounds + 1)
  BY <1>l DEF LocalsType
<1>o. \A r \in Runs : stage \in [Runs -> {"failures", "successes"}]
                      /\ (Leaves(r) => /\ \E next \in {"next", "idle"} : pc' = [pc EXCEPT ![r] = next]
                                       /\ stage' \in [Runs -> {"failures", "successes"}])
  BY <1>l DEF LocalsType, Leaves, Goes
<1>u. ASSUME UNCHANGED locals PROVE LocalsOK'
  BY <1>l, <1>u DEF locals, LocalsOK, LocalsType, AtWork, Works
<1>k. ASSUME NEW r \in Runs, NEW next \in {"idle", "next", "asked"}, pc' = [pc EXCEPT ![r] = next],
             UNCHANGED <<at, round, queue>>, stage' \in [Runs -> {"failures", "successes"}]
      PROVE  LocalsOK'
  <2>1. at' = [at EXCEPT ![r] = at[r]] /\ round' = [round EXCEPT ![r] = round[r]]
    BY <1>k, <1>a, <1>e
  <2>2. at[r] \in Paths \cup {None} /\ round[r] \in 0..(MaxRounds + 1)
    BY <1>a, <1>e
  <2>3. queue' \in [Fixers -> SUBSET Paths]
    BY <1>k, <1>l DEF LocalsType
  <2> DEFINE where == at[r]
             n     == round[r]
  <2>4. at' = [at EXCEPT ![r] = where] /\ round' = [round EXCEPT ![r] = n]
        /\ where \in Paths \cup {None} /\ n \in 0..(MaxRounds + 1)
    BY <2>1, <2>2
  <2> HIDE DEF where, n
  <2> QED BY <1>k, <1>a, <1>l, <2>3, <2>4, LocalsMove
<1>q. ASSUME NEW a \in Actors, NEW next \in {"refine", "test", "fix"}, NEW n \in 0..(MaxRounds + 1),
             pc' = [pc EXCEPT ![a] = next], round' = [round EXCEPT ![a] = n], UNCHANGED <<at, stage, queue>>,
             Works(a), n # 0, next \in {"refine", "fix"} => n \in 1..MaxRounds, a \in Fixers => next # "refine"
      PROVE  LocalsOK'
  <2> DEFINE where == at[a]
  <2>1. at' = [at EXCEPT ![a] = where] /\ where \in Paths
    BY <1>q, <1>l DEF LocalsType, AtWork
  <2>2. a \in Runs => \E m \in Names : where = Pending(m)
    BY <1>q, <1>l DEF AtWork
  <2>3. stage' \in [Runs -> {"failures", "successes"}] /\ queue' \in [Fixers -> SUBSET Paths]
    BY <1>q, <1>l DEF LocalsType
  <2> HIDE DEF where
  <2> QED BY <1>q, <1>l, <2>1, <2>2, <2>3, LocalsMove
<1>1. ASSUME NEW r \in Runs, Begin(r) PROVE LocalsOK'
  <2>1. CASE Goes(r, "next")
    BY <1>1, <1>k, <1>o, <2>1 DEF Begin, Goes
  <2>2. CASE UNCHANGED pc
    BY <1>1, <1>u, <2>2 DEF Begin, locals
  <2> QED BY <1>1, <2>1, <2>2 DEF Begin
<1>2. ASSUME NEW r \in Runs, Skip(r) \/ Discard(r) PROVE LocalsOK'
  <2>1. Leaves(r) /\ UNCHANGED <<at, round, queue>>
    BY <1>2 DEF Skip, Discard
  <2>2. PICK next \in {"next", "idle"} : pc' = [pc EXCEPT ![r] = next]
    BY <1>o, <2>1
  <2> QED BY <1>k, <1>o, <2>1, <2>2
<1>3. ASSUME NEW r \in Runs, Ask(r) PROVE LocalsOK'
  BY <1>3, <1>k, <1>o DEF Ask, Goes
<1>4. ASSUME NEW r \in Runs, NEW n \in Names, Write(r, n) \/ Refine(r, n) PROVE LocalsOK'
  <2>1. Pending(n) \in Paths
    BY PathFacts
  <2>2. /\ at' = [at EXCEPT ![r] = Pending(n)] /\ round' = [round EXCEPT ![r] = 1]
        /\ \E next \in {"test", "refine"} : pc' = [pc EXCEPT ![r] = next]
        /\ UNCHANGED <<stage, queue>>
    BY <1>4 DEF Write, Refine, StartsRepair, Goes
  <2> DEFINE where == Pending(n)
             k     == 1
  <2>3. PICK next \in {"test", "refine"} : pc' = [pc EXCEPT ![r] = next]
    BY <2>2
  <2>4. /\ k # 0 /\ k \in 1..MaxRounds /\ k \in 0..(MaxRounds + 1) /\ round' = [round EXCEPT ![r] = k]
        /\ where \in Paths /\ at' = [at EXCEPT ![r] = where] /\ \E m \in Names : where = Pending(m)
    BY <1>n, <2>1, <2>2
  <2>5. stage' \in [Runs -> {"failures", "successes"}] /\ queue' \in [Fixers -> SUBSET Paths]
    BY <1>l, <2>2 DEF LocalsType
  <2> HIDE DEF where, k
  <2> QED BY <1>a, <1>l, <2>3, <2>4, <2>5, LocalsMove
<1>5. ASSUME NEW r \in Runs, RefineAgain(r) PROVE LocalsOK'
  <2>1. pc[r] = "refine" /\ round[r] + 1 \in 1..MaxRounds /\ round[r] + 1 \in 0..(MaxRounds + 1) /\ round[r] + 1 # 0
    BY <1>5, <1>a, <1>e, <1>l, <1>n DEF RefineAgain, AtWork, Works
  <2>2. /\ round' = [round EXCEPT ![r] = round[r] + 1] /\ UNCHANGED <<at, stage, queue>>
        /\ pc' = [pc EXCEPT ![r] = "refine"]
    BY <1>5, <1>a, <1>l, <2>1 DEF RefineAgain, LocalsType
  <2> QED BY <1>a, <1>q, <2>1, <2>2 DEF Works
<1>6. ASSUME NEW r \in Runs, Refined(r) PROVE LocalsOK'
  <2>1. pc[r] = "refine" /\ AtWork(r)
    BY <1>6, <1>a, <1>l DEF Refined
  <2>2. pc' = [pc EXCEPT ![r] = "test"] /\ round' = [round EXCEPT ![r] = 1] /\ UNCHANGED <<at, stage, queue>>
    BY <1>6 DEF Refined, Goes
  <2> DEFINE k == 1
  <2>3. k # 0 /\ k \in 0..(MaxRounds + 1) /\ round' = [round EXCEPT ![r] = k]
    BY <1>n, <2>2
  <2> HIDE DEF k
  <2> QED BY <1>a, <1>q, <2>1, <2>2, <2>3 DEF Works
<1>7. ASSUME NEW r \in Runs, KeepDraft(r) \/ RefineFails(r) PROVE LocalsOK'
  <2>1. at' = [at EXCEPT ![r] = None] /\ round' = [round EXCEPT ![r] = 0] /\ UNCHANGED queue /\ Leaves(r)
    BY <1>7 DEF KeepDraft, RefineFails, Releases
  <2>2. 0 \in 0..(MaxRounds + 1)
    BY <1>n
  <2> QED BY <1>a, <1>l, <1>o, <2>1, <2>2, LocalsMove DEF LocalsType
<1>z. ASSUME NEW a \in Actors, Ends(a), UNCHANGED queue PROVE LocalsOK'
  <2>1. at' = [at EXCEPT ![a] = None] /\ round' = [round EXCEPT ![a] = 0]
    BY <1>z DEF Ends, Releases
  <2>2. 0 \in 0..(MaxRounds + 1)
    BY <1>n
  <2>3. CASE a \in Runs
    <3>1. Leaves(a)
      BY <1>z, <2>3 DEF Ends
    <3> QED BY <1>a, <1>l, <1>o, <1>z, <2>1, <2>2, <2>3, <3>1, LocalsMove DEF LocalsType
  <2>4. CASE a \notin Runs
    <3>1. pc' = [pc EXCEPT ![a] = "idle"] /\ UNCHANGED stage
      BY <1>z, <2>4 DEF Ends, Goes
    <3> QED BY <1>l, <1>z, <2>1, <2>2, <3>1, LocalsMove DEF LocalsType
  <2> QED BY <2>3, <2>4
<1>8. ASSUME NEW a \in Actors, Passes(a) \/ Fails(a) \/ FixFails(a) PROVE LocalsOK'
  <2>1. CASE Ends(a) /\ UNCHANGED queue
    BY <1>z, <2>1
  <2>2. CASE Fails(a) /\ ~Ends(a)
    <3>1. pc[a] = "test" /\ round[a] <= MaxRounds /\ Works(a) /\ round[a] \in 1..MaxRounds
      BY <2>2, <1>e, <1>l, <1>n DEF Fails, AtWork, Works
    <3>2. pc' = [pc EXCEPT ![a] = "fix"] /\ UNCHANGED <<at, stage, queue>> /\ round' = [round EXCEPT ![a] = round[a]]
      BY <2>2, <1>e, <3>1 DEF Fails, Goes
    <3> DEFINE n == round[a]
    <3>3. n # 0 /\ n \in 0..(MaxRounds + 1) /\ n \in 1..MaxRounds /\ round' = [round EXCEPT ![a] = n]
      BY <3>1, <3>2, <1>n
    <3> HIDE DEF n
    <3> QED BY <1>q, <3>1, <3>2, <3>3 DEF Works
  <2> QED BY <1>8, <2>1, <2>2 DEF Passes, Fails, FixFails
<1>9. ASSUME NEW a \in Actors, NEW md \in BOOLEAN, NEW script \in BOOLEAN, Fix(a, md, script) PROVE LocalsOK'
  <2>1. pc[a] = "fix" /\ Works(a) /\ round[a] + 1 \in 0..(MaxRounds + 1) /\ round[a] + 1 # 0
    BY <1>9, <1>e, <1>l, <1>n DEF Fix, AtWork, Works
  <2>2. pc' = [pc EXCEPT ![a] = "test"] /\ round' = [round EXCEPT ![a] = round[a] + 1] /\ UNCHANGED <<at, stage, queue>>
    BY <1>9 DEF Fix, Goes
  <2> QED BY <1>q, <2>1, <2>2 DEF Works
<1>10. ASSUME NEW f \in Fixers, Validate(f) PROVE LocalsOK'
  <2>1. UNCHANGED <<pc, stage, at, round>> /\ queue' \in [Fixers -> SUBSET Paths]
    BY <1>10, <1>l DEF Validate, Whole, LocalsType
  <2> QED BY <1>l, <2>1 DEF LocalsOK, LocalsType, AtWork, Works
<1>11. ASSUME NEW f \in Fixers, NextRepair(f) PROVE LocalsOK'
  <2>1. PICK p \in queue[f] : StartsRepair(f, p) /\ queue' = [queue EXCEPT ![f] = @ \ {p}]
    BY <1>11 DEF NextRepair
  <2>2. p \in Paths /\ queue' \in [Fixers -> SUBSET Paths]
    BY <1>l, <2>1 DEF LocalsType
  <2>3. /\ pc' = [pc EXCEPT ![f] = "test"] /\ UNCHANGED stage
        /\ at' = [at EXCEPT ![f] = p] /\ round' = [round EXCEPT ![f] = 1]
    BY <1>11, <2>1 DEF NextRepair, Goes, StartsRepair
  <2> DEFINE k == 1
  <2>4. k # 0 /\ k \in 0..(MaxRounds + 1) /\ round' = [round EXCEPT ![f] = k]
    BY <1>n, <2>3
  <2>5. stage' \in [Runs -> {"failures", "successes"}]
    BY <1>l, <2>3 DEF LocalsType
  <2> HIDE DEF k
  <2> QED BY <1>a, <1>l, <2>2, <2>3, <2>4, <2>5, LocalsMove
<1>12. ASSUME NEW a \in Actors, Kill(a) PROVE LocalsOK'
  <2>1. /\ pc' = [pc EXCEPT ![a] = "idle"] /\ at' = [at EXCEPT ![a] = None] /\ round' = [round EXCEPT ![a] = 0]
        /\ stage' \in [Runs -> {"failures", "successes"}] /\ queue' \in [Fixers -> SUBSET Paths]
    BY <1>12, <1>l DEF Kill, Goes, Releases, LocalsType
  <2>2. 0 \in 0..(MaxRounds + 1)
    BY <1>n
  <2> QED BY <1>l, <2>1, <2>2, LocalsMove
<1>13. CASE User \/ Tick \/ UNCHANGED vars
  BY <1>13, <1>u DEF User, Reset, Confirm, Reject, Tick, vars
<1> QED BY <1>1, <1>2, <1>3, <1>4, <1>5, <1>6, <1>7, <1>8, <1>9, <1>10, <1>11, <1>12, <1>13
        DEF Next, Generate, Command, Repair

LEMMA TypedStep == Typed /\ [Next]_vars => Typed'
<1> SUFFICES ASSUME Typed, [Next]_vars PROVE Typed'
  OBVIOUS
<1>1. \/ UNCHANGED <<starts, day>>
      \/ starts < MaxStarts /\ starts' = starts + 1 /\ UNCHANGED day
      \/ day < MaxDay /\ day' = day + 1 /\ UNCHANGED starts
  BY DEF Next, Generate, Command, Repair, User, Begin, Skip, Ask, Discard, Write, Refine, RefineAgain,
         Refined, KeepDraft, RefineFails, Passes, Fails, FixFails, Fix, Validate, NextRepair, Kill, Confirm, Reject,
         Reset, Tick, vars
<1>2. ClockOK'
  BY <1>1, BoundsAssumption DEF Typed, ClockOK
<1> QED BY <1>2, FoldersStep, LocalsStep DEF Typed

\* Every variable keeps its type, and who awaits the model works on a folder
\* within his rounds.
THEOREM TypeCorrect == Spec => []TypeOK
<1>1. Typed => TypeOK
  BY DEF Typed, FoldersOK, LocalsOK, LocalsType, AtWork, Works, ClockOK, TypeOK
<1> QED BY <1>1, TypedInit, TypedStep, PTL DEF Spec

-----------------------------------------------------------------------------
(* The limit on evolved skills.  A run that has asked the model may add one more
   skill; it asked when there was room.                                       *)

Asking == {r \in Runs : pc[r] \in {"asked", "refine"}}
CapInv == Cardinality(Counted) + Cardinality(Asking) < MaxEvolved + Cardinality(Runs)

LEMMA PathsFinite == IsFiniteSet(Paths)
<1>1. IsFiniteSet({"pending", "evolved"})
  BY FS_EmptySet, FS_AddElement, {"pending", "evolved"} = ({} \cup {"pending"}) \cup {"evolved"}
<1> QED BY <1>1, FiniteAssumption, FS_Product DEF Paths

LEMMA SetsFinite ==
  /\ IsFiniteSet(Counted) /\ Cardinality(Counted) \in Nat
  /\ IsFiniteSet(Asking) /\ Cardinality(Asking) \in Nat /\ Cardinality(Asking) <= Cardinality(Runs)
  /\ Cardinality(Runs) \in Nat
<1>1. Counted \subseteq Paths /\ Asking \subseteq Runs
  BY DEF Counted, Asking
<1>2. IsFiniteSet(Counted) /\ IsFiniteSet(Asking) /\ Cardinality(Asking) <= Cardinality(Runs)
  BY <1>1, PathsFinite, FiniteAssumption, FS_Subset
<1> QED BY <1>2, FiniteAssumption, FS_CardinalityType

LEMMA SetsFiniteNext ==
  /\ IsFiniteSet(Counted') /\ Cardinality(Counted') \in Nat
  /\ IsFiniteSet(Asking') /\ Cardinality(Asking') \in Nat /\ Cardinality(Asking') <= Cardinality(Runs)
<1>1. Counted' \subseteq Paths /\ Asking' \subseteq Runs
  BY DEF Counted, Asking
<1>2. IsFiniteSet(Counted') /\ IsFiniteSet(Asking') /\ Cardinality(Asking') <= Cardinality(Runs)
  BY <1>1, PathsFinite, FiniteAssumption, FS_Subset
<1> QED BY <1>2, FS_CardinalityType

\* No skill more, and nobody more who may add one.
LEMMA CapShrinks == CapInv /\ Counted' \subseteq Counted /\ Asking' \subseteq Asking => CapInv'
<1> SUFFICES ASSUME CapInv, Counted' \subseteq Counted, Asking' \subseteq Asking PROVE CapInv'
  OBVIOUS
<1>1. Cardinality(Counted') <= Cardinality(Counted) /\ Cardinality(Asking') <= Cardinality(Asking)
  BY SetsFinite, FS_Subset
<1> QED BY <1>1, SetsFinite, SetsFiniteNext, BoundsAssumption DEF CapInv

\* Who asks has found room for one.
LEMMA CapAsks == ~CapReached /\ Counted' = Counted => CapInv'
BY SetsFinite, SetsFiniteNext, BoundsAssumption DEF CapReached, CapInv

\* Who adds a skill had asked.
LEMMA CapAdds ==
  ASSUME CapInv, NEW p \in Paths, NEW r \in Asking,
         Counted' \subseteq Counted \cup {p}, Asking' \subseteq Asking \ {r}
  PROVE  CapInv'
<1>1. Cardinality(Counted \cup {p}) <= Cardinality(Counted) + 1 /\ IsFiniteSet(Counted \cup {p})
      /\ Cardinality(Counted \cup {p}) \in Nat
  <2>1. /\ IsFiniteSet(Counted \cup {p})
        /\ Cardinality(Counted \cup {p})
             = IF p \in Counted THEN Cardinality(Counted) ELSE Cardinality(Counted) + 1
    BY SetsFinite, FS_AddElement, Zenon
  <2> QED BY <2>1, SetsFinite
<1>2. Cardinality(Asking \ {r}) = Cardinality(Asking) - 1 /\ IsFiniteSet(Asking \ {r})
  BY SetsFinite, FS_RemoveElement
<1>3. Cardinality(Counted') <= Cardinality(Counted \cup {p}) /\ Cardinality(Asking') <= Cardinality(Asking \ {r})
  BY <1>1, <1>2, FS_Subset
<1> QED BY <1>1, <1>2, <1>3, SetsFinite, SetsFiniteNext, BoundsAssumption DEF CapInv

\* A skill that is confirmed counts as before.
LEMMA CapConfirm ==
  ASSUME CapInv, NEW p, NEW q,
         q \in Counted' => p \in Counted, p \notin Counted', Counted' \ {q} \subseteq Counted, Asking' = Asking
  PROVE  CapInv'
<1>1. CASE q \in Counted' /\ q \notin Counted
  <2>1. Counted' \subseteq (Counted \ {p}) \cup {q} /\ p \in Counted
    BY <1>1
  <2>2. Cardinality(Counted \ {p}) = Cardinality(Counted) - 1 /\ IsFiniteSet(Counted \ {p})
    BY <2>1, SetsFinite, FS_RemoveElement
  <2>3. Cardinality((Counted \ {p}) \cup {q}) = Cardinality(Counted \ {p}) + 1
        /\ IsFiniteSet((Counted \ {p}) \cup {q})
    BY <1>1, <2>2, FS_AddElement
  <2>4. Cardinality(Counted') <= Cardinality((Counted \ {p}) \cup {q})
    BY <2>1, <2>3, FS_Subset
  <2> QED BY <2>2, <2>3, <2>4, SetsFinite, SetsFiniteNext, BoundsAssumption DEF CapInv
<1>2. CASE ~(q \in Counted' /\ q \notin Counted)
  BY <1>2, CapShrinks
<1> QED BY <1>1, <1>2

LEMMA CapInit == Init => CapInv
<1> SUFFICES ASSUME Init PROVE CapInv
  OBVIOUS
<1>1. Counted = {} /\ Asking = {}
  BY DEF Init, Counted, Asking, Actors
<1> QED BY <1>1, FS_EmptySet, SetsFinite, BoundsAssumption DEF CapInv

LEMMA CapStep == Typed /\ CapInv /\ [Next]_vars => CapInv'
<1> SUFFICES ASSUME Typed, CapInv, [Next]_vars PROVE CapInv'
  OBVIOUS
<1>p. /\ dirs \in [Paths -> Folders \cup {None}]
      /\ \A n \in Names : ~Archived(Pending(n))
      /\ \A p \in Paths : dirs[p] # None => dirs[p] \in Folders
      /\ day \in 0..MaxDay
      /\ pc \in [Actors -> {"idle", "next", "asked", "refine", "test", "fix"}]
      /\ \A a \in Actors : AtWork(a)
  BY DEF Typed, FoldersOK, ClockOK, LocalsOK, LocalsType
<1>a. Runs \subseteq Actors /\ \A f \in Fixers : f \notin Runs
  BY ActorsAssumption DEF Actors
<1>d. UNCHANGED dirs => Counted' = Counted
  BY DEF Counted, Archived
<1>g. ASSUME NEW a \in Actors, NEW next \in {"idle", "next", "test", "fix"}, pc' = [pc EXCEPT ![a] = next]
      PROVE  Asking' \subseteq Asking \ {a}
  <2>1. pc'[a] \notin {"asked", "refine"} /\ \A b \in Actors : b # a => pc'[b] = pc[b]
    BY <1>g, <1>p
  <2> QED BY <2>1, <1>a DEF Asking
<1>h. ASSUME NEW r \in Runs, pc[r] = "asked", pc' = [pc EXCEPT ![r] = "refine"]
      PROVE  Asking' \subseteq Asking
  BY <1>h, <1>a, <1>p DEF Asking
<1>o. ASSUME NEW r \in Runs, Leaves(r) PROVE Asking' \subseteq Asking \ {r}
  <2>1. PICK next \in {"next", "idle"} : pc' = [pc EXCEPT ![r] = next]
    BY <1>o DEF Leaves, Goes
  <2> QED BY <1>a, <1>g, <2>1
<1>n. ASSUME NEW p \in Paths, NEW folder, dirs' = [dirs EXCEPT ![p] = folder]
      PROVE  /\ Counted' \subseteq Counted \cup {p}
             /\ (folder = None \/ folder.meta = None) => Counted' \subseteq Counted
             /\ dirs[p] # None /\ folder.meta = dirs[p].meta => Counted' \subseteq Counted
  BY <1>n, <1>p DEF Counted, Archived
<1>1. ASSUME NEW r \in Runs, Begin(r) PROVE CapInv'
  <2>1. Counted' \subseteq Counted
    <3>1. ASSUME NEW p \in Counted' PROVE p \in Counted
      <4>1. p \in Paths /\ dirs'[p] = IF Retires(p) THEN [dirs[p] EXCEPT !.meta.archived = TRUE] ELSE dirs[p]
        BY <1>1, <3>1 DEF Begin, RetireOld, Counted
      <4>2. CASE Retires(p)
        BY <4>1, <4>2 DEF Retires, Counted, Archived
      <4>3. CASE ~Retires(p)
        BY <3>1, <4>1, <4>3 DEF Counted, Archived
      <4> QED BY <4>2, <4>3
    <3> QED BY <3>1
  <2>2. Asking' \subseteq Asking
    <3>1. CASE Goes(r, "next")
      <4>1. pc' = [pc EXCEPT ![r] = "next"]
        BY <3>1 DEF Goes
      <4> QED BY <4>1, <1>a, <1>g
    <3>2. CASE UNCHANGED pc
      BY <3>2 DEF Asking
    <3> QED BY <1>1, <3>1, <3>2 DEF Begin
  <2> QED BY <2>1, <2>2, CapShrinks
<1>2. ASSUME NEW r \in Runs, Ask(r) PROVE CapInv'
  BY <1>2, <1>d, CapAsks DEF Ask
<1>3. ASSUME NEW r \in Runs, NEW n \in Names, Write(r, n) PROVE CapInv'
  <2>1. r \in Asking /\ Pending(n) \in Paths /\ dirs' = [dirs EXCEPT ![Pending(n)] = Generated(FALSE)]
        /\ pc' = [pc EXCEPT ![r] = "test"]
    BY <1>3, PathFacts DEF Write, Asking, Puts, Goes
  <2>2. Counted' \subseteq Counted \cup {Pending(n)} /\ Asking' \subseteq Asking \ {r}
    BY <1>a, <1>g, <1>n, <2>1
  <2> QED BY <2>1, <2>2, CapAdds
<1>4. ASSUME NEW r \in Runs, NEW n \in Names, Refine(r, n) PROVE CapInv'
  <2>1. pc[r] = "asked" /\ pc' = [pc EXCEPT ![r] = "refine"]
        /\ (UNCHANGED dirs \/ dirs' = [dirs EXCEPT ![Pending(n)] = Empty])
    BY <1>4 DEF Refine, Puts, Goes
  <2>2. Counted' \subseteq Counted
    BY <1>d, <1>n, <2>1, PathFacts, EmptyFacts
  <2> QED BY <1>h, <2>1, <2>2, CapShrinks
<1>5. ASSUME NEW r \in Runs, Refined(r) \/ KeepDraft(r) PROVE CapInv'
  <2>1. r \in Asking /\ at[r] \in Paths
    BY <1>5, <1>a, <1>p DEF Refined, KeepDraft, Asking, AtWork, Works
  <2>2. PICK folder : dirs' = [dirs EXCEPT ![at[r]] = folder]
    BY <1>5 DEF Refined, KeepDraft, Puts
  <2>3. Asking' \subseteq Asking \ {r}
    <3>1. Leaves(r) \/ pc' = [pc EXCEPT ![r] = "test"]
      BY <1>5 DEF Refined, KeepDraft, Goes
    <3> QED BY <3>1, <1>a, <1>g, <1>o
  <2>4. Counted' \subseteq Counted \cup {at[r]}
    BY <1>n, <2>1, <2>2
  <2> QED BY <2>1, <2>3, <2>4, CapAdds
<1>6. ASSUME NEW a \in Actors, NEW md \in BOOLEAN, NEW script \in BOOLEAN, Fix(a, md, script) PROVE CapInv'
  <2>1. at[a] \in Paths /\ pc' = [pc EXCEPT ![a] = "test"]
    BY <1>6, <1>p DEF Fix, Goes, AtWork, Works
  <2> DEFINE w == Written(dirs[at[a]], md, script)
  <2>2. dirs[at[a]] \in Folders \cup {None}
    BY <1>p, <2>1
  <2>3. (dirs[at[a]] = None => w.meta = None) /\ (dirs[at[a]] # None => w.meta = dirs[at[a]].meta)
    BY <2>2, WrittenFacts
  <2>4. UNCHANGED dirs \/ dirs' = [dirs EXCEPT ![at[a]] = w]
    BY <1>6 DEF Fix, Puts
  <2> HIDE DEF w
  <2>5. Counted' \subseteq Counted
    BY <1>d, <1>n, <2>1, <2>3, <2>4
  <2>6. Asking' \subseteq Asking
    BY <1>g, <2>1
  <2> QED BY <2>5, <2>6, CapShrinks
<1>7. ASSUME NEW n \in Names, Confirm(n) PROVE CapInv'
  <2> DEFINE p == Pending(n)
             q == Evolved(n)
  <2>1. /\ dirs' = [dirs EXCEPT ![q] = dirs[p], ![p] = None] /\ dirs[p] # None /\ dirs[q] = None
        /\ p \in Paths /\ q \in Paths /\ p # q /\ p[1] = "pending" /\ q[1] = "evolved" /\ UNCHANGED pc
    BY <1>7, PathFacts DEF Confirm, locals
  <2> HIDE DEF p, q
  <2>2. dirs'[q] = dirs[p] /\ dirs'[p] = None /\ \A k \in Paths \ {p, q} : dirs'[k] = dirs[k]
    BY <1>p, <2>1
  <2>3. (q \in Counted' => p \in Counted) /\ p \notin Counted' /\ Counted' \ {q} \subseteq Counted
    BY <2>1, <2>2 DEF Counted, Archived
  <2>4. Asking' = Asking
    BY <2>1 DEF Asking
  <2> QED BY <2>3, <2>4, CapConfirm
<1>8. ASSUME NEW n \in Names, Reject(n) PROVE CapInv'
  <2>1. Counted' \subseteq Counted
    BY <1>8, <1>n, PathFacts DEF Reject, Puts
  <2>2. Asking' \subseteq Asking
    BY <1>8 DEF Reject, locals, Asking
  <2> QED BY <2>1, <2>2, CapShrinks
<1>9. CASE Reset
  <2>1. Counted' \subseteq Counted /\ Asking' \subseteq Asking
    BY <1>9 DEF Reset, locals, Asking, Counted
  <2> QED BY <2>1, CapShrinks
<1>10. ASSUME NEW r \in Runs, Skip(r) \/ Discard(r) \/ RefineFails(r) PROVE CapInv'
  <2>1. Counted' \subseteq Counted /\ Leaves(r)
    BY <1>10, <1>d DEF Skip, Discard, RefineFails
  <2> QED BY <1>o, <2>1, CapShrinks
<1>11. ASSUME NEW a \in Actors, Passes(a) \/ Fails(a) \/ FixFails(a) \/ Kill(a) PROVE CapInv'
  <2>1. Counted' \subseteq Counted
    BY <1>11, <1>d DEF Passes, Fails, FixFails, Kill
  <2>2. \/ a \in Runs /\ Leaves(a)
        \/ \E next \in {"idle", "fix"} : pc' = [pc EXCEPT ![a] = next]
    BY <1>11 DEF Passes, Fails, FixFails, Kill, Ends, Goes
  <2>3. Asking' \subseteq Asking
    BY <1>g, <1>o, <2>2
  <2> QED BY <2>1, <2>3, CapShrinks
<1>12. ASSUME NEW f \in Fixers, Command(f) PROVE CapInv'
  <2>1. Counted' \subseteq Counted
    BY <1>12, <1>d DEF Command, Validate, NextRepair
  <2>2. UNCHANGED pc \/ pc' = [pc EXCEPT ![f] = "test"]
    BY <1>12 DEF Command, Validate, NextRepair, Goes
  <2>3. f \in Actors
    BY DEF Actors
  <2>4. Asking' \subseteq Asking
    BY <1>g, <2>2, <2>3 DEF Asking
  <2> QED BY <2>1, <2>4, CapShrinks
<1>13. CASE Tick \/ UNCHANGED vars \/ \E r \in Runs : RefineAgain(r)
  <2>1. Counted' \subseteq Counted /\ Asking' \subseteq Asking
    BY <1>13, <1>d DEF Tick, vars, locals, RefineAgain, Asking
  <2> QED BY <2>1, CapShrinks
<1> QED BY <1>1, <1>2, <1>3, <1>4, <1>5, <1>6, <1>7, <1>8, <1>9, <1>10, <1>11, <1>12, <1>13
        DEF Next, Generate, Repair, User

\* However many processes evolve skills, each exceeds the limit by at most the
\* skill it asked for while there was room, the first of them not at all.
THEOREM LimitKept == Spec => []LimitHolds
<1>1. CapInv => LimitHolds
  BY SetsFinite, BoundsAssumption DEF CapInv, LimitHolds
<1> QED BY <1>1, TypedInit, TypedStep, CapInit, CapStep, PTL DEF Spec

-----------------------------------------------------------------------------
(* The life of a skill: every step of SkillSynth is one of SkillLifecycle or
   leaves the status of the skills and their repairs as they are.             *)

LEMMA StatusIs ==
  /\ Status = [n \in Names |-> Status[n]]
  /\ \A n \in Names :
       /\ Status[n] \in {"none", "pending", "active", "archived"}
       /\ Status[n] = "archived" <=> Archived(Evolved(n))
       /\ Status[n] = "active" <=> dirs[Evolved(n)] # None /\ ~Archived(Evolved(n))
       /\ Status[n] = "pending" <=> dirs[Evolved(n)] = None /\ dirs[Pending(n)] # None
       /\ Status[n] = "none" <=> dirs[Evolved(n)] = None /\ dirs[Pending(n)] = None
BY DEF Status, Archived

LEMMA StatusWillBe ==
  /\ Status' = [n \in Names |-> Status'[n]]
  /\ \A n \in Names :
       /\ Status'[n] \in {"none", "pending", "active", "archived"}
       /\ Status'[n] = "archived" <=> Archived(Evolved(n))'
       /\ Status'[n] = "active" <=> dirs'[Evolved(n)] # None /\ ~Archived(Evolved(n))'
       /\ Status'[n] = "pending" <=> dirs'[Evolved(n)] = None /\ dirs'[Pending(n)] # None
       /\ Status'[n] = "none" <=> dirs'[Evolved(n)] = None /\ dirs'[Pending(n)] = None
BY DEF Status, Archived

\* What one name's folders go through.
LEMMA OneMoves ==
  ASSUME NEW n \in Names, NEW from, NEW to, Status[n] = from, Status'[n] = to,
         \A m \in Names \ {n} : dirs'[Pending(m)] = dirs[Pending(m)] /\ dirs'[Evolved(m)] = dirs[Evolved(m)],
         Open' = Open
  PROVE  Life!Moves(n, from, to)
<1>1. ASSUME NEW m \in Names \ {n} PROVE Status'[m] = Status[m]
  BY <1>1, StatusIs, StatusWillBe DEF Archived
<1>2. Status' = [Status EXCEPT ![n] = to]
  BY <1>1, StatusIs, StatusWillBe
<1> QED BY <1>2 DEF Life!Moves

\* A step that leaves the folders alone may only close repairs.
LEMMA OnlyRepairs == UNCHANGED dirs /\ Open' \subseteq Open \cup Life!Accepted => Life!Next
<1> SUFFICES ASSUME UNCHANGED dirs, Open' \subseteq Open \cup Life!Accepted PROVE Life!Next
  OBVIOUS
<1>1. Status' = Status
  BY DEF Status, Archived
<1> QED BY <1>1 DEF Life!Next, Life!Repair

LEMMA LifeInit == Init => Life!Init
<1> SUFFICES ASSUME Init PROVE Life!Init
  OBVIOUS
<1>1. \A n \in Names : dirs[Evolved(n)] = None /\ dirs[Pending(n)] = None
  BY PathFacts DEF Init
<1>2. Status = [n \in Names |-> "none"]
  BY <1>1, StatusIs
<1>3. Open = {}
  BY DEF Init, Open, Actors
<1> QED BY <1>2, <1>3 DEF Life!Init

LEMMA LifeStep == Typed /\ [Next]_vars => [Life!Next]_(Life!vars)
<1> SUFFICES ASSUME Typed, [Next]_vars PROVE Life!Next \/ UNCHANGED <<Status, Open>>
  BY DEF Life!vars
<1>p. /\ dirs \in [Paths -> Folders \cup {None}]
      /\ \A n \in Names : ~Archived(Pending(n))
      /\ pc \in [Actors -> {"idle", "next", "asked", "refine", "test", "fix"}]
      /\ queue \in [Fixers -> SUBSET Paths]
      /\ day \in 0..MaxDay
      /\ \A a \in Actors : AtWork(a)
      /\ at \in [Actors -> Paths \cup {None}]
  BY DEF Typed, FoldersOK, ClockOK, LocalsOK, LocalsType
<1>a. Runs \subseteq Actors /\ Fixers \subseteq Actors /\ \A f \in Fixers : f \notin Runs
  BY ActorsAssumption DEF Actors
\* Who works on an accepted skill is a repair command.
<1>f. \A a \in Actors, n \in Names :
        (pc[a] \in {"test", "fix"} /\ at[a] = Evolved(n)) => a \in Fixers
  BY <1>p, PathFacts DEF AtWork, Works, Actors
<1>u. ASSUME UNCHANGED dirs, Open' \subseteq Open PROVE Life!Next
  BY <1>u, OnlyRepairs
\* A run that moves on while its work is on a proposed skill opens nothing.
<1>o. ASSUME NEW r \in Runs, \A a \in Actors \ {r} : pc'[a] = pc[a] /\ at'[a] = at[a], UNCHANGED queue,
             pc'[r] \in {"test", "fix"} => \E m \in Names : at'[r] = Pending(m)
      PROVE  Open' = Open
  <2>1. \A n \in Names : ~(pc'[r] \in {"test", "fix"} /\ at'[r] = Evolved(n))
    BY <1>o, PathFacts
  <2>2. \A n \in Names : ~(pc[r] \in {"test", "fix"} /\ at[r] = Evolved(n))
    BY <1>a, <1>f
  <2>3. ASSUME NEW n \in Names PROVE (n \in Open') = (n \in Open)
    BY <1>o, <2>1, <2>2 DEF Open
  <2> QED BY <2>3 DEF Open
<1>w. ASSUME NEW n \in Names, NEW folder, folder # None,
             dirs' = [dirs EXCEPT ![Pending(n)] = folder], Open' = Open
      PROVE  Life!Next \/ UNCHANGED <<Status, Open>>
  <2>1. /\ dirs'[Pending(n)] # None /\ dirs'[Evolved(n)] = dirs[Evolved(n)]
        /\ \A m \in Names \ {n} : dirs'[Pending(m)] = dirs[Pending(m)] /\ dirs'[Evolved(m)] = dirs[Evolved(m)]
    BY <1>w, <1>p, PathFacts
  <2>2. CASE Status[n] = "none"
    <3>1. Status'[n] = "pending"
      BY <2>1, <2>2, StatusIs, StatusWillBe
    <3>2. Life!Moves(n, "none", "pending")
      BY <1>w, <2>1, <2>2, <3>1, OneMoves
    <3> QED BY <3>2 DEF Life!Next
  <2>3. CASE Status[n] # "none"
    <3>1. ASSUME NEW m \in Names PROVE Status'[m] = Status[m]
      BY <2>1, <2>3, StatusIs, StatusWillBe DEF Archived
    <3> QED BY <1>w, <3>1, StatusIs, StatusWillBe
  <2> QED BY <2>2, <2>3
<1>1. ASSUME NEW r \in Runs, Begin(r) PROVE Life!Next
  <2> DEFINE S == {n \in Names : Retires(Evolved(n))}
  <2>1. dirs' = [p \in Paths |-> IF Retires(p) THEN [dirs[p] EXCEPT !.meta.archived = TRUE] ELSE dirs[p]]
    BY <1>1 DEF Begin, RetireOld
  <2>2. \A n \in Names : dirs'[Pending(n)] = dirs[Pending(n)]
    BY <2>1, PathFacts DEF Retires
  <2>3. ASSUME NEW n \in S PROVE Status[n] = "active" /\ Status'[n] = "archived"
    <3>1. dirs[Evolved(n)] \in Folders /\ dirs[Evolved(n)].meta \in Metas /\ Evolved(n) \in Paths
      BY <1>p, <2>3, PathFacts DEF Retires, Folders
    <3>2. dirs'[Evolved(n)] = [dirs[Evolved(n)] EXCEPT !.meta.archived = TRUE]
      BY <2>1, <2>3, <3>1
    <3>3. dirs'[Evolved(n)] \in Folders /\ dirs'[Evolved(n)].meta \in Metas /\ dirs'[Evolved(n)].meta.archived
      BY <3>1, <3>2 DEF Folders, Metas
    <3>4. Archived(Evolved(n))' /\ ~Archived(Evolved(n)) /\ dirs[Evolved(n)] # None
      BY <2>3, <3>3, NoneFacts DEF Archived, Retires
    <3> QED BY <3>4, StatusIs, StatusWillBe
  <2>4. ASSUME NEW n \in Names \ S PROVE Status'[n] = Status[n]
    <3>1. dirs'[Evolved(n)] = dirs[Evolved(n)]
      BY <2>1, <2>4, PathFacts
    <3> QED BY <2>2, <2>4, <3>1, StatusIs, StatusWillBe DEF Archived
  <2>5. Open' = Open
    <3>1. pc'[r] \notin {"test", "fix"} /\ \A a \in Actors \ {r} : pc'[a] = pc[a]
      BY <1>1, <1>a, <1>p DEF Begin, Goes
    <3> QED BY <1>1, <1>o, <3>1 DEF Begin
  <2>6. S \in SUBSET {n \in Names : Status[n] = "active"}
    BY <2>3
  <2>7. Status' = [n \in Names |-> IF n \in S THEN "archived" ELSE Status[n]]
    BY <2>3, <2>4, StatusWillBe
  <2> HIDE DEF S
  <2>8. Life!Retire
    BY <2>5, <2>6, <2>7 DEF Life!Retire
  <2> QED BY <2>8 DEF Life!Next
<1>2. ASSUME NEW r \in Runs, NEW n \in Names, Write(r, n) \/ Refine(r, n)
      PROVE  Life!Next \/ UNCHANGED <<Status, Open>>
  <2>1. /\ \A a \in Actors \ {r} : pc'[a] = pc[a] /\ at'[a] = at[a]
        /\ at'[r] = Pending(n) /\ UNCHANGED queue
    BY <1>2, <1>a, <1>p DEF Write, Refine, StartsRepair, Goes
  <2>2. Open' = Open
    BY <1>o, <2>1
  <2>3. UNCHANGED dirs \/ \E folder : folder # None /\ dirs' = [dirs EXCEPT ![Pending(n)] = folder]
    BY <1>2, <1>p, EmptyFacts, GeneratedFacts DEF Write, Refine, Puts
  <2> QED BY <1>u, <1>w, <2>2, <2>3
<1>3. ASSUME NEW r \in Runs, Refined(r) \/ KeepDraft(r) PROVE Life!Next \/ UNCHANGED <<Status, Open>>
  <2>1. PICK n \in Names : at[r] = Pending(n)
    BY <1>3, <1>a, <1>p DEF Refined, KeepDraft, AtWork, Works
  <2>2. /\ \A a \in Actors \ {r} : pc'[a] = pc[a] /\ at'[a] = at[a]
        /\ (at'[r] = Pending(n) \/ pc'[r] \in {"next", "idle"}) /\ UNCHANGED queue
    BY <1>3, <1>a, <1>p, <2>1 DEF Refined, KeepDraft, Leaves, Releases, Goes
  <2>3. Open' = Open
    BY <1>o, <2>2
  <2>4. PICK review \in BOOLEAN : dirs' = [dirs EXCEPT ![at[r]] = Generated(review)]
    BY <1>3 DEF Refined, KeepDraft, Puts
  <2>5. Generated(review) # None /\ dirs' = [dirs EXCEPT ![Pending(n)] = Generated(review)]
    BY <1>p, <2>1, <2>4, GeneratedFacts
  <2> QED BY <1>w, <2>3, <2>5
<1>4. ASSUME NEW a \in Actors, NEW md \in BOOLEAN, NEW script \in BOOLEAN, Fix(a, md, script)
      PROVE  Life!Next \/ UNCHANGED <<Status, Open>>
  <2>1. /\ \A b \in Actors \ {a} : pc'[b] = pc[b] /\ at'[b] = at[b]
        /\ pc[a] = "fix" /\ pc'[a] = "test" /\ at'[a] = at[a] /\ at[a] \in Paths /\ UNCHANGED queue
    BY <1>4, <1>p DEF Fix, Goes, AtWork, Works
  <2>2. Open' = Open
    BY <2>1 DEF Open
  <2> DEFINE w == Written(dirs[at[a]], md, script)
  <2>3. dirs[at[a]] \in Folders \cup {None}
    BY <1>p, <2>1
  <2>4. /\ w # None /\ (dirs[at[a]] = None => w.meta = None)
        /\ (dirs[at[a]] # None => w.meta = dirs[at[a]].meta)
    BY <2>3, WrittenFacts
  <2>5. UNCHANGED dirs \/ dirs' = [dirs EXCEPT ![at[a]] = w]
    BY <1>4 DEF Fix, Puts
  <2> HIDE DEF w
  <2>6. PICK n \in Names : at[a] = Pending(n) \/ at[a] = Evolved(n)
    BY <2>1, PathFacts
  <2>7. CASE UNCHANGED dirs
    BY <1>u, <2>2, <2>7
  <2>8. CASE at[a] = Pending(n) /\ dirs' = [dirs EXCEPT ![at[a]] = w]
    <3>1. dirs' = [dirs EXCEPT ![Pending(n)] = w]
      BY <2>8
    <3> QED BY <1>w, <2>2, <2>4, <3>1
  <2>9. CASE at[a] = Evolved(n) /\ dirs' = [dirs EXCEPT ![at[a]] = w]
    <3>1. /\ dirs'[Evolved(n)] = w /\ dirs'[Pending(n)] = dirs[Pending(n)]
          /\ \A m \in Names \ {n} : dirs'[Pending(m)] = dirs[Pending(m)] /\ dirs'[Evolved(m)] = dirs[Evolved(m)]
      BY <1>p, <2>9, PathFacts
    <3>2. n \in Open
      BY <2>1, <2>9 DEF Open
    <3>3. CASE dirs[Evolved(n)] = None
      <4>1. Status[n] \in {"none", "pending"} /\ Status'[n] = "active"
        BY <2>4, <2>9, <3>1, <3>3, StatusIs, StatusWillBe DEF Archived
      <4>2. Life!Moves(n, Status[n], "active")
        BY <2>2, <3>1, <4>1, OneMoves
      <4>3. Life!Revive(n)
        BY <3>2, <4>1, <4>2 DEF Life!Revive
      <4> QED BY <4>3 DEF Life!Next
    <3>4. CASE dirs[Evolved(n)] # None
      <4>1. Status'[n] = Status[n]
        BY <2>4, <2>9, <3>1, <3>4, StatusIs, StatusWillBe DEF Archived
      <4>2. ASSUME NEW m \in Names \ {n} PROVE Status'[m] = Status[m]
        BY <3>1, StatusIs, StatusWillBe DEF Archived
      <4> QED BY <2>2, <4>1, <4>2, StatusIs, StatusWillBe
    <3> QED BY <3>3, <3>4
  <2> QED BY <2>5, <2>6, <2>7, <2>8, <2>9
<1>5. ASSUME NEW n \in Names, Confirm(n) PROVE Life!Next
  <2>1. /\ dirs'[Evolved(n)] = dirs[Pending(n)] /\ dirs'[Pending(n)] = None
        /\ dirs[Pending(n)] # None /\ dirs[Evolved(n)] = None
        /\ \A m \in Names \ {n} : dirs'[Pending(m)] = dirs[Pending(m)] /\ dirs'[Evolved(m)] = dirs[Evolved(m)]
    BY <1>5, <1>p, PathFacts DEF Confirm
  <2>2. Status[n] = "pending" /\ Status'[n] = "active"
    BY <1>p, <2>1, StatusIs, StatusWillBe DEF Archived
  <2>3. Open' = Open
    BY <1>5 DEF Confirm, locals, Open
  <2>4. Life!Moves(n, "pending", "active")
    BY <2>1, <2>2, <2>3, OneMoves
  <2> QED BY <2>4 DEF Life!Next
<1>6. ASSUME NEW n \in Names, Reject(n) PROVE Life!Next \/ UNCHANGED <<Status, Open>>
  <2>1. /\ dirs'[Evolved(n)] = dirs[Evolved(n)] /\ dirs'[Pending(n)] = None /\ dirs[Pending(n)] # None
        /\ \A m \in Names \ {n} : dirs'[Pending(m)] = dirs[Pending(m)] /\ dirs'[Evolved(m)] = dirs[Evolved(m)]
    BY <1>6, <1>p, PathFacts DEF Reject, Puts
  <2>2. Open' = Open
    BY <1>6 DEF Reject, locals, Open
  <2>3. CASE dirs[Evolved(n)] = None
    <3>1. Status[n] = "pending" /\ Status'[n] = "none"
      BY <2>1, <2>3, StatusIs, StatusWillBe
    <3>2. Life!Moves(n, "pending", "none")
      BY <2>1, <2>2, <3>1, OneMoves
    <3> QED BY <3>2 DEF Life!Next
  <2>4. CASE dirs[Evolved(n)] # None
    <3>1. ASSUME NEW m \in Names PROVE Status'[m] = Status[m]
      BY <2>1, <2>4, StatusIs, StatusWillBe DEF Archived
    <3> QED BY <2>2, <3>1, StatusIs, StatusWillBe
  <2> QED BY <2>3, <2>4
<1>7. CASE Reset
  <2>1. \A n \in Names : dirs'[Pending(n)] = None /\ dirs'[Evolved(n)] = None
    BY <1>7, PathFacts DEF Reset
  <2>2. Status' = [n \in Names |-> "none"]
    BY <2>1, StatusWillBe
  <2>3. Open' = Open
    BY <1>7 DEF Reset, locals, Open
  <2> QED BY <2>2, <2>3 DEF Life!Reset, Life!Next
<1>8. ASSUME NEW r \in Runs, Skip(r) \/ Ask(r) \/ Discard(r) \/ RefineAgain(r) \/ RefineFails(r) PROVE Life!Next
  <2>1. /\ UNCHANGED <<dirs, queue>> /\ pc'[r] \notin {"test", "fix"}
        /\ \A a \in Actors \ {r} : pc'[a] = pc[a] /\ at'[a] = at[a]
    BY <1>8, <1>a, <1>p DEF Skip, Ask, Discard, RefineAgain, RefineFails, Leaves, Releases, Goes
  <2> QED BY <1>o, <1>u, <2>1
<1>9. ASSUME NEW a \in Actors, Passes(a) \/ Fails(a) \/ FixFails(a) \/ Kill(a) PROVE Life!Next
  <2>1. /\ UNCHANGED dirs
        /\ \A b \in Actors \ {a} : pc'[b] = pc[b] /\ at'[b] = at[b]
        /\ \/ pc'[a] \in {"next", "idle"}
           \/ pc[a] = "test" /\ at'[a] = at[a]
        /\ \A f \in Fixers : queue'[f] = queue[f] \/ queue'[f] = {}
    BY <1>9, <1>a, <1>p DEF Passes, Fails, FixFails, Kill, Ends, Leaves, Releases, Goes
  <2>2. Open' \subseteq Open
    BY <1>a, <2>1 DEF Open
  <2> QED BY <1>u, <2>1, <2>2
<1>10. ASSUME NEW f \in Fixers, Validate(f) PROVE Life!Next
  <2>1. PICK failed \in SUBSET Whole : queue' = [queue EXCEPT ![f] = failed]
    BY <1>10 DEF Validate
  <2>2. UNCHANGED <<dirs, pc, at>>
    BY <1>10 DEF Validate
  <2>3. \A n \in Names : Evolved(n) \in failed => n \in Life!Accepted
    BY <2>1, StatusIs DEF Whole, Life!Accepted
  <2>4. Open' \subseteq Open \cup Life!Accepted
    BY <1>p, <2>1, <2>2, <2>3 DEF Open
  <2> QED BY <2>2, <2>4, OnlyRepairs
<1>11. ASSUME NEW f \in Fixers, NextRepair(f) PROVE Life!Next
  <2>1. PICK p \in queue[f] : at' = [at EXCEPT ![f] = p] /\ queue' = [queue EXCEPT ![f] = @ \ {p}]
    BY <1>11 DEF NextRepair, StartsRepair
  <2>2. UNCHANGED dirs /\ pc' = [pc EXCEPT ![f] = "test"]
    BY <1>11 DEF NextRepair, Goes
  <2>3. Open' \subseteq Open
    BY <1>a, <1>p, <2>1, <2>2 DEF Open
  <2> QED BY <1>u, <2>2, <2>3
<1>12. CASE Tick \/ UNCHANGED vars
  BY <1>12, <1>u DEF Tick, vars, locals, Open
<1> QED BY <1>1, <1>2, <1>3, <1>4, <1>5, <1>6, <1>7, <1>8, <1>9, <1>10, <1>11, <1>12
        DEF Next, Generate, Command, Repair, User

\* Whatever processes and the user do at the same time, nothing comes into use
\* unless the user accepts it or a repair that was open puts it back, and nothing
\* retired is used again.
THEOREM RefinesLifecycle == Spec => ImplementsLifecycle
BY TypedInit, TypedStep, LifeInit, LifeStep, PTL DEF Spec, ImplementsLifecycle, Life!Spec
=============================================================================
