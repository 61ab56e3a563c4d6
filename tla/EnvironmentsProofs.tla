------------------------- MODULE EnvironmentsProofs -------------------------
(* Theorems about Environments, for any number of processes, calls, crashes and
   packages.                                                                  *)
EXTENDS Environments, FiniteSetTheorems, TLAPS

-----------------------------------------------------------------------------
(* Types. *)

States == {"wipe", "look", "stale", "create", "download", "verify", "extract", "unpack", "place",
           "provisioned", "make", "install", "use"}

LEMMA Constants ==
  /\ Parts = {1, 2} /\ Cardinality(Parts) = 2 /\ Blocks = {1, 2, -1, -2}
  /\ Langs \subseteq {"python", "node"} /\ Serves \in [Procs -> SUBSET Langs]
  /\ MaxCalls \in Nat /\ MaxCrashes \in Nat /\ Mark \notin Packages
  /\ None \notin CallRecords /\ None \notin Files
  /\ \A d \in SUBSET Blocks : d # None
  /\ \A d \in SUBSET (Packages \cup {Mark}) : d # None
<1>1. Parts = {1, 2} /\ Blocks = {1, 2, -1, -2}
  BY DEF Parts, Interpreter, Blocks
<1>2. Cardinality(1..2) = 2
  <2>1. 1 \in Int /\ 2 \in Int
    OBVIOUS
  <2>2. Cardinality(1..2) = IF 1 > 2 THEN 0 ELSE 2 - 1 + 1
    BY <2>1, FS_Interval
  <2> QED BY <2>2
<1>3. 1..2 = {1, 2}
  OBVIOUS
<1>4. \A d \in (SUBSET Blocks) \cup (SUBSET (Packages \cup {Mark})) : d # None
  BY NoneAssumption
<1>5. None \notin CallRecords /\ None \notin Files
  BY NoneAssumption
<1>6. /\ Langs \subseteq {"python", "node"} /\ Serves \in [Procs -> SUBSET Langs]
      /\ MaxCalls \in Nat /\ MaxCrashes \in Nat /\ Mark \notin Packages
  BY LangsAssumption, BoundsAssumption, MarkAssumption
<1>7. Cardinality(Parts) = 2
  BY <1>1, <1>2, <1>3
<1> QED BY <1>1, <1>4, <1>5, <1>6, <1>7

LEMMA CallTyped ==
  ASSUME TypeOK, NEW p \in Procs, proc[p] # None
  PROVE  /\ proc[p] \in CallRecords /\ proc[p].pc \in States /\ Lang(p) \in Langs
         /\ proc[p].n \in 0..2 /\ proc[p].file \in Files \cup {None}
BY Constants DEF TypeOK, CallRecords, States, Lang

\* The calls after a step of process p that ends its call, or takes it on to pc.
ProcTyped == proc \in [Procs -> CallRecords \cup {None}]
Others(p) == \A q \in Procs \ {p} : proc'[q] = proc[q]
Quits(p) == ProcTyped' /\ Others(p) /\ proc'[p] = None
Continues(p, pc) ==
  /\ ProcTyped' /\ Others(p) /\ proc'[p] # None /\ proc'[p].pc = pc
  /\ proc'[p].op = proc[p].op /\ proc'[p].lang = proc[p].lang /\ proc'[p].fresh = proc[p].fresh

LEMMA EndsQuits ==
  ASSUME TypeOK, NEW p \in Procs, Ends(p)
  PROVE  Quits(p)
BY DEF TypeOK, Ends, Quits, ProcTyped, Others

\* A call of which place, progress, file and mirror change.
Moved(b, pc, n, file, fallback) ==
  [b EXCEPT !.pc = pc, !.n = n, !.file = file, !.fallback = fallback]

LEMMA MovesOn ==
  ASSUME TypeOK, NEW p \in Procs, proc[p] # None, NEW pc \in States, NEW n \in 0..2,
         NEW file \in Files \cup {None}, NEW fallback, fallback \in BOOLEAN,
         proc' = [proc EXCEPT ![p] = Moved(proc[p], pc, n, file, fallback)]
  PROVE  Continues(p, pc) /\ proc'[p].n = n /\ proc'[p].file = file
<1>1. PICK b \in CallRecords : b = proc[p]
  BY DEF TypeOK
<1> DEFINE c == Moved(b, pc, n, file, fallback)
<1>2. c \in CallRecords
  <2>1. Cardinality(Parts) = 2
    BY Constants
  <2> QED BY <2>1 DEF CallRecords, States, Moved
<1>3. c.op = b.op /\ c.lang = b.lang
  BY DEF CallRecords, Moved
<1>4. c.fresh = b.fresh
  BY DEF CallRecords, Moved
<1>5. c.pc = pc /\ c.n = n /\ c.file = file
  BY DEF CallRecords, Moved
<1>6. proc' = [proc EXCEPT ![p] = c] /\ proc \in [Procs -> CallRecords \cup {None}]
  BY <1>1 DEF TypeOK
<1> HIDE DEF c
<1>7. ProcTyped' /\ Others(p) /\ proc'[p] = c
  BY <1>2, <1>6 DEF ProcTyped, Others
<1> QED BY <1>1, <1>2, <1>3, <1>4, <1>5, <1>7, Constants DEF Continues

LEMMA GoesContinues ==
  ASSUME TypeOK, NEW p \in Procs, proc[p] # None, NEW pc \in States, Goes(p, pc)
  PROVE  Continues(p, pc) /\ proc'[p].n = 0 /\ proc'[p].file = proc[p].file
<1>1. PICK b \in CallRecords : b = proc[p]
  BY DEF TypeOK
<1>2. [b EXCEPT !.pc = pc, !.n = 0] = Moved(b, pc, 0, b.file, b.fallback)
  BY DEF CallRecords, Moved
<1>3. proc' = [proc EXCEPT ![p] = Moved(proc[p], pc, 0, proc[p].file, proc[p].fallback)]
  BY <1>1, <1>2 DEF Goes, TypeOK
<1>4. proc[p].file \in Files \cup {None} /\ 0 \in 0..2 /\ proc[p].fallback \in BOOLEAN
  BY <1>1 DEF CallRecords
<1> QED BY <1>3, <1>4, MovesOn

\* A call begins.
Begins(p, l, op, pc) ==
  /\ ProcTyped' /\ Others(p) /\ proc[p] = None /\ proc'[p] # None /\ l \in Langs /\ l \in Serves[p]
  /\ proc'[p].op = op /\ proc'[p].lang = l /\ proc'[p].pc = pc /\ (proc'[p].fresh <=> ~Built(l))
  /\ calls' \in 0..MaxCalls
  /\ swept' = swept \ {p}
  /\ UNCHANGED <<dirs, downloads, env, cleaning, crashes, cut, torn>>

LEMMA CallsBegins ==
  ASSUME TypeOK, NEW p \in Procs, NEW l \in Langs, NEW op \in {"run", "provision", "anew"},
         NEW pc \in States, Calls(p, l, op, pc)
  PROVE  Begins(p, l, op, pc)
<1> DEFINE c == NewCall(op, l, pc)
<1>1. c \in CallRecords
  <2>1. Built(l) \in BOOLEAN
    BY DEF Built
  <2>2. (~Built(l)) \in BOOLEAN
    BY <2>1
  <2>3. 0 \in 0..Cardinality(Parts)
    BY Constants
  <2>4. None \in Files \cup {None} /\ FALSE \in BOOLEAN /\ pc \in States
    OBVIOUS
  <2> QED BY <2>2, <2>3, <2>4 DEF NewCall, CallRecords, States
<1>2. c.op = op /\ c.lang = l /\ c.pc = pc
  BY DEF NewCall
<1>3. c.fresh <=> ~Built(l)
  BY DEF NewCall
<1>4. /\ proc' = [proc EXCEPT ![p] = c] /\ proc[p] = None /\ l \in Serves[p]
      /\ swept' = swept \ {p}
      /\ UNCHANGED <<dirs, downloads, env, cleaning, crashes, cut, torn>>
      /\ calls' \in 0..MaxCalls /\ proc \in [Procs -> CallRecords \cup {None}]
  BY Constants DEF Calls, TypeOK
<1> HIDE DEF c
<1>5. ProcTyped' /\ Others(p) /\ proc'[p] = c
  BY <1>1, <1>4 DEF ProcTyped, Others
<1> QED BY <1>1, <1>2, <1>3, <1>4, <1>5, Constants DEF Begins

LEMMA RunBegins ==
  ASSUME TypeOK, NEW p \in Procs, Run(p)
  PROVE  \E l \in Langs :
           Begins(p, l, "run", IF l = "python" /\ Built(l) THEN "use"
                               ELSE IF l \in SystemHas THEN "make" ELSE "look")
<1>1. PICK l \in Langs :
        Calls(p, l, "run", IF l = "python" /\ Built(l) THEN "use"
                           ELSE IF l \in SystemHas THEN "make" ELSE "look")
  BY DEF Run
<1>2. CASE l = "python" /\ Built(l)
  BY <1>1, <1>2, CallsBegins DEF States
<1>3. CASE ~(l = "python" /\ Built(l)) /\ l \in SystemHas
  BY <1>1, <1>3, CallsBegins DEF States
<1>4. CASE ~(l = "python" /\ Built(l)) /\ l \notin SystemHas
  BY <1>1, <1>4, CallsBegins DEF States
<1> QED BY <1>2, <1>3, <1>4

LEMMA ProvisionBegins ==
  ASSUME TypeOK, NEW p \in Procs, Provision(p)
  PROVE  \E l \in Langs : Begins(p, l, "provision", "look")
BY CallsBegins DEF Provision, States

LEMMA ProvisionAnewBegins ==
  ASSUME TypeOK, NEW p \in Procs, ProvisionAnew(p)
  PROVE  \E l \in Langs :
           \/ Begins(p, l, "anew", "look") /\ runtime[l] = None
           \/ Begins(p, l, "anew", "wipe")
BY CallsBegins DEF ProvisionAnew, States

LEMMA FailsQuits ==
  ASSUME TypeOK, NEW p \in Procs, Fails(p)
  PROVE  Quits(p) /\ UNCHANGED <<dirs, downloads, env, cleaning, counts>>
BY EndsQuits DEF Fails

LEMMA ResolvedContinues ==
  ASSUME TypeOK, NEW p \in Procs, proc[p] # None, Resolved(p)
  PROVE  Continues(p, IF proc[p].op = "run" THEN "make" ELSE "provisioned")
<1>1. CASE proc[p].op = "run"
  BY <1>1, GoesContinues DEF Resolved, States
<1>2. CASE proc[p].op # "run"
  BY <1>2, GoesContinues DEF Resolved, States
<1> QED BY <1>1, <1>2

LEMMA CreateContinues ==
  ASSUME TypeOK, NEW p \in Procs, Create(p)
  PROVE  \E f \in IF archive[Lang(p)] # None THEN {archive[Lang(p)]} ELSE FreeFiles :
           /\ f \in Files /\ Continues(p, "download") /\ proc'[p].file = f
           /\ archive' = [archive EXCEPT ![Lang(p)] = f]
           /\ blocks' = [blocks EXCEPT ![f] = {}]
<1>1. proc[p] # None /\ Lang(p) \in Langs
  BY CallTyped DEF Create, At
<1>2. PICK f \in IF archive[Lang(p)] # None THEN {archive[Lang(p)]} ELSE FreeFiles :
        /\ archive' = [archive EXCEPT ![Lang(p)] = f]
        /\ blocks' = [blocks EXCEPT ![f] = {}]
        /\ proc' = [proc EXCEPT ![p].pc = "download", ![p].n = 0, ![p].file = f]
  BY DEF Create
<1>3. f \in Files
  BY <1>1, <1>2 DEF TypeOK, FreeFiles
<1>4. PICK b \in CallRecords : b = proc[p]
  BY <1>1 DEF TypeOK
<1>5. [b EXCEPT !.pc = "download", !.n = 0, !.file = f] = Moved(b, "download", 0, f, b.fallback)
  BY DEF CallRecords, Moved
<1>6. proc' = [proc EXCEPT ![p] = Moved(proc[p], "download", 0, f, proc[p].fallback)]
  BY <1>2, <1>4, <1>5 DEF TypeOK
<1>7. 0 \in 0..2 /\ proc[p].fallback \in BOOLEAN /\ "download" \in States /\ f \in Files \cup {None}
  BY <1>3, <1>4 DEF CallRecords, States
<1>8. Continues(p, "download") /\ proc'[p].file = f
  BY <1>1, <1>6, <1>7, MovesOn
<1> QED BY <1>2, <1>3, <1>8

LEMMA ReceiveContinues ==
  ASSUME TypeOK, NEW p \in Procs, Receive(p)
  PROVE  /\ Continues(p, "download") /\ proc'[p].file = proc[p].file
         /\ proc[p].pc = "download" /\ proc[p].n \in 0..1
<1>1. proc[p] # None /\ proc[p].pc = "download" /\ proc[p].n < 2
  BY Constants DEF Receive, At
<1>2. PICK b \in CallRecords : b = proc[p]
  BY <1>1 DEF TypeOK
<1>3. b.n \in 0..1 /\ b.n + 1 \in 0..2 /\ b.file \in Files \cup {None} /\ b.fallback \in BOOLEAN
  BY <1>1, <1>2, Constants DEF CallRecords
<1>n. PICK n \in 0..2 : n = b.n + 1
  BY <1>3
<1>4. [b EXCEPT !.n = n] = Moved(b, "download", n, b.file, b.fallback)
  BY <1>1, <1>2 DEF CallRecords, Moved
<1>5. proc' = [proc EXCEPT ![p] = Moved(proc[p], "download", n, b.file, b.fallback)]
  BY <1>2, <1>n, <1>4 DEF TypeOK, Receive
<1>6. "download" \in States
  BY DEF States
<1>7. Continues(p, "download") /\ proc'[p].file = b.file
  BY <1>1, <1>3, <1>5, <1>6, MovesOn
<1> QED BY <1>1, <1>2, <1>3, <1>7

LEMMA DownloadFailsBecomes ==
  ASSUME TypeOK, NEW p \in Procs, DownloadFails(p)
  PROVE  Quits(p) \/ Continues(p, "create")
<1>1. proc[p] # None
  BY DEF DownloadFails, At
<1>2. CASE proc[p].fallback
  BY <1>2, EndsQuits DEF DownloadFails
<1>3. CASE ~proc[p].fallback
  <2>1. PICK b \in CallRecords : b = proc[p]
    BY <1>1 DEF TypeOK
  <2>2. [b EXCEPT !.pc = "create", !.fallback = TRUE, !.n = 0] = Moved(b, "create", 0, b.file, TRUE)
    BY DEF CallRecords, Moved
  <2>3. proc' = [proc EXCEPT ![p] = Moved(proc[p], "create", 0, b.file, TRUE)]
    BY <1>3, <2>1, <2>2 DEF TypeOK, DownloadFails
  <2>4. "create" \in States /\ b.file \in Files \cup {None} /\ 0 \in 0..2 /\ TRUE \in BOOLEAN
    BY DEF States, CallRecords
  <2> QED BY <1>1, <2>3, <2>4, MovesOn
<1> QED BY <1>2, <1>3

LEMMA OpenArchiveBecomes ==
  ASSUME TypeOK, NEW p \in Procs, OpenArchive(p)
  PROVE  /\ proc[p].pc = "extract"
         /\ \/ Quits(p)
            \/ /\ Continues(p, "unpack") /\ proc'[p].file = archive[Lang(p)]
               /\ proc'[p].n = proc[p].n
<1>1. proc[p] # None /\ proc[p].pc = "extract"
  BY DEF OpenArchive, At
<1>2. CASE archive[Lang(p)] = None
  BY <1>1, <1>2, EndsQuits DEF OpenArchive
<1>3. CASE archive[Lang(p)] # None
  <2>1. PICK b \in CallRecords : b = proc[p]
    BY <1>1 DEF TypeOK
  <2> DEFINE f == archive[Lang(p)]
  <2>2. f \in Files \cup {None} /\ b.n \in 0..2 /\ b.fallback \in BOOLEAN /\ "unpack" \in States
    BY <1>1, <2>1, CallTyped DEF TypeOK, CallRecords, States
  <2>3. proc' = [proc EXCEPT ![p] = [b EXCEPT !.pc = "unpack", !.file = f]]
    BY <1>3, <2>1 DEF TypeOK, OpenArchive
  <2> HIDE DEF f
  <2>4. [b EXCEPT !.pc = "unpack", !.file = f] = Moved(b, "unpack", b.n, f, b.fallback)
    BY DEF CallRecords, Moved
  <2>5. proc' = [proc EXCEPT ![p] = Moved(proc[p], "unpack", b.n, f, b.fallback)]
    BY <2>1, <2>3, <2>4
  <2>6. Continues(p, "unpack") /\ proc'[p].file = f /\ proc'[p].n = b.n
    BY <1>1, <2>2, <2>5, MovesOn
  <2> QED BY <1>1, <2>1, <2>6 DEF f
<1> QED BY <1>2, <1>3

LEMMA UnpackBecomes ==
  ASSUME TypeOK, NEW p \in Procs, Unpack(p)
  PROVE  /\ proc[p].pc = "unpack" /\ proc[p].n \in 0..1
         /\ \/ Quits(p) /\ UNCHANGED tree
            \/ /\ Continues(p, "unpack") /\ proc'[p].file = proc[p].file
               /\ proc'[p].n = proc[p].n + 1
               /\ \E x \in blocks[proc[p].file] :
                    /\ x \in {proc[p].n + 1, -(proc[p].n + 1)}
                    /\ tree' = [tree EXCEPT ![Lang(p)] = With(tree[Lang(p)], x)]
<1>1. proc[p] # None /\ proc[p].pc = "unpack" /\ proc[p].n < 2
  BY Constants DEF Unpack, At
<1>2. PICK b \in CallRecords : b = proc[p]
  BY <1>1 DEF TypeOK
<1>3. b.n \in 0..1 /\ b.n + 1 \in 0..2 /\ b.file \in Files \cup {None} /\ b.fallback \in BOOLEAN
  BY <1>1, <1>2, Constants DEF CallRecords
<1>4. CASE Ends(p) /\ UNCHANGED tree
  BY <1>1, <1>2, <1>3, <1>4, EndsQuits
<1>5. ASSUME NEW x \in blocks[proc[p].file], x \in {proc[p].n + 1, -(proc[p].n + 1)},
             tree' = [tree EXCEPT ![Lang(p)] = With(tree[Lang(p)], x)],
             proc' = [proc EXCEPT ![p].n = proc[p].n + 1]
      PROVE  Continues(p, "unpack") /\ proc'[p].file = proc[p].file /\ proc'[p].n = proc[p].n + 1
  <2>n. PICK n \in 0..2 : n = b.n + 1
    BY <1>3
  <2>1. [b EXCEPT !.n = n] = Moved(b, "unpack", n, b.file, b.fallback)
    BY <1>1, <1>2 DEF CallRecords, Moved
  <2>2. proc' = [proc EXCEPT ![p] = Moved(proc[p], "unpack", n, b.file, b.fallback)]
    BY <1>2, <1>5, <2>n, <2>1 DEF TypeOK
  <2>3. "unpack" \in States
    BY DEF States
  <2>4. Continues(p, "unpack") /\ proc'[p].n = n /\ proc'[p].file = b.file
    BY <1>1, <1>3, <2>2, <2>3, MovesOn
  <2> QED BY <1>2, <2>n, <2>4
<1>6. \/ Ends(p) /\ UNCHANGED tree
      \/ \E x \in blocks[proc[p].file] :
           /\ x \in {proc[p].n + 1, -(proc[p].n + 1)}
           /\ tree' = [tree EXCEPT ![Lang(p)] = With(tree[Lang(p)], x)]
           /\ proc' = [proc EXCEPT ![p].n = proc[p].n + 1]
  <2>1. tree[Lang(p)] = tree[Lang(p)] /\ Lang(p) \in DOMAIN tree /\ p \in DOMAIN proc
    BY <1>1, CallTyped DEF TypeOK
  <2> QED BY <2>1 DEF Unpack
<1> QED BY <1>1, <1>2, <1>3, <1>4, <1>5, <1>6

LEMMA TypeInit == Init => TypeOK
<1> SUFFICES ASSUME Init PROVE TypeOK
  OBVIOUS
<1>1. {runtime, tree} \subseteq [Langs -> Dirs]
  BY DEF Init, Dirs
<1>2. archive \in [Langs -> Files \cup {None}] /\ proc \in [Procs -> CallRecords \cup {None}]
  BY DEF Init
<1>3. blocks \in [Files -> Dirs \ {None}]
  BY Constants DEF Init, Dirs
<1>4. env \in [Langs -> (SUBSET (Packages \cup {Mark})) \cup {None}]
  BY DEF Init
<1>5. calls \in 0..MaxCalls /\ crashes \in 0..MaxCrashes /\ cut \subseteq Langs /\ torn \subseteq Langs
      /\ cleaning \subseteq Langs /\ swept \subseteq Procs
  BY Constants DEF Init
<1> QED BY <1>1, <1>2, <1>3, <1>4, <1>5 DEF TypeOK

\* A directory after one of its entries has been removed, and with a block more.
LEMMA RemovalsTyped ==
  ASSUME NEW S, NEW dir \in (SUBSET S) \cup {None}, dir # None, NEW d \in Removals(dir)
  PROVE  d \in (SUBSET S) \cup {None} /\ (d # None => d \subseteq dir)
BY DEF Removals

LEMMA WithTyped ==
  ASSUME NEW dir \in Dirs, NEW n \in 0..1, NEW x \in {n + 1, -(n + 1)}
  PROVE  /\ With(dir, x) \in SUBSET Blocks /\ With(dir, x) # None
         /\ x \in With(dir, x) /\ \A y \in Made(dir) : y # x /\ y # -x => y \in With(dir, x)
         /\ With(dir, x) \subseteq Made(dir) \cup {x}
<1>1. x \in Blocks
  BY Constants
<1>2. Made(dir) \subseteq Blocks
  BY DEF Made, Dirs
<1>3. With(dir, x) \in SUBSET Blocks
  BY <1>1, <1>2 DEF With
<1>4. With(dir, x) # None
  BY <1>3, Constants
<1> QED BY <1>3, <1>4 DEF With

\* One step per action; the first ones say what steps of the same kind share.
LEMMA TypeStep == TypeOK /\ [Next]_vars => TypeOK'
<1> SUFFICES ASSUME TypeOK, [Next]_vars PROVE TypeOK'
  OBVIOUS
<1>t. /\ runtime \in [Langs -> Dirs] /\ tree \in [Langs -> Dirs]
      /\ archive \in [Langs -> Files \cup {None}] /\ blocks \in [Files -> Dirs \ {None}]
      /\ env \in [Langs -> (SUBSET (Packages \cup {Mark})) \cup {None}] /\ ProcTyped
      /\ calls \in 0..MaxCalls /\ crashes \in 0..MaxCrashes /\ cut \subseteq Langs /\ torn \subseteq Langs
      /\ cleaning \subseteq Langs /\ swept \subseteq Procs
  BY DEF TypeOK, ProcTyped
<1>u. ASSUME runtime' \in [Langs -> Dirs], tree' \in [Langs -> Dirs],
             archive' \in [Langs -> Files \cup {None}], blocks' \in [Files -> Dirs \ {None}],
             env' \in [Langs -> (SUBSET (Packages \cup {Mark})) \cup {None}], ProcTyped',
             calls' \in 0..MaxCalls, crashes' \in 0..MaxCrashes, cut' \subseteq Langs, torn' \subseteq Langs,
             cleaning' \subseteq Langs, swept' \subseteq Procs
      PROVE  TypeOK'
  BY <1>u DEF TypeOK, ProcTyped
\* A step of a call that leaves the counts alone.
<1>d. ASSUME ProcTyped', UNCHANGED <<dirs, downloads, env, cleaning, counts>> PROVE TypeOK'
  BY <1>d, <1>t, <1>u DEF dirs, downloads, counts
<1>r. ASSUME NEW l \in Langs, NEW dir \in {runtime, tree}, dir[l] # None, NEW d \in Removals(dir[l])
      PROVE  [dir EXCEPT ![l] = d] \in [Langs -> Dirs]
  BY <1>r, <1>t, RemovalsTyped DEF Dirs
<1>b. ASSUME NEW p \in Procs, NEW l, NEW op, NEW pc, Begins(p, l, op, pc) PROVE TypeOK'
  BY <1>b, <1>t, <1>u DEF Begins, dirs, downloads
<1>e. ASSUME NEW p \in Procs, Ends(p) PROVE ProcTyped'
  BY <1>e, EndsQuits DEF Quits
<1>g. ASSUME NEW p \in Procs, proc[p] # None, NEW pc \in States, Goes(p, pc) PROVE ProcTyped'
  BY <1>g, GoesContinues DEF Continues
<1>v. ASSUME NEW p \in Procs, proc[p] # None, Resolved(p) PROVE ProcTyped'
  BY <1>v, ResolvedContinues DEF Continues
<1> USE DEF States
<1>1. ASSUME NEW p \in Procs, Start(p) PROVE TypeOK'
  BY <1>1, <1>b, RunBegins, ProvisionBegins, ProvisionAnewBegins DEF Start
<1>2. ASSUME NEW p \in Procs, Wipe(p) PROVE TypeOK'
  <2>1. proc[p] # None /\ Lang(p) \in Langs
    BY <1>2, CallTyped DEF Wipe, At
  <2>2. CASE runtime[Lang(p)] = None
    BY <1>2, <1>d, <1>e, <2>2 DEF Wipe, dirs
  <2>3. CASE runtime[Lang(p)] # None
    <3>1. runtime' \in [Langs -> Dirs]
      BY <1>2, <1>r, <2>1, <2>3 DEF Wipe
    <3>2. ProcTyped'
      BY <1>2, <1>g, <1>t, <2>1, <2>3 DEF Wipe, ProcTyped
    <3> QED BY <1>2, <1>t, <1>u, <3>1, <3>2 DEF Wipe, downloads, counts
  <2> QED BY <2>2, <2>3
<1>w. ASSUME NEW p \in Procs, WipeFails(p) PROVE TypeOK'
  <2>1. Lang(p) \in Langs
    BY <1>w, CallTyped DEF WipeFails, At
  <2> QED BY <1>w, <1>e, <1>t, <1>u, <2>1 DEF WipeFails, dirs, downloads
<1>3. ASSUME NEW p \in Procs, Look(p) PROVE TypeOK'
  BY <1>3, <1>d, <1>g, <1>v DEF Look, At
<1>4. ASSUME NEW p \in Procs, Declined(p) PROVE TypeOK'
  BY <1>4, <1>d, FailsQuits DEF Declined, Quits
<1>5. ASSUME NEW p \in Procs, RemoveStale(p) PROVE TypeOK'
  <2>1. proc[p] # None /\ Lang(p) \in Langs
    BY <1>5, CallTyped DEF RemoveStale, At
  <2>2. runtime' \in [Langs -> Dirs] /\ tree' \in [Langs -> Dirs]
    BY <1>5, <1>r, <1>t, <2>1 DEF RemoveStale, dirs
  <2>3. ProcTyped'
    BY <1>5, <1>g, <1>t, <2>1 DEF RemoveStale, ProcTyped
  <2> QED BY <1>5, <1>t, <1>u, <2>2, <2>3 DEF RemoveStale, downloads, counts
<1>6. ASSUME NEW p \in Procs, Create(p) PROVE TypeOK'
  <2>1. PICK f : /\ f \in Files /\ Continues(p, "download")
                 /\ archive' = [archive EXCEPT ![Lang(p)] = f]
                 /\ blocks' = [blocks EXCEPT ![f] = {}]
    BY <1>6, CreateContinues
  <2>2. archive' \in [Langs -> Files \cup {None}]
    BY <1>t, <2>1
  <2>3. {} \in Dirs \ {None}
    BY Constants DEF Dirs
  <2>4. blocks' \in [Files -> Dirs \ {None}]
    BY <1>t, <2>1, <2>3
  <2> QED BY <1>6, <1>t, <1>u, <2>1, <2>2, <2>4 DEF Create, Continues, dirs, counts
<1>7. ASSUME NEW p \in Procs, Receive(p) PROVE TypeOK'
  <2>1. Continues(p, "download") /\ proc[p].n \in 0..1
    BY <1>7, ReceiveContinues
  <2>2. PICK x \in {proc[p].n + 1, -(proc[p].n + 1)} :
          blocks' = [blocks EXCEPT ![proc[p].file] = With(@, x)]
    BY <1>7 DEF Receive
  <2>3. \A f \in Files : With(blocks[f], x) \in Dirs \ {None}
    BY <1>t, <2>1, WithTyped DEF Dirs
  <2>4. blocks' \in [Files -> Dirs \ {None}]
    BY <1>t, <2>2, <2>3
  <2> QED BY <1>7, <1>t, <1>u, <2>1, <2>4 DEF Receive, Continues, dirs, counts
<1>8. ASSUME NEW p \in Procs, Received(p) PROVE TypeOK'
  BY <1>8, <1>d, <1>g DEF Received, At
<1>9. ASSUME NEW p \in Procs, DownloadFails(p) PROVE TypeOK'
  <2>1. ProcTyped'
    BY <1>9, DownloadFailsBecomes DEF Quits, Continues
  <2> QED BY <1>9, <1>d, <2>1 DEF DownloadFails
<1>10. ASSUME NEW p \in Procs, Verify(p) PROVE TypeOK'
  <2>1. proc[p] # None
    BY <1>10 DEF Verify, At
  <2>2. ProcTyped'
    BY <1>10, <1>e, <1>g, <2>1 DEF Verify
  <2>3. archive' \in [Langs -> Files \cup {None}]
    BY <1>10, <1>t DEF Verify
  <2> QED BY <1>10, <1>t, <1>u, <2>2, <2>3 DEF Verify, dirs, counts
<1>11. ASSUME NEW p \in Procs, OpenArchive(p) PROVE TypeOK'
  <2>1. ProcTyped'
    BY <1>11, OpenArchiveBecomes DEF Quits, Continues
  <2> QED BY <1>11, <1>d, <2>1 DEF OpenArchive
<1>12. ASSUME NEW p \in Procs, Unpack(p) PROVE TypeOK'
  <2>1. proc[p].n \in 0..1 /\ ProcTyped'
    BY <1>12, UnpackBecomes DEF Quits, Continues
  <2>2. tree' \in [Langs -> Dirs]
    <3>1. \A x \in {proc[p].n + 1, -(proc[p].n + 1)} : \A l \in Langs : With(tree[l], x) \in Dirs
      BY <1>t, <2>1, WithTyped DEF Dirs
    <3>2. \/ tree' = tree
          \/ \E x \in {proc[p].n + 1, -(proc[p].n + 1)} :
               tree' = [tree EXCEPT ![Lang(p)] = With(tree[Lang(p)], x)]
      BY <1>12, UnpackBecomes
    <3> QED BY <1>t, <3>1, <3>2
  <2> QED BY <1>12, <1>t, <1>u, <2>1, <2>2 DEF Unpack, downloads, counts
<1>13. ASSUME NEW p \in Procs, DropArchive(p) PROVE TypeOK'
  <2>1. ProcTyped'
    BY <1>13, <1>g DEF DropArchive, At
  <2>2. archive' \in [Langs -> Files \cup {None}]
    BY <1>13, <1>t DEF DropArchive
  <2> QED BY <1>13, <1>t, <1>u, <2>1, <2>2 DEF DropArchive, dirs, counts
<1>14. ASSUME NEW p \in Procs, Place(p) PROVE TypeOK'
  <2>1. proc[p] # None /\ Lang(p) \in Langs
    BY <1>14, CallTyped DEF Place, At
  <2>2. ProcTyped'
    BY <1>14, <1>e, <1>t, <1>v, <2>1 DEF Place, ProcTyped
  <2>3. runtime' \in [Langs -> Dirs] /\ tree' \in [Langs -> Dirs]
    <3>1. CASE UNCHANGED dirs
      BY <1>t, <3>1 DEF dirs
    <3>2. CASE runtime[Lang(p)] # None /\ UNCHANGED tree
               /\ \E d \in Removals(runtime[Lang(p)]) : runtime' = [runtime EXCEPT ![Lang(p)] = d]
      BY <1>r, <1>t, <2>1, <3>2
    <3>3. CASE /\ runtime' = [runtime EXCEPT ![Lang(p)] = tree[Lang(p)]]
               /\ tree' = [tree EXCEPT ![Lang(p)] = None]
      BY <1>t, <2>1, <3>3 DEF Dirs
    <3> QED BY <1>14, <3>1, <3>2, <3>3 DEF Place
  <2> QED BY <1>14, <1>t, <1>u, <2>2, <2>3 DEF Place, downloads, counts
<1>m. ASSUME NEW l \in Langs, NEW new \in SUBSET (Packages \cup {Mark}),
             env' = [env EXCEPT ![l] = Made(@) \cup new]
      PROVE  env' \in [Langs -> (SUBSET (Packages \cup {Mark})) \cup {None}]
  <2>1. Made(env[l]) \subseteq Packages \cup {Mark}
    BY <1>t DEF Made
  <2> QED BY <1>m, <1>t, <2>1
<1>15. ASSUME NEW p \in Procs, Make(p) PROVE TypeOK'
  <2>1. proc[p] # None /\ Lang(p) \in Langs
    BY <1>15, CallTyped DEF Make, At
  <2>2. ProcTyped'
    BY <1>15, <1>e, <1>g, <2>1 DEF Make
  <2>3. \E new \in SUBSET (Packages \cup {Mark}) : env' = [env EXCEPT ![Lang(p)] = Made(@) \cup new]
    <3>1. CASE env' = [env EXCEPT ![Lang(p)] = Made(@)]
      <4>1. Made(env[Lang(p)]) = Made(env[Lang(p)]) \cup {}
        OBVIOUS
      <4>2. env' = [env EXCEPT ![Lang(p)] = Made(@) \cup {}]
        BY <1>t, <2>1, <3>1, <4>1
      <4> QED BY <4>2
    <3>2. CASE env' = [env EXCEPT ![Lang(p)] = Made(@) \cup {Mark}]
      BY <3>2
    <3> QED BY <1>15, <3>1, <3>2 DEF Make
  <2> QED BY <1>15, <1>m, <1>t, <1>u, <2>1, <2>2, <2>3 DEF Make, dirs, downloads, counts
<1>16. ASSUME NEW p \in Procs, Install(p) PROVE TypeOK'
  <2>1. proc[p] # None /\ Lang(p) \in Langs
    BY <1>16, CallTyped DEF Install, At
  <2>2. PICK x \in Packages : env' = [env EXCEPT ![Lang(p)] = Made(@) \cup {x}]
    BY <1>16 DEF Install
  <2>3. env' \in [Langs -> (SUBSET (Packages \cup {Mark})) \cup {None}]
    BY <1>m, <2>1, <2>2
  <2> QED BY <1>16, <1>t, <1>u, <2>3 DEF Install, dirs, downloads, counts, ProcTyped
<1>17. ASSUME NEW p \in Procs, Installed(p) PROVE TypeOK'
  <2>1. ProcTyped'
    BY <1>17, <1>g DEF Installed, At
  <2>2. Lang(p) \in Langs
    BY <1>17, CallTyped DEF Installed, At
  <2> QED BY <1>17, <1>t, <1>u, <2>1, <2>2 DEF Installed, dirs, downloads
<1>18. ASSUME NEW p \in Procs, InstallFails(p) PROVE TypeOK'
  <2>1. Lang(p) \in Langs
    BY <1>18, CallTyped DEF InstallFails, At
  <2> QED BY <1>18, <1>e, <1>t, <1>u, <2>1 DEF InstallFails, dirs, downloads
<1>19. ASSUME NEW p \in Procs, Return(p) PROVE TypeOK'
  BY <1>19, <1>d, <1>e DEF Return
<1>20. ASSUME CleanEnv PROVE TypeOK'
  <2>1. CASE Clean
    <3>1. calls' \in 0..MaxCalls
      BY <1>t, <2>1, Constants DEF Clean
    <3>2. cleaning' \subseteq Langs
      BY <1>t, <2>1 DEF Clean
    <3> QED BY <1>t, <1>u, <2>1, <3>1, <3>2 DEF Clean, dirs, downloads, ProcTyped
  <2>2. ASSUME NEW l \in Langs, RemoveEnv(l) PROVE TypeOK'
    <3>1. PICK d \in Removals(env[l]) :
            /\ env' = [env EXCEPT ![l] = d]
            /\ cleaning' = IF d = None THEN cleaning \ {l} ELSE cleaning
            /\ torn' = IF d = None THEN torn \ {l} ELSE torn \cup {l}
      BY <2>2 DEF RemoveEnv
    <3>2. d \in (SUBSET (Packages \cup {Mark})) \cup {None}
      BY <1>t, <2>2, <3>1, RemovalsTyped DEF RemoveEnv
    <3>3. env' \in [Langs -> (SUBSET (Packages \cup {Mark})) \cup {None}]
      BY <1>t, <3>1, <3>2
    <3>4. cleaning' \subseteq Langs /\ torn' \subseteq Langs
      BY <1>t, <3>1
    <3>5. swept' \subseteq Procs
      BY <1>t, <2>2 DEF RemoveEnv
    <3> QED BY <1>t, <1>u, <2>2, <3>3, <3>4, <3>5 DEF RemoveEnv, dirs, downloads, ProcTyped
  <2>3. ASSUME NEW l \in Langs, PassOver(l) PROVE TypeOK'
    BY <1>t, <1>u, <2>3 DEF PassOver, dirs, downloads, counts, ProcTyped
  <2> QED BY <1>20, <2>1, <2>2, <2>3 DEF CleanEnv
<1>21. ASSUME NEW p \in Procs, Crash(p) PROVE TypeOK'
  <2>1. Lang(p) \in Langs /\ crashes' \in 0..MaxCrashes
    BY <1>21, <1>t, CallTyped, Constants DEF Crash
  <2> QED BY <1>21, <1>e, <1>t, <1>u, <2>1 DEF Crash, dirs, downloads
<1>22. CASE UNCHANGED vars
  BY <1>22, <1>d, <1>t DEF vars, ProcTyped
<1> QED BY <1>1, <1>2, <1>w, <1>3, <1>4, <1>5, <1>6, <1>7, <1>8, <1>9, <1>10, <1>11, <1>12, <1>13, <1>14,
           <1>15, <1>16, <1>17, <1>18, <1>19, <1>20, <1>21, <1>22
        DEF Next, Fetch, Settle, Build

\* The directories, the calls and the counts keep their types, for any number of processes.
THEOREM TypeCorrect == Spec => []TypeOK
BY TypeInit, TypeStep, PTL DEF Spec

-----------------------------------------------------------------------------
(* Runtimes, when no two processes run skills of a language. *)

Disjoint == \A p, q \in Procs : p # q => Serves[p] \cap Serves[q] = {}

Owned == \A p \in Procs : proc[p] # None => Lang(p) \in Serves[p]
FilesApart == \A l, m \in Langs : l # m /\ archive[l] # None => archive[l] # archive[m]

Whole(l) ==
  Provisioned(l) =>
    runtime[l] = Parts \/ l \in cut \/ \E p \in Procs : At(p, "wipe") /\ Lang(p) = l
LangOK(l) == Whole(l) /\ Made(tree[l]) \subseteq Parts

\* What a call relies on at each place, of the runtime and the archive it works on.
Given(l) == runtime[l] = Parts \/ l \in cut
Empty == {"create", "download", "verify", "extract", "unpack", "place"}
RuntimeOK(p) ==
  LET c == proc[p]
      l == Lang(p) IN
  /\ c.pc = "wipe" => c.op = "anew"
  /\ c.pc = "look" /\ c.op = "anew" => runtime[l] = None
  /\ c.pc = "stale" => ~Provisioned(l)
  /\ c.pc \in Empty => runtime[l] = None
  /\ c.pc = "download" => c.file # None /\ c.file = archive[l]
  /\ c.pc \in {"extract", "unpack"} => archive[l] # None /\ blocks[archive[l]] = Parts
  /\ c.pc = "extract" => c.n = 0
  /\ c.pc = "unpack" => c.file = archive[l] /\ 1..c.n \subseteq Made(tree[l])
  /\ c.pc = "place" => tree[l] = Parts
  /\ c.pc = "provisioned" => Given(l) /\ (c.op = "anew" => runtime[l] = Parts)
  /\ c.pc = "make" => l \in SystemHas \/ Given(l)

Safe ==
  /\ TypeOK /\ Owned /\ FilesApart
  /\ \A l \in Langs : LangOK(l)
  /\ \A p \in Procs : proc[p] # None => RuntimeOK(p)

\* A step of process p touches nothing but what belongs to language l.
Frame(p, l) ==
  /\ l \in Langs /\ l \in Serves[p] /\ Others(p)
  /\ proc[p] # None => Lang(p) = l
  /\ proc'[p] # None => proc'[p].lang = l
  /\ \A m \in Langs \ {l} :
       /\ runtime'[m] = runtime[m] /\ tree'[m] = tree[m]
       /\ archive'[m] = archive[m]
       /\ archive[m] # None => blocks'[archive[m]] = blocks[archive[m]] /\ archive'[l] # archive[m]
       /\ m \in cut' <=> m \in cut
Own(p, l) == LangOK(l)' /\ (proc'[p] # None => RuntimeOK(p)')

\* A language has one process.
LEMMA OneProcess ==
  ASSUME Disjoint, Safe, NEW p \in Procs, NEW q \in Procs, NEW l, l \in Serves[p],
         proc[q] # None, Lang(q) = l
  PROVE  q = p
BY DEF Disjoint, Safe, Owned

LEMMA FrameKeeps ==
  ASSUME Disjoint, Safe, TypeOK', NEW p \in Procs, NEW l, Frame(p, l), Own(p, l)
  PROVE  Safe'
<1>t. l \in Langs /\ l \in Serves[p] /\ Others(p)
  BY DEF Frame
<1>q. ASSUME NEW q \in Procs, q # p, proc[q] # None
      PROVE  Lang(q) \in Langs \ {l} /\ Lang(q)' = Lang(q) /\ proc'[q] = proc[q]
  <2>1. Lang(q) # l
    BY <1>t, <1>q, OneProcess
  <2>2. Lang(q) \in Langs
    BY <1>q, CallTyped DEF Safe
  <2> QED BY <1>q, <1>t, <2>1, <2>2 DEF Others, Lang
<1>1. Owned'
  <2> SUFFICES ASSUME NEW q \in Procs, proc'[q] # None PROVE Lang(q)' \in Serves[q]
    BY DEF Owned
  <2>1. CASE q = p
    BY <2>1, <1>t DEF Frame, Lang
  <2>2. CASE q # p
    BY <2>2, <1>t, <1>q DEF Others, Safe, Owned
  <2> QED BY <2>1, <2>2
<1>2. FilesApart'
  BY DEF Frame, FilesApart, Safe
<1>3. ASSUME NEW m \in Langs PROVE LangOK(m)'
  <2>1. CASE m = l
    BY <2>1 DEF Own
  <2>2. CASE m # l
    <3>1. /\ runtime'[m] = runtime[m] /\ tree'[m] = tree[m]
          /\ (m \in cut' <=> m \in cut)
      BY <2>2 DEF Frame
    <3>2. LangOK(m)
      BY DEF Safe
    \* The process of another language is another process.
    <3>3. ASSUME NEW q \in Procs, proc[q] # None, Lang(q) = m
          PROVE  proc'[q] = proc[q] /\ Lang(q)' = m
      <4>1. q # p
        BY <2>2, <3>3 DEF Frame
      <4> QED BY <1>q, <3>3, <4>1
    <3>4. Whole(m)'
      BY <3>1, <3>2, <3>3 DEF LangOK, Whole, Provisioned, At
    <3> QED BY <3>1, <3>2, <3>4 DEF LangOK
  <2> QED BY <2>1, <2>2
<1>4. ASSUME NEW q \in Procs, proc'[q] # None PROVE RuntimeOK(q)'
  <2>1. CASE q = p
    BY <1>4, <2>1 DEF Own
  <2>2. CASE q # p
    <3>1. proc'[q] = proc[q] /\ proc[q] # None
      BY <1>4, <1>t, <2>2 DEF Others
    <3>2. Lang(q) \in Langs \ {l} /\ Lang(q)' = Lang(q)
      BY <1>q, <2>2, <3>1
    <3>3. LET m == Lang(q) IN
          /\ runtime'[m] = runtime[m] /\ tree'[m] = tree[m]
          /\ archive'[m] = archive[m]
          /\ archive[m] # None => blocks'[archive[m]] = blocks[archive[m]]
          /\ (m \in cut' <=> m \in cut)
      BY <3>2 DEF Frame
    <3>4. RuntimeOK(q)
      BY <3>1 DEF Safe
    <3>5. RuntimeOK(q)'
      BY <3>1, <3>2, <3>3, <3>4 DEF RuntimeOK, Given, Provisioned
    <3> QED BY <3>5
  <2> QED BY <2>1, <2>2
<1> QED BY <1>1, <1>2, <1>3, <1>4 DEF Safe

\* Calls that go from place to place, begin or end, and touch nothing.
LEMMA QuietStep ==
  ASSUME Disjoint, Safe, TypeOK', NEW p \in Procs, NEW l \in Langs, l \in Serves[p], Others(p),
         proc[p] # None => /\ Lang(p) = l /\ (proc[p].pc = "wipe" => runtime[l] = None),
         proc'[p] # None => proc'[p].lang = l,
         UNCHANGED <<dirs, downloads, cut>>,
         proc'[p] # None => RuntimeOK(p)'
  PROVE  Safe'
<1>1. Frame(p, l)
  BY DEF Frame, dirs, downloads, Safe, FilesApart
<1>2. LangOK(l)
  BY DEF Safe
<1>3. ASSUME NEW q \in Procs, proc[q] # None, q # p PROVE proc'[q] = proc[q] /\ Lang(q)' = Lang(q)
  BY <1>3 DEF Others, Lang
<1>4. Whole(l)'
  <2> SUFFICES ASSUME Provisioned(l)
               PROVE  runtime[l] = Parts \/ l \in cut \/ \E q \in Procs : At(q, "wipe")' /\ Lang(q)' = l
    BY DEF Whole, Provisioned, dirs
  <2>1. CASE \E q \in Procs : At(q, "wipe") /\ Lang(q) = l
    <3>1. PICK q \in Procs : At(q, "wipe") /\ Lang(q) = l
      BY <2>1
    <3>2. q # p
      BY <3>1 DEF At, Provisioned, Holds
    <3> QED BY <1>3, <3>1, <3>2 DEF At
  <2> QED BY <1>2, <2>1 DEF LangOK, Whole
<1>6. Made(tree'[l]) \subseteq Parts
  BY <1>2 DEF LangOK, dirs
<1> QED BY <1>1, <1>4, <1>6, FrameKeeps DEF Own, LangOK

\* What is known before a step of a call.
LEMMA CallSafe ==
  ASSUME Safe, NEW p \in Procs, proc[p] # None
  PROVE  /\ Lang(p) \in Langs /\ Lang(p) \in Serves[p] /\ proc[p].lang = Lang(p)
         /\ RuntimeOK(p) /\ LangOK(Lang(p))
BY CallTyped DEF Safe, Owned, Lang

LEMMA BeginsSafe ==
  ASSUME Disjoint, Safe, TypeOK', NEW p \in Procs, NEW l, NEW op, NEW pc, Begins(p, l, op, pc),
         \/ pc = "use" /\ Built(l)
         \/ pc = "make" /\ l \in SystemHas
         \/ pc = "look" /\ (op = "anew" => runtime[l] = None)
         \/ pc = "wipe" /\ op = "anew"
  PROVE  Safe'
<1>1. /\ Others(p) /\ proc[p] = None /\ l \in Langs /\ l \in Serves[p]
      /\ proc'[p].op = op /\ proc'[p].lang = l /\ proc'[p].pc = pc /\ (proc'[p].fresh <=> ~Built(l))
      /\ UNCHANGED <<dirs, downloads, cut>>
  BY DEF Begins
<1>2. Lang(p)' = l
  BY <1>1 DEF Lang
<1>3. RuntimeOK(p)'
  BY <1>1, <1>2 DEF RuntimeOK, Empty, dirs
<1> QED BY <1>1, <1>3, QuietStep

\* A step of a call that leaves the archives alone.
LEMMA InFrame ==
  ASSUME Safe, NEW p \in Procs, NEW l, proc[p] # None, Lang(p) = l, Others(p),
         proc'[p] # None => proc'[p].lang = l,
         UNCHANGED downloads,
         \A m \in Langs \ {l} :
           /\ runtime'[m] = runtime[m] /\ tree'[m] = tree[m]
           /\ m \in cut' <=> m \in cut
  PROVE  Frame(p, l)
<1>1. l \in Langs /\ l \in Serves[p]
  BY CallSafe
<1>2. \A m \in Langs \ {l} : archive[m] # None => archive[l] # archive[m]
  BY <1>1 DEF Safe, FilesApart
<1> QED BY <1>1, <1>2 DEF Frame, downloads

\* What a call that has gone on to another place, or ended, has not touched.
LEMMA WholeQuiet ==
  ASSUME Disjoint, Safe, NEW p \in Procs, NEW l \in Langs, proc[p] # None, Lang(p) = l,
         proc[p].pc # "wipe", runtime'[l] = runtime[l], l \in cut' <=> l \in cut
  PROVE  Whole(l)'
<1>1. Whole(l) /\ l \in Serves[p]
  BY CallSafe DEF Safe, LangOK
<1>2. \A q \in Procs : At(q, "wipe") => Lang(q) # l
  BY <1>1, OneProcess DEF At
<1> QED BY <1>1, <1>2 DEF Whole, Provisioned

LEMMA WipeSafe ==
  ASSUME Disjoint, Safe, TypeOK', NEW p \in Procs, Wipe(p)
  PROVE  Safe'
<1>1. proc[p] # None /\ proc[p].pc = "wipe"
  BY DEF Wipe, At
<1> PICK l \in Langs : l = Lang(p)
  BY <1>1, CallSafe
<1>2. l \in Serves[p] /\ proc[p].op = "anew" /\ LangOK(l) /\ proc[p].lang = l
  BY <1>1, CallSafe DEF RuntimeOK
<1>3. UNCHANGED <<tree, downloads, cut>>
  BY DEF Wipe, counts
<1>4. CASE runtime[l] = None
  <2>1. Quits(p)
    BY <1>4, EndsQuits DEF Wipe, Safe
  <2>2. UNCHANGED <<dirs, downloads, cut>>
    BY <1>3, <1>4 DEF Wipe, dirs
  <2> QED BY <1>1, <1>2, <1>4, <2>1, <2>2, QuietStep DEF Quits
<1>5. CASE runtime[l] # None
  <2>1. PICK d \in Removals(runtime[l]) :
          /\ runtime' = [runtime EXCEPT ![l] = d]
          /\ IF d = None THEN Goes(p, "look") ELSE UNCHANGED proc
    BY <1>5 DEF Wipe
  <2>2. runtime'[l] = d /\ \A m \in Langs \ {l} : runtime'[m] = runtime[m]
    BY <2>1 DEF Safe, TypeOK
  <2>3. CASE d = None
    <3>1. Continues(p, "look")
      BY <1>1, <2>1, <2>3, GoesContinues DEF Safe, States
    <3>2. Frame(p, l)
      BY <1>1, <1>2, <1>3, <2>2, <3>1, InFrame DEF Continues
    <3>3. Whole(l)'
      BY <2>2, <2>3 DEF Whole, Provisioned, Holds
    <3>5. Made(tree'[l]) \subseteq Parts
      BY <1>2, <1>3 DEF LangOK
    <3>6. Lang(p)' = l
      BY <1>2, <3>1 DEF Continues, Lang
    <3>7. RuntimeOK(p)'
      BY <2>2, <2>3, <3>1, <3>6 DEF RuntimeOK, Continues, Empty
    <3> QED BY <3>2, <3>3, <3>5, <3>7, FrameKeeps DEF Own, LangOK
  <2>4. CASE d # None
    <3>1. UNCHANGED proc
      BY <2>1, <2>4
    <3>2. Frame(p, l)
      BY <1>1, <1>2, <1>3, <2>2, <3>1, InFrame DEF Others
    <3>3. Whole(l)'
      BY <1>1, <3>1 DEF Whole, At, Lang
    <3>5. Made(tree'[l]) \subseteq Parts
      BY <1>2, <1>3 DEF LangOK
    <3>6. Lang(p)' = l
      BY <3>1 DEF Lang
    <3>7. RuntimeOK(p)'
      BY <1>1, <1>2, <3>1, <3>6 DEF RuntimeOK, Empty
    <3> QED BY <3>2, <3>3, <3>5, <3>7, FrameKeeps DEF Own, LangOK
  <2> QED BY <2>3, <2>4
<1> QED BY <1>4, <1>5

\* A call that ends or goes on and leaves everything where it is.
LEMMA QuitsSafe ==
  ASSUME Disjoint, Safe, TypeOK', NEW p \in Procs, proc[p] # None, Quits(p),
         proc[p].pc # "wipe",
         UNCHANGED <<dirs, downloads, cut>>
  PROVE  Safe'
<1> PICK l \in Langs : l = Lang(p)
  BY CallSafe
<1>1. l \in Serves[p] /\ Others(p) /\ proc'[p] = None
  BY CallSafe DEF Quits
<1> QED BY <1>1, QuietStep

LEMMA ContinuesSafe ==
  ASSUME Disjoint, Safe, TypeOK', NEW p \in Procs, NEW pc, proc[p] # None, Continues(p, pc),
         proc[p].pc # "wipe",
         UNCHANGED <<dirs, downloads, cut>>,
         RuntimeOK(p)'
  PROVE  Safe'
<1> PICK l \in Langs : l = Lang(p)
  BY CallSafe
<1>1. l \in Serves[p] /\ Others(p) /\ proc[p].lang = l
  BY CallSafe DEF Continues
<1>2. proc'[p].lang = l /\ Lang(p)' = l
  BY <1>1 DEF Continues, Lang
<1> QED BY <1>1, <1>2, QuietStep

LEMMA LookSafe ==
  ASSUME Disjoint, Safe, TypeOK', NEW p \in Procs, Look(p) \/ Declined(p)
  PROVE  Safe'
<1>1. proc[p] # None /\ proc[p].pc = "look" /\ UNCHANGED <<dirs, downloads, cut>>
  BY DEF Look, Declined, At, Fails, counts
<1> PICK l \in Langs : l = Lang(p)
  BY <1>1, CallSafe
<1>2. l \in Serves[p] /\ RuntimeOK(p) /\ LangOK(l)
  BY <1>1, CallSafe
<1>3. CASE Declined(p)
  <2>1. Quits(p)
    BY <1>3, EndsQuits DEF Declined, Fails, Safe
  <2> QED BY <1>1, <2>1, QuitsSafe
<1>4. CASE Look(p) /\ Provisioned(l)
  <2>1. Continues(p, IF proc[p].op = "run" THEN "make" ELSE "provisioned")
    BY <1>1, <1>4, ResolvedContinues DEF Look, Safe
  <2>2. Lang(p)' = l
    BY <2>1 DEF Continues, Lang
  <2>3. Given(l)
    <3>1. \A q \in Procs : At(q, "wipe") => Lang(q) # l
      BY <1>1, <1>2, OneProcess DEF At
    <3> QED BY <1>2, <1>4, <3>1 DEF LangOK, Whole, Given
  <2>4. proc[p].op # "anew"
    BY <1>1, <1>2, <1>4 DEF RuntimeOK, Provisioned, Holds
  <2>5. Given(l)'
    BY <1>1, <2>3 DEF Given, dirs
  <2>6. CASE proc[p].op = "run"
    <3>1. RuntimeOK(p)'
      BY <2>1, <2>2, <2>5, <2>6 DEF RuntimeOK, Continues, Empty
    <3> QED BY <1>1, <2>1, <2>6, <3>1, ContinuesSafe
  <2>7. CASE proc[p].op # "run"
    <3>1. RuntimeOK(p)'
      BY <2>1, <2>2, <2>4, <2>5, <2>7 DEF RuntimeOK, Continues, Empty
    <3> QED BY <1>1, <2>1, <2>7, <3>1, ContinuesSafe
  <2> QED BY <2>6, <2>7
<1>5. CASE Look(p) /\ ~Provisioned(l)
  <2>1. Continues(p, "stale")
    BY <1>1, <1>5, GoesContinues DEF Look, Safe, States
  <2>2. Lang(p)' = l
    BY <2>1 DEF Continues, Lang
  <2>3. RuntimeOK(p)'
    BY <1>1, <1>5, <2>1, <2>2 DEF RuntimeOK, Continues, Empty, Provisioned, dirs
  <2> QED BY <1>1, <2>1, <2>3, ContinuesSafe
<1> QED BY <1>3, <1>4, <1>5

LEMMA RemoveStaleSafe ==
  ASSUME Disjoint, Safe, TypeOK', NEW p \in Procs, RemoveStale(p)
  PROVE  Safe'
<1>1. proc[p] # None /\ proc[p].pc = "stale" /\ UNCHANGED <<downloads, cut>>
  BY DEF RemoveStale, At, counts
<1> PICK l \in Langs : l = Lang(p)
  BY <1>1, CallSafe
<1>2. l \in Serves[p] /\ RuntimeOK(p) /\ LangOK(l) /\ ~Provisioned(l) /\ proc[p].lang = l
  BY <1>1, CallSafe DEF RuntimeOK
<1>4. CASE runtime[l] = None /\ Goes(p, "create") /\ UNCHANGED dirs
  <2>1. Continues(p, "create")
    BY <1>1, <1>4, GoesContinues DEF Safe, States
  <2>2. Lang(p)' = l
    BY <2>1 DEF Continues, Lang
  <2>3. RuntimeOK(p)'
    BY <1>1, <1>4, <2>1, <2>2 DEF RuntimeOK, Continues, dirs
  <2> QED BY <1>1, <1>4, <2>1, <2>3, ContinuesSafe
<1>5. CASE UNCHANGED proc /\ (\A m \in Langs \ {l} : runtime'[m] = runtime[m] /\ tree'[m] = tree[m])
           /\ ~Provisioned(l)' /\ Made(tree'[l]) \subseteq Parts
  <2>1. Frame(p, l)
    BY <1>1, <1>2, <1>5, InFrame DEF Others
  <2>2. Lang(p)' = l
    BY <1>5 DEF Lang
  <2>3. RuntimeOK(p)'
    BY <1>1, <1>5, <2>2 DEF RuntimeOK, Empty
  <2> QED BY <1>5, <2>1, <2>3, FrameKeeps DEF Own, LangOK, Whole
<1>6. CASE runtime[l] # None /\ UNCHANGED <<tree, proc>>
           /\ \E d \in Removals(runtime[l]) : runtime' = [runtime EXCEPT ![l] = d]
  <2>1. PICK d \in Removals(runtime[l]) : runtime' = [runtime EXCEPT ![l] = d]
    BY <1>6
  <2>2. runtime'[l] = d /\ \A m \in Langs \ {l} : runtime'[m] = runtime[m]
    BY <2>1 DEF Safe, TypeOK
  <2>3. runtime[l] \in (SUBSET Blocks) \cup {None}
    BY DEF Safe, TypeOK, Dirs
  <2>4. d # None => d \subseteq runtime[l]
    BY <1>6, <2>3, RemovalsTyped
  <2>5. ~Provisioned(l)'
    BY <1>2, <1>6, <2>2, <2>4 DEF Provisioned, Holds
  <2>6. Made(tree'[l]) \subseteq Parts
    BY <1>2, <1>6 DEF LangOK
  <2> QED BY <1>5, <1>6, <2>2, <2>5, <2>6
<1>7. CASE tree[l] # None /\ UNCHANGED <<runtime, proc>>
           /\ \E d \in Removals(tree[l]) : tree' = [tree EXCEPT ![l] = d]
  <2>1. PICK d \in Removals(tree[l]) : tree' = [tree EXCEPT ![l] = d]
    BY <1>7
  <2>2. tree'[l] = d /\ \A m \in Langs \ {l} : tree'[m] = tree[m]
    BY <2>1 DEF Safe, TypeOK
  <2>3. tree[l] \in (SUBSET Blocks) \cup {None}
    BY DEF Safe, TypeOK, Dirs
  <2>4. d # None => d \subseteq tree[l]
    BY <1>7, <2>3, RemovalsTyped
  <2>5. Made(tree'[l]) \subseteq Parts
    BY <1>2, <1>7, <2>2, <2>4 DEF LangOK, Made
  <2>6. ~Provisioned(l)'
    BY <1>2, <1>7 DEF Provisioned
  <2> QED BY <1>5, <1>7, <2>2, <2>5, <2>6
<1> QED BY <1>4, <1>6, <1>7 DEF RemoveStale

LEMMA CreateSafe ==
  ASSUME Disjoint, Safe, TypeOK', NEW p \in Procs, Create(p)
  PROVE  Safe'
<1>1. proc[p] # None /\ proc[p].pc = "create" /\ UNCHANGED <<dirs, cut>>
  BY DEF Create, At, counts
<1> PICK l \in Langs : l = Lang(p)
  BY <1>1, CallSafe
<1>2. /\ l \in Serves[p] /\ LangOK(l) /\ proc[p].lang = l
      /\ runtime[l] = None
  BY <1>1, CallSafe DEF RuntimeOK, Empty
<1>3. PICK f \in IF archive[l] # None THEN {archive[l]} ELSE FreeFiles :
        /\ f \in Files /\ Continues(p, "download") /\ proc'[p].file = f
        /\ archive' = [archive EXCEPT ![l] = f]
        /\ blocks' = [blocks EXCEPT ![f] = {}]
  BY CreateContinues DEF Safe
<1>4. archive'[l] = f /\ f # None
  BY <1>3, Constants DEF Safe, TypeOK
\* The file is this language's, or nobody's.
<1>5. ASSUME NEW m \in Langs \ {l}
      PROVE  /\ archive'[m] = archive[m]
             /\ archive[m] # None => f # archive[m] /\ blocks'[archive[m]] = blocks[archive[m]]
  <2>1. archive'[m] = archive[m]
    BY <1>3 DEF Safe, TypeOK
  <2>2. archive[m] # None => f # archive[m]
    BY <1>3 DEF Safe, FilesApart, FreeFiles
  <2>3. archive[m] \in Files \cup {None}
    BY DEF Safe, TypeOK
  <2> QED BY <1>3, <2>1, <2>2, <2>3 DEF Safe, TypeOK
<1>6. Frame(p, l)
  BY <1>1, <1>2, <1>3, <1>4, <1>5 DEF Frame, Continues, dirs
<1>7. Lang(p)' = l
  BY <1>2, <1>3 DEF Continues, Lang
<1>8. RuntimeOK(p)'
  BY <1>1, <1>2, <1>3, <1>4, <1>7 DEF RuntimeOK, Continues, Empty, dirs
<1>11. Whole(l)'
  BY <1>1, WholeQuiet DEF dirs
<1>12. Made(tree'[l]) \subseteq Parts
  BY <1>1, <1>2 DEF LangOK, dirs
<1> QED BY <1>6, <1>8, <1>11, <1>12, FrameKeeps DEF Own, LangOK

LEMMA ReceiveSafe ==
  ASSUME Disjoint, Safe, TypeOK', NEW p \in Procs, Receive(p)
  PROVE  Safe'
<1>1. proc[p] # None /\ proc[p].pc = "download" /\ UNCHANGED <<dirs, archive, cut>>
  BY DEF Receive, At, counts
<1> PICK l \in Langs : l = Lang(p)
  BY <1>1, CallSafe
<1>2. /\ l \in Serves[p] /\ LangOK(l) /\ proc[p].lang = l
      /\ runtime[l] = None /\ archive[l] # None /\ proc[p].file = archive[l]
  BY <1>1, CallSafe DEF RuntimeOK, Empty
<1>3. Continues(p, "download") /\ proc'[p].file = proc[p].file
  BY ReceiveContinues DEF Safe
<1>4. \E d : blocks' = [blocks EXCEPT ![archive[l]] = d]
  BY <1>2 DEF Receive
<1>5. ASSUME NEW m \in Langs \ {l}, archive[m] # None
      PROVE  archive[l] # archive[m] /\ blocks'[archive[m]] = blocks[archive[m]]
  <2>1. archive[l] # archive[m]
    BY <1>2, <1>5 DEF Safe, FilesApart
  <2>2. archive[m] \in Files
    BY <1>5 DEF Safe, TypeOK
  <2> QED BY <1>4, <2>1, <2>2 DEF Safe, TypeOK
<1>6. Frame(p, l)
  BY <1>1, <1>2, <1>3, <1>5 DEF Frame, Continues, dirs
<1>7. Lang(p)' = l
  BY <1>2, <1>3 DEF Continues, Lang
<1>8. RuntimeOK(p)'
  BY <1>1, <1>2, <1>3, <1>7 DEF RuntimeOK, Continues, Empty, dirs
<1>11. Whole(l)'
  BY <1>1, WholeQuiet DEF dirs
<1>12. Made(tree'[l]) \subseteq Parts
  BY <1>1, <1>2 DEF LangOK, dirs
<1> QED BY <1>6, <1>8, <1>11, <1>12, FrameKeeps DEF Own, LangOK

LEMMA DownloadedSafe ==
  ASSUME Disjoint, Safe, TypeOK', NEW p \in Procs, Received(p) \/ DownloadFails(p)
  PROVE  Safe'
<1>1. /\ proc[p] # None /\ proc[p].pc \in {"create", "download"}
      /\ UNCHANGED <<dirs, downloads, cut>>
  BY DEF Received, DownloadFails, At, counts
<1>2. runtime[Lang(p)] = None
  BY <1>1, CallSafe DEF RuntimeOK, Empty
<1>3. Quits(p) \/ Continues(p, "verify") \/ Continues(p, "create")
  BY <1>1, DownloadFailsBecomes, GoesContinues DEF Received, Safe, States
<1>4. CASE Quits(p)
  BY <1>1, <1>4, QuitsSafe
<1>5. CASE Continues(p, "verify")
  <2>1. RuntimeOK(p)'
    BY <1>1, <1>2, <1>5 DEF RuntimeOK, Continues, Lang, dirs
  <2> QED BY <1>1, <1>5, <2>1, ContinuesSafe
<1>6. CASE Continues(p, "create")
  <2>1. RuntimeOK(p)'
    BY <1>1, <1>2, <1>6 DEF RuntimeOK, Continues, Lang, dirs
  <2> QED BY <1>1, <1>6, <2>1, ContinuesSafe
<1> QED BY <1>3, <1>4, <1>5, <1>6

\* The archive's path is given up or kept, the rest is left alone.
LEMMA ArchiveFrame ==
  ASSUME Safe, NEW p \in Procs, NEW l, proc[p] # None, Lang(p) = l, Others(p),
         proc'[p] # None => proc'[p].lang = l,
         UNCHANGED <<dirs, blocks, cut>>,
         archive' \in {archive, [archive EXCEPT ![l] = None]}
  PROVE  Frame(p, l)
<1>1. l \in Langs /\ l \in Serves[p]
  BY CallSafe
<1>2. ASSUME NEW m \in Langs \ {l}
      PROVE  archive'[m] = archive[m] /\ (archive[m] # None => archive'[l] # archive[m])
  <2>1. archive'[m] = archive[m] /\ archive'[l] \in {archive[l], None}
    BY <1>1 DEF Safe, TypeOK
  <2>2. archive[m] # None => archive[l] # archive[m]
    BY <1>1 DEF Safe, FilesApart
  <2> QED BY <2>1, <2>2
<1> QED BY <1>1, <1>2 DEF Frame, dirs

LEMMA VerifySafe ==
  ASSUME Disjoint, Safe, TypeOK', NEW p \in Procs, Verify(p)
  PROVE  Safe'
<1>1. proc[p] # None /\ proc[p].pc = "verify" /\ UNCHANGED <<dirs, blocks, cut>>
  BY DEF Verify, At, counts
<1> PICK l \in Langs : l = Lang(p)
  BY <1>1, CallSafe
<1>2. l \in Serves[p] /\ LangOK(l) /\ proc[p].lang = l /\ runtime[l] = None
  BY <1>1, CallSafe DEF RuntimeOK, Empty
<1>3. CASE archive[l] # None /\ blocks[archive[l]] = Parts /\ Goes(p, "extract") /\ UNCHANGED archive
  <2>1. Continues(p, "extract") /\ proc'[p].n = 0
    BY <1>1, <1>3, GoesContinues DEF Safe, States
  <2>2. Lang(p)' = l
    BY <2>1 DEF Continues, Lang
  <2>3. RuntimeOK(p)'
    BY <1>1, <1>2, <1>3, <2>1, <2>2 DEF RuntimeOK, Continues, Empty, dirs
  <2> QED BY <1>1, <1>3, <2>1, <2>3, ContinuesSafe DEF downloads
<1>4. CASE Ends(p) /\ archive' \in {archive, [archive EXCEPT ![l] = None]}
  <2>1. Quits(p)
    BY <1>4, EndsQuits DEF Safe
  <2>2. Frame(p, l)
    BY <1>1, <1>2, <1>4, <2>1, ArchiveFrame DEF Quits
  <2>4. Whole(l)'
    BY <1>1, WholeQuiet DEF dirs
  <2>5. Made(tree'[l]) \subseteq Parts
    BY <1>1, <1>2 DEF LangOK, dirs
  <2> QED BY <2>1, <2>2, <2>4, <2>5, FrameKeeps DEF Own, LangOK, Quits
<1> QED BY <1>3, <1>4 DEF Verify

LEMMA OpenArchiveSafe ==
  ASSUME Disjoint, Safe, TypeOK', NEW p \in Procs, OpenArchive(p)
  PROVE  Safe'
<1>1. proc[p] # None /\ proc[p].pc = "extract" /\ UNCHANGED <<dirs, downloads, cut>>
  BY DEF OpenArchive, At, counts
<1> PICK l \in Langs : l = Lang(p)
  BY <1>1, CallSafe
<1>2. /\ runtime[l] = None /\ archive[l] # None /\ blocks[archive[l]] = Parts /\ proc[p].n = 0
  BY <1>1, CallSafe DEF RuntimeOK, Empty
<1>3. CASE Quits(p)
  BY <1>1, <1>3, QuitsSafe
<1>4. CASE Continues(p, "unpack") /\ proc'[p].file = archive[l] /\ proc'[p].n = proc[p].n
  <2>1. Lang(p)' = l
    BY <1>4 DEF Continues, Lang
  <2>2. 1..proc'[p].n = {}
    BY <1>2, <1>4
  <2>3. RuntimeOK(p)'
    BY <1>1, <1>2, <1>4, <2>1, <2>2 DEF RuntimeOK, Continues, Empty, dirs, downloads
  <2> QED BY <1>1, <1>4, <2>3, ContinuesSafe
<1> QED BY <1>3, <1>4, OpenArchiveBecomes DEF Safe

LEMMA UnpackSafe ==
  ASSUME Disjoint, Safe, TypeOK', NEW p \in Procs, Unpack(p)
  PROVE  Safe'
<1>1. proc[p] # None /\ proc[p].pc = "unpack" /\ UNCHANGED <<runtime, downloads, cut>>
  BY DEF Unpack, At, counts
<1> PICK l \in Langs : l = Lang(p)
  BY <1>1, CallSafe
<1>2. /\ l \in Serves[p] /\ LangOK(l) /\ proc[p].lang = l
      /\ runtime[l] = None /\ archive[l] # None /\ proc[p].file = archive[l]
      /\ blocks[archive[l]] = Parts /\ 1..proc[p].n \subseteq Made(tree[l])
  BY <1>1, CallSafe DEF RuntimeOK, Empty
<1>3. CASE Quits(p) /\ UNCHANGED tree
  BY <1>1, <1>3, QuitsSafe DEF dirs
<1>4. ASSUME Continues(p, "unpack"), proc'[p].file = proc[p].file, proc'[p].n = proc[p].n + 1,
             proc[p].n \in 0..1, NEW x \in blocks[proc[p].file], x \in {proc[p].n + 1, -(proc[p].n + 1)},
             tree' = [tree EXCEPT ![l] = With(tree[l], x)]
      PROVE  Safe'
  <2>1. x = proc[p].n + 1 /\ x \in Parts
    BY <1>2, <1>4, Constants
  <2>2. tree'[l] = With(tree[l], x) /\ \A m \in Langs \ {l} : tree'[m] = tree[m]
    BY <1>4 DEF Safe, TypeOK
  <2>3. Made(tree[l]) \subseteq Parts
    BY <1>2 DEF LangOK
  <2>4. With(tree[l], x) \subseteq Parts /\ With(tree[l], x) # None
    BY <2>1, <2>3, Constants DEF With
  <2>5. Made(tree'[l]) \subseteq Parts /\ Made(tree'[l]) = With(tree[l], x)
    BY <2>2, <2>4 DEF Made
  <2>6. 1..proc'[p].n \subseteq Made(tree'[l])
    <3> SUFFICES ASSUME NEW y \in 1..proc'[p].n PROVE y \in With(tree[l], x)
      BY <2>5
    <3>1. y = x \/ y \in 1..proc[p].n
      BY <1>4, <2>1
    <3>2. y # -x
      BY <1>4, <2>1
    <3> QED BY <1>2, <3>1, <3>2 DEF With
  <2>7. Frame(p, l)
    BY <1>1, <1>2, <1>4, <2>2, InFrame DEF Continues
  <2>8. Lang(p)' = l
    BY <1>2, <1>4 DEF Continues, Lang
  <2>9. RuntimeOK(p)'
    BY <1>1, <1>2, <1>4, <2>6, <2>8 DEF RuntimeOK, Continues, Empty, downloads
  <2>12. Whole(l)'
    BY <1>1, WholeQuiet
  <2> QED BY <2>5, <2>7, <2>9, <2>12, FrameKeeps DEF Own, LangOK
<1> QED BY <1>3, <1>4, UnpackBecomes DEF Safe

LEMMA DropArchiveSafe ==
  ASSUME Disjoint, Safe, TypeOK', NEW p \in Procs, DropArchive(p)
  PROVE  Safe'
<1>1. proc[p] # None /\ proc[p].pc = "unpack" /\ proc[p].n = 2 /\ UNCHANGED <<dirs, blocks, cut>>
  BY Constants DEF DropArchive, At, counts
<1> PICK l \in Langs : l = Lang(p)
  BY <1>1, CallSafe
<1>2. /\ l \in Serves[p] /\ LangOK(l) /\ proc[p].lang = l
      /\ runtime[l] = None /\ 1..2 \subseteq Made(tree[l])
  BY <1>1, CallSafe DEF RuntimeOK, Empty
<1>3. tree[l] = Parts
  BY <1>2, Constants DEF LangOK, Made
<1>4. Continues(p, "place")
  BY <1>1, GoesContinues DEF DropArchive, Safe, States
<1>5. Frame(p, l)
  BY <1>1, <1>2, <1>4, ArchiveFrame DEF DropArchive, Continues
<1>6. Lang(p)' = l
  BY <1>2, <1>4 DEF Continues, Lang
<1>7. RuntimeOK(p)'
  BY <1>1, <1>2, <1>3, <1>4, <1>6 DEF RuntimeOK, Continues, Empty, dirs
<1>10. Whole(l)'
  BY <1>1, WholeQuiet DEF dirs
<1>11. Made(tree'[l]) \subseteq Parts
  BY <1>1, <1>2 DEF LangOK, dirs
<1> QED BY <1>5, <1>7, <1>10, <1>11, FrameKeeps DEF Own, LangOK

LEMMA PlaceSafe ==
  ASSUME Disjoint, Safe, TypeOK', NEW p \in Procs, Place(p)
  PROVE  Safe'
<1>1. proc[p] # None /\ proc[p].pc = "place" /\ UNCHANGED <<downloads, cut>>
  BY DEF Place, At, counts
<1> PICK l \in Langs : l = Lang(p)
  BY <1>1, CallSafe
<1>2. /\ l \in Serves[p] /\ LangOK(l) /\ proc[p].lang = l
      /\ runtime[l] = None /\ tree[l] = Parts
  BY <1>1, CallSafe DEF RuntimeOK, Empty
<1>3. Holds(tree[l], Interpreter) /\ tree[l] # None
  BY <1>2, Constants DEF Holds, Interpreter
<1>4. /\ runtime' = [runtime EXCEPT ![l] = tree[l]] /\ tree' = [tree EXCEPT ![l] = None]
      /\ Resolved(p)
  BY <1>2, <1>3 DEF Place
<1>5. /\ runtime'[l] = Parts /\ tree'[l] = None
      /\ \A m \in Langs \ {l} : runtime'[m] = runtime[m] /\ tree'[m] = tree[m]
  BY <1>2, <1>4 DEF Safe, TypeOK
<1>6. Continues(p, IF proc[p].op = "run" THEN "make" ELSE "provisioned")
  BY <1>1, <1>4, ResolvedContinues DEF Safe
<1>7. Frame(p, l)
  BY <1>1, <1>2, <1>5, <1>6, InFrame DEF Continues
<1>8. Lang(p)' = l
  BY <1>2, <1>6 DEF Continues, Lang
<1>9. proc'[p].pc \in {"make", "provisioned"}
  BY <1>6 DEF Continues
<1>10. RuntimeOK(p)'
  BY <1>5, <1>8, <1>9 DEF RuntimeOK, Empty, Given
<1>13. Whole(l)' /\ Made(tree'[l]) \subseteq Parts
  BY <1>5 DEF Whole, Made
<1> QED BY <1>7, <1>10, <1>13, FrameKeeps DEF Own, LangOK

\* A step that leaves the runtimes alone.
LEMMA EnvStep ==
  ASSUME Disjoint, Safe, TypeOK', NEW p \in Procs, proc[p] # None, Others(p),
         proc'[p] # None => /\ proc'[p].lang = Lang(p)
                            /\ proc'[p].pc \in {"install", "use"},
         proc[p].pc # "wipe",
         UNCHANGED <<dirs, downloads, cut>>
  PROVE  Safe'
<1> PICK l \in Langs : l = Lang(p)
  BY CallSafe
<1>1. l \in Serves[p]
  BY CallSafe
<1>2. proc'[p] # None => RuntimeOK(p)'
  BY DEF RuntimeOK, Empty
<1> QED BY <1>1, <1>2, QuietStep

LEMMA MakeSafe ==
  ASSUME Disjoint, Safe, TypeOK', NEW p \in Procs, Make(p)
  PROVE  Safe'
<1>1. proc[p] # None /\ proc[p].pc = "make" /\ UNCHANGED <<dirs, downloads, cut>>
  BY DEF Make, At, counts
<1>2. proc[p].lang = Lang(p)
  BY <1>1, CallSafe
<1>3. Quits(p) \/ Continues(p, "install") \/ Continues(p, "use")
  BY <1>1, EndsQuits, GoesContinues DEF Make, Safe, States
<1> QED BY <1>1, <1>2, <1>3, EnvStep DEF Quits, Continues

LEMMA InstallSafe ==
  ASSUME Disjoint, Safe, TypeOK', NEW p \in Procs, Install(p) \/ Installed(p) \/ InstallFails(p)
  PROVE  Safe'
<1>1. proc[p] # None /\ proc[p].pc = "install" /\ UNCHANGED <<dirs, downloads, cut>>
  BY DEF Install, Installed, InstallFails, At, counts
<1>2. proc[p].lang = Lang(p)
  BY <1>1, CallSafe
<1>3. Quits(p) \/ Continues(p, "use") \/ UNCHANGED proc
  BY <1>1, EndsQuits, GoesContinues DEF Install, Installed, InstallFails, Safe, States
<1> QED BY <1>1, <1>2, <1>3, EnvStep DEF Quits, Continues, Others

LEMMA ReturnSafe ==
  ASSUME Disjoint, Safe, TypeOK', NEW p \in Procs, Return(p)
  PROVE  Safe'
<1>1. /\ proc[p] # None /\ proc[p].pc \in {"use", "provisioned"}
      /\ UNCHANGED <<dirs, downloads, cut>>
  BY DEF Return, At, counts
<1>2. Quits(p)
  BY EndsQuits DEF Return, Safe
<1> QED BY <1>1, <1>2, QuitsSafe

\* A step that no call takes, and that leaves the runtimes alone.
LEMMA StillSafe ==
  ASSUME Safe, TypeOK', UNCHANGED <<dirs, downloads, proc, cut>>
  PROVE  Safe'
<1>1. \A m : LangOK(m)' <=> LangOK(m)
  BY DEF dirs, downloads, LangOK, Whole, Provisioned, At, Lang
<1>2. \A p : RuntimeOK(p)' <=> RuntimeOK(p)
  BY DEF dirs, downloads, RuntimeOK, Provisioned, Given, Lang, Empty
<1>3. Owned' /\ FilesApart'
  BY DEF downloads, Safe, Owned, FilesApart, Lang
<1> QED BY <1>1, <1>2, <1>3 DEF Safe

LEMMA WipeFailsSafe ==
  ASSUME Disjoint, Safe, TypeOK', NEW p \in Procs, WipeFails(p)
  PROVE  Safe'
<1>1. proc[p] # None /\ UNCHANGED <<dirs, downloads>>
  BY DEF WipeFails, At
<1> PICK l \in Langs : l = Lang(p)
  BY <1>1, CallSafe
<1>2. l \in Serves[p] /\ LangOK(l)
  BY <1>1, CallSafe
<1>3. Quits(p)
  BY EndsQuits DEF WipeFails, Safe
<1>4. cut' = cut \cup {l}
  BY DEF WipeFails
<1>5. Frame(p, l)
  BY <1>1, <1>3, <1>4, InFrame DEF Quits, dirs
<1>6. Whole(l)' /\ Made(tree'[l]) \subseteq Parts
  BY <1>1, <1>2, <1>4 DEF Whole, LangOK, dirs
<1> QED BY <1>3, <1>5, <1>6, FrameKeeps DEF Own, LangOK, Quits

LEMMA CrashSafe ==
  ASSUME Disjoint, Safe, TypeOK', NEW p \in Procs, Crash(p)
  PROVE  Safe'
<1>1. proc[p] # None /\ UNCHANGED <<dirs, downloads>>
  BY DEF Crash
<1> PICK l \in Langs : l = Lang(p)
  BY <1>1, CallSafe
<1>2. l \in Serves[p] /\ LangOK(l)
  BY <1>1, CallSafe
<1>3. Quits(p)
  BY EndsQuits DEF Crash, Safe
<1>4. \A m \in Langs \ {l} : m \in cut' <=> m \in cut
  BY DEF Crash
<1>5. Frame(p, l)
  BY <1>1, <1>3, <1>4, InFrame DEF Quits, dirs
<1>6. Whole(l)'
  <2>1. CASE At(p, "wipe")
    BY <2>1 DEF Crash, Whole
  <2>2. CASE ~At(p, "wipe")
    BY <1>1, <2>2, WholeQuiet DEF Crash, At, dirs
  <2> QED BY <2>1, <2>2
<1>7. Made(tree'[l]) \subseteq Parts
  BY <1>1, <1>2 DEF LangOK, dirs
<1> QED BY <1>3, <1>5, <1>6, <1>7, FrameKeeps DEF Own, LangOK, Quits

LEMMA SafeInit == Init => Safe
<1> SUFFICES ASSUME Init PROVE Safe
  OBVIOUS
<1>1. TypeOK
  BY TypeInit
<1>2. Owned /\ FilesApart /\ \A p \in Procs : proc[p] = None
  BY DEF Init, Owned, FilesApart
<1>3. \A l \in Langs : LangOK(l)
  BY DEF Init, LangOK, Whole, Provisioned, Holds, Made
<1> QED BY <1>1, <1>2, <1>3 DEF Safe

LEMMA SafeStep == Disjoint /\ Safe /\ [Next]_vars => Safe'
<1> SUFFICES ASSUME Disjoint, Safe, [Next]_vars PROVE Safe'
  OBVIOUS
<1>t. TypeOK'
  BY TypeStep DEF Safe
<1>1. CASE UNCHANGED vars
  BY <1>1, <1>t, StillSafe DEF vars, counts
<1>0. CASE CleanEnv
  BY <1>0, <1>t, StillSafe DEF CleanEnv, Clean, RemoveEnv, PassOver, counts
<1>2. ASSUME NEW p \in Procs, Start(p) PROVE Safe'
  <2>1. ASSUME Run(p) PROVE Safe'
    <3>1. PICK l \in Langs :
            Begins(p, l, "run", IF l = "python" /\ Built(l) THEN "use"
                                ELSE IF l \in SystemHas THEN "make" ELSE "look")
      BY <2>1, RunBegins DEF Safe
    <3>2. CASE l = "python" /\ Built(l)
      BY <1>t, <3>1, <3>2, BeginsSafe
    <3>3. CASE ~(l = "python" /\ Built(l)) /\ l \in SystemHas
      BY <1>t, <3>1, <3>3, BeginsSafe
    <3>4. CASE ~(l = "python" /\ Built(l)) /\ l \notin SystemHas
      BY <1>t, <3>1, <3>4, BeginsSafe
    <3> QED BY <3>2, <3>3, <3>4
  <2>2. ASSUME Provision(p) PROVE Safe'
    BY <1>t, <2>2, ProvisionBegins, BeginsSafe DEF Safe
  <2>3. ASSUME ProvisionAnew(p) PROVE Safe'
    BY <1>t, <2>3, ProvisionAnewBegins, BeginsSafe DEF Safe
  <2> QED BY <1>2, <2>1, <2>2, <2>3 DEF Start
<1>3. ASSUME NEW p \in Procs, Fetch(p) PROVE Safe'
  BY <1>3, <1>t, WipeSafe, WipeFailsSafe, LookSafe, RemoveStaleSafe, CreateSafe, ReceiveSafe, DownloadedSafe DEF Fetch
<1>4. ASSUME NEW p \in Procs, Settle(p) PROVE Safe'
  BY <1>4, <1>t, VerifySafe, OpenArchiveSafe, UnpackSafe, DropArchiveSafe, PlaceSafe DEF Settle
<1>5. ASSUME NEW p \in Procs, Build(p) PROVE Safe'
  BY <1>5, <1>t, MakeSafe, InstallSafe, ReturnSafe DEF Build
<1>6. ASSUME NEW p \in Procs, Crash(p) PROVE Safe'
  BY <1>6, <1>t, CrashSafe
<1> QED BY <1>0, <1>1, <1>2, <1>3, <1>4, <1>5, <1>6 DEF Next

LEMMA SafeProvides == Safe => RuntimesAreWhole
<1> SUFFICES ASSUME Safe PROVE RuntimesAreWhole
  OBVIOUS
<1>1. ProvisionedIsWhole
  BY DEF Safe, LangOK, Whole, ProvisionedIsWhole
<1>2. ResolvedIsWhole
  BY DEF Safe, RuntimeOK, Given, ResolvedIsWhole, At
<1> QED BY <1>1, <1>2 DEF RuntimesAreWhole

\* If no two processes run skills of a language, then whatever fails, is damaged
\* or crashes, a runtime that looks provisioned is whole unless a forced removal
\* is under way or was cut short, and so is the one a caller is given.
THEOREM ProvisionedRuntimesAreWhole ==
  ASSUME Disjoint
  PROVE  Spec => []RuntimesAreWhole
<1>1. Safe /\ [Next]_vars => Safe'
  BY SafeStep
<1> QED BY <1>1, SafeInit, SafeProvides, PTL DEF Spec

-----------------------------------------------------------------------------
(* Environments, whoever runs skills of whichever language. *)

\* An environment that has its sign has its packages, but for the exceptions; ...
Kept(l) == Holds(env[l], Mark) => Packages \subseteq env[l] \/ l \in torn \/ BeingInstalled(l)
\* ... a call that has found it built, or uses it, relies on that.
Relies(p) ==
  LET l == Lang(p) IN
  /\ At(p, "use") => Packages \subseteq Made(env[l]) \/ l \in torn \/ p \in swept \/ BeingInstalled(l)
  /\ ~At(p, "use") /\ ~At(p, "install") => proc[p].fresh \/ p \in swept \/ Holds(env[l], Mark)
Furnished ==
  /\ TypeOK
  /\ \A l \in Langs : Kept(l)
  /\ \A p \in Procs : proc[p] # None => Relies(p)

LEMMA FurnishedInit == Init => Furnished
BY TypeInit DEF Init, Furnished, Kept, Holds

\* A step that leaves the environments, what is excepted and all calls but one alone.
LEMMA OneCallMoves ==
  ASSUME Furnished, TypeOK', NEW p \in Procs, Others(p), UNCHANGED <<env, torn>>,
         swept' \in {swept, swept \ {p}},
         ~At(p, "install"), proc'[p] # None => Relies(p)'
  PROVE  Furnished'
<1>1. ASSUME NEW l, BeingInstalled(l) PROVE BeingInstalled(l)'
  <2>1. PICK q \in Procs : At(q, "install") /\ Lang(q) = l
    BY <1>1 DEF BeingInstalled
  <2>2. q # p
    BY <2>1
  <2> QED BY <2>1, <2>2 DEF BeingInstalled, Others, At, Lang
<1>2. ASSUME NEW l \in Langs PROVE Kept(l)'
  BY <1>1 DEF Furnished, Kept, Holds
<1>3. ASSUME NEW q \in Procs, proc'[q] # None PROVE Relies(q)'
  <2>1. CASE q = p
    BY <1>3, <2>1
  <2>2. CASE q # p
    <3>1. proc'[q] = proc[q] /\ Lang(q)' = Lang(q) /\ Relies(q) /\ (q \in swept' <=> q \in swept)
      BY <1>3, <2>2 DEF Others, Lang, Furnished
    <3> QED BY <1>1, <3>1 DEF Relies, At, Holds
  <2> QED BY <2>1, <2>2
<1> QED BY <1>2, <1>3 DEF Furnished

\* A call that is not yet at its environment goes on, or ends.
LEMMA GoesOnFurnished ==
  ASSUME Furnished, TypeOK', NEW p \in Procs, proc[p] # None, ~At(p, "install"), ~At(p, "use"),
         UNCHANGED <<env, torn, swept>>,
         \/ Quits(p)
         \/ \E pc : Continues(p, pc) /\ pc \notin {"install", "use"}
  PROVE  Furnished'
<1>1. CASE Quits(p)
  BY <1>1, OneCallMoves DEF Quits
<1>2. ASSUME NEW pc, Continues(p, pc), pc \notin {"install", "use"} PROVE Furnished'
  <2>1. Relies(p) /\ Others(p) /\ ~At(p, "use")' /\ ~At(p, "install")' /\ Lang(p)' = Lang(p)
        /\ (proc'[p].fresh <=> proc[p].fresh)
    BY <1>2 DEF Furnished, Continues, At, Lang
  <2>2. Relies(p)'
    BY <2>1 DEF Relies, Holds
  <2> QED BY <2>1, <2>2, OneCallMoves
<1> QED BY <1>1, <1>2

LEMMA StartFurnished ==
  ASSUME Furnished, TypeOK', NEW p \in Procs, Start(p)
  PROVE  Furnished'
<1>1. PICK l \in Langs, op \in {"run", "provision", "anew"},
           pc \in {"use", "make", "look", "provisioned", "wipe"} :
        Begins(p, l, op, pc) /\ (pc = "use" => Built(l))
  <2>1. CASE Run(p)
    <3>1. PICK l \in Langs :
            Begins(p, l, "run", IF l = "python" /\ Built(l) THEN "use"
                                ELSE IF l \in SystemHas THEN "make" ELSE "look")
      BY <2>1, RunBegins DEF Furnished
    <3>2. CASE l = "python" /\ Built(l)
      BY <3>1, <3>2
    <3>3. CASE ~(l = "python" /\ Built(l)) /\ l \in SystemHas
      BY <3>1, <3>3
    <3>4. CASE ~(l = "python" /\ Built(l)) /\ l \notin SystemHas
      BY <3>1, <3>4
    <3> QED BY <3>2, <3>3, <3>4
  <2>2. CASE Provision(p)
    BY <2>2, ProvisionBegins DEF Furnished
  <2>3. CASE ProvisionAnew(p)
    BY <2>3, ProvisionAnewBegins DEF Furnished
  <2> QED BY <2>1, <2>2, <2>3 DEF Start
<1>2. /\ Others(p) /\ proc[p] = None /\ UNCHANGED <<env, torn>> /\ swept' = swept \ {p}
      /\ Lang(p)' = l /\ proc'[p].pc = pc /\ (proc'[p].fresh <=> ~Built(l))
  BY <1>1 DEF Begins, Lang
<1>3. ~At(p, "install") /\ Kept(l)
  BY <1>2 DEF At, Furnished
<1>4. ASSUME BeingInstalled(l) PROVE BeingInstalled(l)'
  BY <1>2, <1>4 DEF BeingInstalled, Others, At, Lang
<1>5. Built(l) => Holds(env[l], Mark)
  BY DEF Built
<1>6. Relies(p)'
  BY <1>1, <1>2, <1>3, <1>4, <1>5 DEF Relies, Kept, Holds, Made, At
<1> QED BY <1>2, <1>3, <1>6, OneCallMoves

LEMMA FetchFurnished ==
  ASSUME Furnished, TypeOK', NEW p \in Procs, Fetch(p) \/ Settle(p)
  PROVE  Furnished'
<1> TypeOK
  BY DEF Furnished
<1>1. /\ proc[p] # None /\ proc[p].pc \notin {"install", "use"} /\ UNCHANGED <<env, torn, swept>>
  BY DEF Fetch, Settle, Wipe, WipeFails, Look, Declined, Fails, RemoveStale, Create, Receive, Received, DownloadFails,
         Verify, OpenArchive, Unpack, DropArchive, Place, At, counts
<1>2. ~At(p, "install") /\ ~At(p, "use")
  BY <1>1 DEF At
<1>g. ASSUME NEW pc \in States \ {"install", "use"}, Goes(p, pc) PROVE Furnished'
  <2>1. Continues(p, pc)
    BY <1>1, <1>g, GoesContinues
  <2> QED BY <1>1, <1>2, <2>1, GoesOnFurnished
<1>e. ASSUME Ends(p) PROVE Furnished'
  BY <1>1, <1>2, <1>e, EndsQuits, GoesOnFurnished
<1>v. ASSUME Resolved(p) PROVE Furnished'
  <2>1. Continues(p, IF proc[p].op = "run" THEN "make" ELSE "provisioned")
    BY <1>1, <1>v, ResolvedContinues
  <2> QED BY <1>1, <1>2, <2>1, GoesOnFurnished
<1>u. ASSUME UNCHANGED proc PROVE Furnished'
  <2>1. Relies(p)'
    BY <1>1, <1>u DEF Furnished, Relies, At, Lang, Holds, BeingInstalled
  <2> QED BY <1>1, <1>2, <1>u, <2>1, OneCallMoves DEF Others
<1> USE DEF States
<1>3. CASE Wipe(p)
  BY <1>3, <1>g, <1>e, <1>u DEF Wipe
<1>4. CASE WipeFails(p)
  BY <1>4, <1>e DEF WipeFails
<1>5. CASE Look(p)
  BY <1>5, <1>g, <1>v DEF Look
<1>6. CASE Declined(p)
  BY <1>6, <1>e DEF Declined, Fails
<1>7. CASE RemoveStale(p)
  BY <1>7, <1>g, <1>u DEF RemoveStale
<1>8. CASE Create(p)
  <2>1. Continues(p, "download")
    BY <1>8, CreateContinues
  <2> QED BY <1>1, <1>2, <2>1, GoesOnFurnished
<1>9. CASE Receive(p)
  <2>1. Continues(p, "download")
    BY <1>9, ReceiveContinues
  <2> QED BY <1>1, <1>2, <2>1, GoesOnFurnished
<1>10. CASE Received(p)
  BY <1>10, <1>g DEF Received
<1>11. CASE DownloadFails(p)
  BY <1>1, <1>2, <1>11, DownloadFailsBecomes, GoesOnFurnished
<1>12. CASE Verify(p)
  BY <1>12, <1>g, <1>e DEF Verify
<1>13. CASE OpenArchive(p)
  BY <1>1, <1>2, <1>13, OpenArchiveBecomes, GoesOnFurnished
<1>14. CASE Unpack(p)
  BY <1>1, <1>2, <1>14, UnpackBecomes, GoesOnFurnished
<1>15. CASE DropArchive(p)
  BY <1>15, <1>g DEF DropArchive
<1>16. CASE Place(p)
  BY <1>16, <1>e, <1>v, <1>u DEF Place
<1> QED BY <1>3, <1>4, <1>5, <1>6, <1>7, <1>8, <1>9, <1>10, <1>11, <1>12, <1>13, <1>14, <1>15, <1>16
        DEF Fetch, Settle

\* An environment that only grows, while the calls installing into it stay.
LEMMA EnvGrows ==
  ASSUME Furnished, TypeOK', NEW p \in Procs, proc[p] # None, NEW l \in Langs, Lang(p) = l, Others(p),
         UNCHANGED swept, \A m \in Langs \ {l} : env'[m] = env[m] /\ (m \in torn' <=> m \in torn),
         NEW new, env'[l] = Made(env[l]) \cup new, l \in torn => l \in torn' \/ Packages \subseteq env'[l],
         At(p, "install") => (At(p, "install")' /\ Lang(p)' = l) \/ l \in torn' \/ Packages \subseteq env'[l],
         Mark \in new => l \in torn' \/ Packages \subseteq env'[l] \/ BeingInstalled(l)',
         env'[l] # None,
         proc'[p] # None => Relies(p)'
  PROVE  Furnished'
<1>1. ASSUME NEW m \in Langs, BeingInstalled(m)
      PROVE  BeingInstalled(m)' \/ (m = l /\ (l \in torn' \/ Packages \subseteq env'[l]))
  <2>1. PICK q \in Procs : At(q, "install") /\ Lang(q) = m
    BY <1>1 DEF BeingInstalled
  <2>2. CASE q = p
    <3>1. m = l /\ At(p, "install")
      BY <2>1, <2>2
    <3>2. CASE At(p, "install")' /\ Lang(p)' = l
      <4>1. BeingInstalled(l)'
        BY <3>2 DEF BeingInstalled
      <4> QED BY <3>1, <4>1
    <3> QED BY <3>1, <3>2
  <2>3. CASE q # p
    <3>1. proc'[q] = proc[q]
      BY <2>3 DEF Others
    <3>2. At(q, "install")' /\ Lang(q)' = m
      BY <2>1, <3>1 DEF At, Lang
    <3>3. BeingInstalled(m)'
      BY <3>2 DEF BeingInstalled
    <3> QED BY <3>3
  <2> QED BY <2>2, <2>3
<1>2. Made(env[l]) \subseteq env'[l] /\ Made(env'[l]) = env'[l] /\ (Holds(env[l], Mark) => Holds(env'[l], Mark))
  BY DEF Made, Holds
<1>3. Holds(env'[l], Mark) => Holds(env[l], Mark) \/ Mark \in new
  BY DEF Made, Holds
<1>4. ASSUME NEW m \in Langs PROVE Kept(m)'
  <2>1. Kept(m)
    BY DEF Furnished
  <2>2. CASE m = l
    BY <1>1, <1>2, <1>3, <2>1, <2>2 DEF Kept, Made, Holds
  <2>3. CASE m # l
    BY <1>1, <2>1, <2>3 DEF Kept, Holds
  <2> QED BY <2>2, <2>3
<1>5. ASSUME NEW q \in Procs, proc'[q] # None, q # p PROVE Relies(q)'
  <2>1. proc'[q] = proc[q] /\ Lang(q)' = Lang(q) /\ Relies(q) /\ Lang(q) \in Langs
    BY <1>5, CallTyped DEF Others, Lang, Furnished
  <2>2. CASE Lang(q) = l
    BY <1>1, <1>2, <2>1, <2>2 DEF Relies, At
  <2>3. CASE Lang(q) # l
    BY <1>1, <2>1, <2>3 DEF Relies, At, Holds
  <2> QED BY <2>2, <2>3
<1> QED BY <1>4, <1>5 DEF Furnished

LEMMA MakeFurnished ==
  ASSUME Furnished, TypeOK', NEW p \in Procs, Make(p)
  PROVE  Furnished'
<1>1. proc[p] # None /\ proc[p].pc = "make" /\ UNCHANGED <<torn, swept>> /\ TypeOK
  BY DEF Make, At, counts, Furnished
<1> PICK l \in Langs : l = Lang(p)
  BY <1>1, CallTyped
<1>2. Relies(p) /\ Kept(l) /\ ~At(p, "install") /\ ~At(p, "use")
  BY <1>1 DEF Furnished, At
<1>3. ASSUME NEW new \in SUBSET (Packages \cup {Mark}), env' = [env EXCEPT ![l] = Made(env[l]) \cup new]
      PROVE  /\ env'[l] = Made(env[l]) \cup new /\ env'[l] # None
             /\ \A m \in Langs \ {l} : env'[m] = env[m]
  <2>1. env'[l] = Made(env[l]) \cup new /\ \A m \in Langs \ {l} : env'[m] = env[m]
    BY <1>1, <1>3 DEF TypeOK
  <2>2. Made(env[l]) \subseteq Packages \cup {Mark}
    BY <1>1 DEF Made, TypeOK
  <2>3. env'[l] \in SUBSET (Packages \cup {Mark})
    BY <2>1, <2>2
  <2> QED BY <2>1, <2>3, Constants
<1>4. CASE ~proc[p].fresh /\ Goes(p, "use") /\ env' = [env EXCEPT ![l] = Made(env[l])]
  <2>1. env'[l] = Made(env[l]) \cup {} /\ env'[l] # None /\ \A m \in Langs \ {l} : env'[m] = env[m]
    <3>1. Made(env[l]) \cup {} = Made(env[l]) /\ {} \in SUBSET (Packages \cup {Mark})
      OBVIOUS
    <3>2. env' = [env EXCEPT ![l] = Made(env[l]) \cup {}]
      BY <1>4, <3>1
    <3> QED BY <1>3, <3>1, <3>2
  <2>2. Continues(p, "use")
    BY <1>1, <1>4, GoesContinues DEF States
  <2>3. Lang(p)' = l /\ Others(p) /\ At(p, "use")' /\ proc'[p] # None
    BY <2>2 DEF Continues, Lang, At
  <2>4. p \in swept \/ Holds(env[l], Mark)
    BY <1>2, <1>4 DEF Relies
  <2>5. BeingInstalled(l) => BeingInstalled(l)'
    BY <1>2, <2>3 DEF BeingInstalled, Others, At, Lang
  <2>6. Relies(p)'
    BY <1>1, <1>2, <2>1, <2>3, <2>4, <2>5 DEF Relies, Kept, Holds, Made, At
  <2> QED BY <1>1, <1>2, <2>1, <2>3, <2>6, EnvGrows
<1>5. CASE proc[p].fresh /\ Goes(p, "install") /\ env' = [env EXCEPT ![l] = Made(env[l]) \cup {Mark}]
  <2>1. env'[l] = Made(env[l]) \cup {Mark} /\ env'[l] # None /\ \A m \in Langs \ {l} : env'[m] = env[m]
    BY <1>3, <1>5
  <2>2. Continues(p, "install")
    BY <1>1, <1>5, GoesContinues DEF States
  <2>3. Lang(p)' = l /\ Others(p) /\ At(p, "install")' /\ proc'[p] # None
    BY <2>2 DEF Continues, Lang, At
  <2>4. BeingInstalled(l)'
    BY <2>3 DEF BeingInstalled
  <2>5. Relies(p)'
    BY <2>3 DEF Relies, At
  <2> QED BY <1>1, <1>2, <2>1, <2>3, <2>4, <2>5, EnvGrows
<1>6. CASE Ends(p) /\ env' = [env EXCEPT ![l] = Made(env[l])]
  <2>1. env'[l] = Made(env[l]) \cup {} /\ env'[l] # None /\ \A m \in Langs \ {l} : env'[m] = env[m]
    <3>1. Made(env[l]) \cup {} = Made(env[l]) /\ {} \in SUBSET (Packages \cup {Mark})
      OBVIOUS
    <3>2. env' = [env EXCEPT ![l] = Made(env[l]) \cup {}]
      BY <1>6, <3>1
    <3> QED BY <1>3, <3>1, <3>2
  <2>2. Quits(p)
    BY <1>1, <1>6, EndsQuits
  <2> QED BY <1>1, <1>2, <2>1, <2>2, EnvGrows DEF Quits
<1>7. env[l] = env[l] /\ l \in DOMAIN env
  BY <1>1 DEF TypeOK
<1> QED BY <1>4, <1>5, <1>6, <1>7 DEF Make

LEMMA InstallFurnished ==
  ASSUME Furnished, TypeOK', NEW p \in Procs, Install(p)
  PROVE  Furnished'
<1>1. proc[p] # None /\ At(p, "install") /\ UNCHANGED <<proc, torn, swept>> /\ TypeOK
  BY DEF Install, At, counts, Furnished
<1> PICK l \in Langs : l = Lang(p)
  BY <1>1, CallTyped
<1>2. PICK x \in Packages : env' = [env EXCEPT ![l] = Made(env[l]) \cup {x}]
  BY <1>1 DEF Install, TypeOK
<1>3. env'[l] = Made(env[l]) \cup {x} /\ \A m \in Langs \ {l} : env'[m] = env[m]
  BY <1>1, <1>2 DEF TypeOK
<1>4. env'[l] # None
  <2>1. Made(env[l]) \subseteq Packages \cup {Mark}
    BY <1>1 DEF Made, TypeOK
  <2>2. env'[l] \in SUBSET (Packages \cup {Mark})
    BY <1>3, <2>1
  <2> QED BY <2>2, Constants
<1>5. Mark \notin {x}
  BY Constants
<1>6. At(p, "install")' /\ Lang(p)' = l /\ Others(p)
  BY <1>1 DEF At, Lang, Others
<1>7. Relies(p)'
  BY <1>1, <1>6 DEF Relies, At
<1> QED BY <1>1, <1>3, <1>4, <1>5, <1>6, <1>7, EnvGrows

\* The environment stays as it is when an installation or a call is over.
LEMMA OverFurnished ==
  ASSUME Furnished, TypeOK', NEW p \in Procs, Installed(p) \/ InstallFails(p) \/ Return(p) \/ Crash(p)
  PROVE  Furnished'
<1>1. proc[p] # None /\ UNCHANGED <<env, swept>> /\ TypeOK
  BY DEF Installed, InstallFails, Return, Crash, At, counts, Furnished
<1> PICK l \in Langs : l = Lang(p)
  BY <1>1, CallTyped
<1>2. Others(p) /\ (proc'[p] # None => Installed(p) /\ Lang(p)' = l /\ At(p, "use")')
  <2>1. CASE Ends(p)
    BY <1>1, <2>1, EndsQuits DEF Quits
  <2>2. CASE Installed(p)
    <3>1. Continues(p, "use")
      BY <1>1, <2>2, GoesContinues DEF Installed, States
    <3> QED BY <2>2, <3>1 DEF Continues, Lang, At
  <2> QED BY <2>1, <2>2 DEF InstallFails, Return, Crash
<1>3. \A m \in Langs \ {l} : m \in torn' <=> m \in torn
  BY <1>1 DEF Installed, InstallFails, Return, Crash, counts
<1>4. Installed(p) => l \in torn' \/ Packages \subseteq Made(env[l])
  BY DEF Installed
<1>5. At(p, "install") => l \in torn' \/ Packages \subseteq Made(env[l])
  BY <1>1, <1>4 DEF Installed, InstallFails, Return, Crash, At
<1>6. l \in torn => l \in torn' \/ Packages \subseteq Made(env[l])
  BY <1>1, <1>4 DEF Installed, InstallFails, Return, Crash, counts
<1>7. ASSUME NEW m \in Langs, BeingInstalled(m)
      PROVE  BeingInstalled(m)' \/ (m = l /\ (l \in torn' \/ Packages \subseteq Made(env[l])))
  <2>1. PICK q \in Procs : At(q, "install") /\ Lang(q) = m
    BY <1>7 DEF BeingInstalled
  <2>2. CASE q = p
    BY <1>5, <2>1, <2>2
  <2>3. CASE q # p
    <3>1. proc'[q] = proc[q]
      BY <1>2, <2>3 DEF Others
    <3>2. At(q, "install")' /\ Lang(q)' = m
      BY <2>1, <3>1 DEF At, Lang
    <3>3. BeingInstalled(m)'
      BY <3>2 DEF BeingInstalled
    <3> QED BY <3>3
  <2> QED BY <2>2, <2>3
<1>8. ASSUME NEW m \in Langs PROVE Kept(m)'
  <2>1. Kept(m)
    BY DEF Furnished
  <2>2. CASE m = l
    BY <1>1, <1>6, <1>7, <2>1, <2>2 DEF Kept, Holds, Made
  <2>3. CASE m # l
    BY <1>1, <1>3, <1>7, <2>1, <2>3 DEF Kept, Holds
  <2> QED BY <2>2, <2>3
<1>9. ASSUME NEW q \in Procs, proc'[q] # None PROVE Relies(q)'
  <2>1. CASE q = p
    <3>1. Packages \subseteq Made(env[l]) \/ l \in torn'
      BY <1>2, <1>4, <1>9, <2>1
    <3> QED BY <1>1, <1>2, <1>9, <2>1, <3>1 DEF Relies, At
  <2>2. CASE q # p
    <3>1. proc'[q] = proc[q] /\ Lang(q)' = Lang(q) /\ Relies(q) /\ Lang(q) \in Langs
      BY <1>1, <1>2, <1>9, <2>2, CallTyped DEF Others, Lang, Furnished
    <3>2. CASE Lang(q) = l
      BY <1>1, <1>6, <1>7, <3>1, <3>2 DEF Relies, At
    <3>3. CASE Lang(q) # l
      BY <1>1, <1>3, <1>7, <3>1, <3>3 DEF Relies, At
    <3> QED BY <3>2, <3>3
  <2> QED BY <2>1, <2>2
<1> QED BY <1>8, <1>9 DEF Furnished

LEMMA CleanFurnished ==
  ASSUME Furnished, TypeOK', CleanEnv
  PROVE  Furnished'
<1>1. UNCHANGED proc /\ TypeOK
  BY DEF CleanEnv, Clean, RemoveEnv, PassOver, Furnished
<1>2. \A m : BeingInstalled(m)' <=> BeingInstalled(m)
  BY <1>1 DEF BeingInstalled, At, Lang
<1>3. CASE UNCHANGED <<env, torn, swept>>
  BY <1>1, <1>2, <1>3 DEF Furnished, Kept, Relies, At, Lang, Holds
<1>4. ASSUME NEW l \in Langs, RemoveEnv(l) PROVE Furnished'
  <2>1. PICK d \in Removals(env[l]) :
          /\ env' = [env EXCEPT ![l] = d]
          /\ torn' = IF d = None THEN torn \ {l} ELSE torn \cup {l}
    BY <1>4 DEF RemoveEnv
  <2>2. env'[l] = d /\ \A m \in Langs \ {l} : env'[m] = env[m] /\ (m \in torn' <=> m \in torn)
    BY <1>1, <2>1 DEF TypeOK
  <2>3. Kept(l)'
    BY <2>1, <2>2 DEF Kept, Holds
  <2>4. \A m \in Langs \ {l} : Kept(m)'
    BY <1>2, <2>2 DEF Furnished, Kept, Holds
  <2>5. ASSUME NEW q \in Procs, proc[q] # None PROVE Relies(q)'
    <3>1. Relies(q) /\ Lang(q)' = Lang(q) /\ Lang(q) \in Langs
      BY <1>1, <2>5, CallTyped DEF Furnished, Lang
    <3>2. CASE Lang(q) = l
      BY <1>4, <2>5, <3>2 DEF Relies, RemoveEnv
    <3>3. CASE Lang(q) # l
      <4>1. q \in swept' <=> q \in swept
        BY <1>4, <3>3 DEF RemoveEnv
      <4> QED BY <1>1, <1>2, <2>2, <3>1, <3>3, <4>1 DEF Relies, At, Holds
    <3> QED BY <3>2, <3>3
  <2> QED BY <1>1, <2>3, <2>4, <2>5 DEF Furnished
<1> QED BY <1>3, <1>4 DEF CleanEnv, Clean, PassOver, counts

LEMMA FurnishedStep == Furnished /\ [Next]_vars => Furnished'
<1> SUFFICES ASSUME Furnished, [Next]_vars PROVE Furnished'
  OBVIOUS
<1>t. TypeOK'
  BY TypeStep DEF Furnished
<1>1. CASE UNCHANGED vars
  <2>1. UNCHANGED <<env, proc, torn, swept>>
    BY <1>1 DEF vars, counts
  <2> QED BY <1>t, <2>1 DEF Furnished, Kept, Relies, BeingInstalled, At, Lang, Holds
<1>2. CASE CleanEnv
  BY <1>2, <1>t, CleanFurnished
<1>3. ASSUME NEW p \in Procs, Build(p) PROVE Furnished'
  BY <1>3, <1>t, MakeFurnished, InstallFurnished, OverFurnished DEF Build
<1> QED BY <1>1, <1>2, <1>3, <1>t, StartFurnished, FetchFurnished, OverFurnished DEF Next

\* For any number of processes that run, install and remove skills of any language
\* at the same time, whatever fails or crashes: what a skill runs in has its
\* packages, but for an installation that failed, was killed or is under way, and
\* for what clean-env has taken since the call began or left half removed.
THEOREM SkillsRunWithTheirPackages == Spec => []SkillHasPackages
<1>1. Furnished => SkillHasPackages
  BY DEF Furnished, Relies, SkillHasPackages, At
<1> QED BY <1>1, FurnishedInit, FurnishedStep, PTL DEF Spec

=============================================================================
