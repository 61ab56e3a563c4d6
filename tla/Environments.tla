---------------------------- MODULE Environments ----------------------------
(* The environments skills run in: a directory per skill with a virtual
   environment or node_modules, built on first use, and the Python and Node
   that are downloaded once for all of them when the system has none.

   All processes of a user share these directories and nothing locks them.  A
   part of a runtime is one of the two halves of its tree: the interpreter, and
   all the rest.  The archive holds the parts in this order, one block each; a
   damaged block is the negative of the part it stands for.  Removing a
   directory takes its parts one at a time, in any order.  One skill stands for
   those of a language; its environment holds the interpreter (in Node's case
   node_modules) and the packages.  `skilllite clean-env` is a process of its own
   and removes the environments of all skills, whoever uses them.              *)
EXTENDS Integers, FiniteSets

CONSTANTS Procs,       \* processes
          Langs,       \* "python", "node"
          Serves,      \* the languages of the skills a process runs
          SystemHas,   \* the languages whose interpreter is on the PATH
          Packages,    \* what a skill needs
          MaxCalls, MaxCrashes, Files,    \* bounds; archives ever created
          None

Interpreter == 1
Parts == {Interpreter, 2}
Mark == "interpreter"

ASSUME LangsAssumption ==
  /\ Langs \subseteq {"python", "node"} /\ SystemHas \subseteq Langs
  /\ Serves \in [Procs -> SUBSET Langs]
ASSUME BoundsAssumption == {MaxCalls, MaxCrashes} \subseteq Nat
ASSUME MarkAssumption == Mark \notin Packages /\ IsFiniteSet(Packages)

VARIABLES runtime,    \* python-3.12 and node-20 in the runtime directory
          tree,       \* what has been unpacked next to them
          archive,    \* the archive's path: the file it names
          blocks,     \* what is in each file
          env,        \* the environment of each skill
          proc,       \* calls in progress
          cleaning,   \* environments that clean-env has listed and not come to yet
          calls, crashes,
          cut,        \* history: languages of which a forced removal was cut short
          torn,       \* history: skills whose environment a failed or killed
                      \* installation has left, or a removal that has not come to its end
          swept       \* history: calls that clean-env has taken something from

dirs == <<runtime, tree>>
downloads == <<archive, blocks>>
counts == <<calls, crashes, cut, torn, swept>>
vars == <<dirs, downloads, env, cleaning, proc, counts>>

Init ==
  /\ runtime = [l \in Langs |-> None] /\ tree = [l \in Langs |-> None]
  /\ archive = [l \in Langs |-> None] /\ blocks = [f \in Files |-> {}]
  /\ env = [l \in Langs |-> None]
  /\ proc = [p \in Procs |-> None]
  /\ cleaning = {} /\ calls = 0 /\ crashes = 0 /\ cut = {} /\ torn = {} /\ swept = {}

-----------------------------------------------------------------------------
(* Processes and directories. *)

At(p, pc) == proc[p] # None /\ proc[p].pc = pc
Lang(p) == proc[p].lang
Goes(p, pc) == proc' = [proc EXCEPT ![p].pc = pc, ![p].n = 0]
Ends(p) == proc' = [proc EXCEPT ![p] = None]

Holds(dir, x) == dir # None /\ x \in dir
Made(dir) == IF dir = None THEN {} ELSE dir
With(dir, b) == (Made(dir) \ {b, -b}) \cup {b}
Removals(dir) == IF dir = {} THEN {None} ELSE {dir \ {x} : x \in dir}

\* The interpreter's file is the sign that the runtime is there.
Provisioned(l) == Holds(runtime[l], Interpreter)
Works(l) == l \in SystemHas \/ Made(runtime[l]) = Parts

\* Mutation: the directory is sign enough.
BuiltIfThere(l) == env[l] # None

\* The environment's own sign; Python's is a link to the interpreter it was made with.
Built(l) == Holds(env[l], Mark) /\ (l = "python" => l \in SystemHas \/ Provisioned(l))

-----------------------------------------------------------------------------
(* Calls. *)

NewCall(op, l, pc) ==
  [op |-> op, lang |-> l, pc |-> pc, n |-> 0, file |-> None, fallback |-> FALSE, fresh |-> ~Built(l)]

Calls(p, l, op, pc) ==
  /\ proc[p] = None /\ l \in Serves[p]
  /\ calls < MaxCalls /\ calls' = calls + 1
  /\ proc' = [proc EXCEPT ![p] = NewCall(op, l, pc)]
  /\ swept' = swept \ {p}
  /\ UNCHANGED <<dirs, downloads, env, cleaning, crashes, cut, torn>>

\* A skill is to be run.  Node is looked for even if the environment is there.
Run(p) == \E l \in Langs :
  Calls(p, l, "run", IF l = "python" /\ Built(l) THEN "use"
                     ELSE IF l \in SystemHas THEN "make" ELSE "look")

\* `skilllite runtime provision`, of what is not in the cache or, forced, anew.
Provision(p) == \E l \in Langs :
  ~Provisioned(l) /\ Calls(p, l, "provision", "look")
ProvisionAnew(p) == \E l \in Langs :
  Calls(p, l, "anew", IF runtime[l] = None THEN "look" ELSE "wipe")

Fails(p) == Ends(p) /\ UNCHANGED <<dirs, downloads, env, cleaning, counts>>
Resolved(p) == Goes(p, IF proc[p].op = "run" THEN "make" ELSE "provisioned")

-----------------------------------------------------------------------------
(* The runtime of a language. *)

\* remove_dir_all before a forced provisioning.
Wipe(p) ==
  /\ At(p, "wipe")
  /\ IF runtime[Lang(p)] = None THEN Ends(p) /\ UNCHANGED runtime
     ELSE \E d \in Removals(runtime[Lang(p)]) :
            /\ runtime' = [runtime EXCEPT ![Lang(p)] = d]
            /\ IF d = None THEN Goes(p, "look") ELSE UNCHANGED proc
  /\ UNCHANGED <<tree, downloads, env, cleaning, counts>>

\* Its error ends the call; what is gone by then stays gone.
WipeFails(p) ==
  /\ At(p, "wipe") /\ runtime[Lang(p)] # None
  /\ cut' = cut \cup {Lang(p)}
  /\ Ends(p)
  /\ UNCHANGED <<dirs, downloads, env, cleaning, calls, crashes, torn, swept>>

Look(p) ==
  /\ At(p, "look")
  /\ IF Provisioned(Lang(p)) THEN Resolved(p) ELSE Goes(p, "stale")
  /\ UNCHANGED <<dirs, downloads, env, cleaning, counts>>

\* The user does not want the download.
Declined(p) == At(p, "look") /\ proc[p].op = "run" /\ ~Provisioned(Lang(p)) /\ Fails(p)

\* What earlier attempts left, but for Python's unpacked tree.
RemoveStale(p) ==
  LET l == Lang(p) IN
  /\ At(p, "stale")
  /\ \/ /\ runtime[l] # None
        /\ \E d \in Removals(runtime[l]) : runtime' = [runtime EXCEPT ![l] = d]
        /\ UNCHANGED <<tree, proc>>
     \/ /\ runtime[l] = None /\ l = "node" /\ tree[l] # None
        /\ \E d \in Removals(tree[l]) : tree' = [tree EXCEPT ![l] = d]
        /\ UNCHANGED <<runtime, proc>>
     \/ /\ runtime[l] = None /\ (l = "node" => tree[l] = None)
        /\ Goes(p, "create") /\ UNCHANGED dirs
  /\ UNCHANGED <<downloads, env, cleaning, counts>>

FreeFiles == {f \in Files : (\A l \in Langs : archive[l] # f) /\ \A p \in Procs : proc[p] # None => proc[p].file # f}

\* The archive is created, or truncated if a file of that name is there.
Create(p) ==
  LET l == Lang(p) IN
  /\ At(p, "create")
  /\ \E f \in IF archive[l] # None THEN {archive[l]} ELSE FreeFiles :
       /\ archive' = [archive EXCEPT ![l] = f]
       /\ blocks' = [blocks EXCEPT ![f] = {}]
       /\ proc' = [proc EXCEPT ![p].pc = "download", ![p].n = 0, ![p].file = f]
  /\ UNCHANGED <<dirs, env, cleaning, counts>>

\* Mutation: one block too many.
ReceiveMore(p) ==
  /\ At(p, "download") /\ proc[p].n <= Cardinality(Parts)
  /\ blocks' = [blocks EXCEPT ![proc[p].file] = With(@, proc[p].n + 1)]
  /\ proc' = [proc EXCEPT ![p].n = @ + 1]
  /\ UNCHANGED <<dirs, archive, env, cleaning, counts>>

Receive(p) ==
  /\ At(p, "download") /\ proc[p].n < Cardinality(Parts)
  /\ \E b \in {proc[p].n + 1, -(proc[p].n + 1)} :
       blocks' = [blocks EXCEPT ![proc[p].file] = With(@, b)]
  /\ proc' = [proc EXCEPT ![p].n = @ + 1]
  /\ UNCHANGED <<dirs, archive, env, cleaning, counts>>

Received(p) ==
  /\ At(p, "download") /\ proc[p].n = Cardinality(Parts)
  /\ Goes(p, "verify")
  /\ UNCHANGED <<dirs, downloads, env, cleaning, counts>>

\* The connection fails, or breaks off: on to the mirror, then up.
DownloadFails(p) ==
  /\ At(p, "create") \/ At(p, "download")
  /\ IF proc[p].fallback THEN Ends(p)
     ELSE proc' = [proc EXCEPT ![p].pc = "create", ![p].fallback = TRUE, ![p].n = 0]
  /\ UNCHANGED <<dirs, downloads, env, cleaning, counts>>

\* Mutation: an archive that was received is trusted.
VerifyLength(p) ==
  /\ At(p, "verify") /\ archive[Lang(p)] # None
  /\ Goes(p, "extract") /\ UNCHANGED <<dirs, downloads, env, cleaning, counts>>

\* verify_sha256; Node's sum has to be fetched first.
Verify(p) ==
  LET l == Lang(p) IN
  /\ At(p, "verify")
  /\ \/ archive[l] # None /\ blocks[archive[l]] = Parts /\ Goes(p, "extract") /\ UNCHANGED archive
     \/ archive[l] # None /\ blocks[archive[l]] # Parts /\ Ends(p) /\ archive' = [archive EXCEPT ![l] = None]
     \/ (archive[l] = None \/ l = "node") /\ Ends(p) /\ UNCHANGED archive
  /\ UNCHANGED <<dirs, blocks, env, cleaning, counts>>

OpenArchive(p) ==
  /\ At(p, "extract")
  /\ IF archive[Lang(p)] = None THEN Ends(p)
     ELSE proc' = [proc EXCEPT ![p].pc = "unpack", ![p].file = archive[Lang(p)]]
  /\ UNCHANGED <<dirs, downloads, env, cleaning, counts>>

\* Block after block; one that is not there is an error and what is out stays.
Unpack(p) ==
  LET l == Lang(p)
      next == {b \in blocks[proc[p].file] : b \in {proc[p].n + 1, -(proc[p].n + 1)}} IN
  /\ At(p, "unpack") /\ proc[p].n < Cardinality(Parts)
  /\ \/ next = {} /\ Ends(p) /\ UNCHANGED tree
     \/ \E b \in next : /\ tree' = [tree EXCEPT ![l] = With(@, b)]
                        /\ proc' = [proc EXCEPT ![p].n = @ + 1]
  /\ UNCHANGED <<runtime, downloads, env, cleaning, counts>>

DropArchive(p) ==
  /\ At(p, "unpack") /\ proc[p].n = Cardinality(Parts)
  /\ archive' = [archive EXCEPT ![Lang(p)] = None]
  /\ Goes(p, "place")
  /\ UNCHANGED <<dirs, blocks, env, cleaning, counts>>

\* The tree takes the place of the runtime; Node's may be missing, unnoticed.
Place(p) ==
  LET l == Lang(p) IN
  /\ At(p, "place")
  /\ \/ /\ IF l = "python" THEN ~Holds(tree[l], Interpreter) /\ Ends(p)
           ELSE tree[l] = None /\ Resolved(p)
        /\ UNCHANGED dirs
     \/ /\ IF l = "python" THEN Holds(tree[l], Interpreter) ELSE tree[l] # None
        /\ IF runtime[l] # None
           THEN /\ \E d \in Removals(runtime[l]) : runtime' = [runtime EXCEPT ![l] = d]
                /\ UNCHANGED <<tree, proc>>
           ELSE /\ runtime' = [runtime EXCEPT ![l] = tree[l]] /\ tree' = [tree EXCEPT ![l] = None]
                /\ Resolved(p)
  /\ UNCHANGED <<downloads, env, cleaning, counts>>

-----------------------------------------------------------------------------
(* The environment of a skill. *)

\* The directory, and the virtual environment or node_modules in it.
Make(p) ==
  LET l == Lang(p) IN
  /\ At(p, "make")
  /\ \/ ~proc[p].fresh /\ Goes(p, "use") /\ env' = [env EXCEPT ![l] = Made(@)]
     \/ proc[p].fresh /\ Works(l) /\ Goes(p, "install") /\ env' = [env EXCEPT ![l] = Made(@) \cup {Mark}]
     \/ proc[p].fresh /\ Ends(p) /\ env' = [env EXCEPT ![l] = Made(@)]
  /\ UNCHANGED <<dirs, downloads, cleaning, counts>>

Install(p) ==
  LET l == Lang(p)
      left == Packages \ Made(env[l]) IN
  /\ At(p, "install") /\ left # {}
  /\ \E x \in left : env' = [env EXCEPT ![l] = Made(@) \cup {x}]
  /\ UNCHANGED <<dirs, downloads, cleaning, proc, counts>>

\* pip or npm is content; it does not see what clean-env takes away behind it.
Installed(p) ==
  LET l == Lang(p) IN
  /\ At(p, "install")
  /\ \/ Packages \subseteq Made(env[l]) /\ torn' = torn \ {l}
     \/ ~(Packages \subseteq Made(env[l])) /\ p \in swept /\ torn' = torn \cup {l}
  /\ Goes(p, "use")
  /\ UNCHANGED <<dirs, downloads, env, cleaning, calls, crashes, cut, swept>>

InstallFails(p) ==
  /\ At(p, "install")
  /\ torn' = torn \cup {Lang(p)}
  /\ Ends(p)
  /\ UNCHANGED <<dirs, downloads, env, cleaning, calls, crashes, cut, swept>>

\* The skill runs, or the caller has its runtime.
Return(p) ==
  /\ At(p, "use") \/ At(p, "provisioned")
  /\ Ends(p)
  /\ UNCHANGED <<dirs, downloads, env, cleaning, counts>>

-----------------------------------------------------------------------------
(* clean-env. *)

Clean ==
  /\ \E l \in Langs : env[l] # None
  /\ calls < MaxCalls /\ calls' = calls + 1
  /\ cleaning' = cleaning \cup {l \in Langs : env[l] # None}
  /\ UNCHANGED <<dirs, downloads, env, proc, crashes, cut, torn, swept>>

\* Part of an environment goes, whatever skill runs in it or is being installed.
RemoveEnv(l) ==
  /\ l \in cleaning /\ env[l] # None
  /\ \E d \in Removals(env[l]) :
       /\ env' = [env EXCEPT ![l] = d]
       /\ cleaning' = IF d = None THEN cleaning \ {l} ELSE cleaning
       /\ torn' = IF d = None THEN torn \ {l} ELSE torn \cup {l}
  /\ swept' = swept \cup {p \in Procs : proc[p] # None /\ Lang(p) = l}
  /\ UNCHANGED <<dirs, downloads, proc, calls, crashes, cut>>

\* It cannot be removed, or no further, or is gone; a kill leaves all that are left.
PassOver(l) ==
  /\ l \in cleaning /\ cleaning' = cleaning \ {l}
  /\ UNCHANGED <<dirs, downloads, env, proc, counts>>

-----------------------------------------------------------------------------

Crash(p) ==
  /\ proc[p] # None
  /\ crashes < MaxCrashes /\ crashes' = crashes + 1
  /\ cut' = IF At(p, "wipe") THEN cut \cup {Lang(p)} ELSE cut
  /\ torn' = IF At(p, "install") THEN torn \cup {Lang(p)} ELSE torn
  /\ Ends(p)
  /\ UNCHANGED <<dirs, downloads, env, cleaning, calls, swept>>

Start(p) == Run(p) \/ Provision(p) \/ ProvisionAnew(p)
Fetch(p) == Wipe(p) \/ WipeFails(p) \/ Look(p) \/ Declined(p) \/ RemoveStale(p) \/ Create(p) \/ Receive(p) \/ Received(p) \/ DownloadFails(p)
Settle(p) == Verify(p) \/ OpenArchive(p) \/ Unpack(p) \/ DropArchive(p) \/ Place(p)
Build(p) == Make(p) \/ Install(p) \/ Installed(p) \/ InstallFails(p) \/ Return(p)
CleanEnv == Clean \/ \E l \in Langs : RemoveEnv(l) \/ PassOver(l)

Next == CleanEnv \/ \E p \in Procs : Start(p) \/ Fetch(p) \/ Settle(p) \/ Build(p) \/ Crash(p)

Spec == Init /\ [][Next]_vars

-----------------------------------------------------------------------------
(* Properties. *)

Blocks == Parts \cup {-x : x \in Parts}
Dirs == (SUBSET Blocks) \cup {None}
CallRecords == [op : {"run", "provision", "anew"}, lang : Langs,
                pc : {"wipe", "look", "stale", "create", "download", "verify", "extract", "unpack", "place",
                      "provisioned", "make", "install", "use"},
                n : 0..Cardinality(Parts), file : Files \cup {None}, fallback : BOOLEAN, fresh : BOOLEAN]

ASSUME NoneAssumption ==
  /\ None \notin CallRecords \cup Files
  /\ \A d \in (SUBSET Blocks) \cup (SUBSET (Packages \cup {Mark})) : d # None

\* Types of the directories and the calls.
TypeOK ==
  /\ {runtime, tree} \subseteq [Langs -> Dirs]
  /\ archive \in [Langs -> Files \cup {None}] /\ blocks \in [Files -> Dirs \ {None}]
  /\ env \in [Langs -> (SUBSET (Packages \cup {Mark})) \cup {None}]
  /\ proc \in [Procs -> CallRecords \cup {None}]
  /\ calls \in 0..MaxCalls /\ crashes \in 0..MaxCrashes /\ cut \subseteq Langs
  /\ {cleaning, torn} \subseteq SUBSET Langs /\ swept \subseteq Procs

\* A runtime that looks provisioned is complete and undamaged, after any number
\* of failed downloads, damaged archives, errors and crashes, and whatever is
\* done to the other language.  Excepted are a forced removal that is under way
\* or was cut short.
ProvisionedIsWhole ==
  \A l \in Langs : Provisioned(l) =>
    \/ runtime[l] = Parts
    \/ l \in cut
    \/ \E p \in Procs : At(p, "wipe") /\ Lang(p) = l

\* Whoever was told that the runtime is there has a whole one, and a forced
\* provisioning repairs also what one that was cut short has left.
ResolvedIsWhole ==
  \A p \in Procs :
    /\ At(p, "provisioned") /\ proc[p].op = "anew" => runtime[Lang(p)] = Parts
    /\ At(p, "provisioned") \/ (At(p, "make") /\ Lang(p) \notin SystemHas) =>
         runtime[Lang(p)] = Parts \/ Lang(p) \in cut

\* What is found in the cache is whole, and so is what a caller is given.
RuntimesAreWhole == ProvisionedIsWhole /\ ResolvedIsWhole

\* What a skill runs in has its packages, whoever runs, installs and removes at
\* the same time, unless an installation of it failed or was killed or is another
\* process's and under way, or clean-env has taken something from it since the
\* call began or left it half removed.  A removal that comes to its end, or an
\* installation that does, puts right what was wrong.
BeingInstalled(l) == \E q \in Procs : At(q, "install") /\ Lang(q) = l
SkillHasPackages ==
  \A p \in Procs : At(p, "use") =>
    LET l == Lang(p) IN
    Packages \subseteq Made(env[l]) \/ l \in torn \/ p \in swept \/ BeingInstalled(l)
=============================================================================
