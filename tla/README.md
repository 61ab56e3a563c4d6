# SkillLite in TLA+

SkillLite is an agent for skills: a command line program and a Tauri desktop
application that let an LLM plan tasks, call sandboxed tools, keep long chats,
serve skills over MCP, hand tasks to other machines, and change their own
prompts, memory and skills between chats. This directory models the parts of it
whose correctness depends on the order in which things happen, checks them with
TLC and proves some of the results with TLAPS.

Paths below are relative to the repository. `agent/` stands for
`crates/skilllite-agent/src/`, `evolution/` for `crates/skilllite-evolution/src/`,
`executor/`, `sandbox/`, `commands/`, `core/` and `swarm/` for the `src/` of the
crate of that name, `mcp/` for `skilllite/src/mcp/`, `tauri/` for
`crates/skilllite-assistant/src-tauri/src/` and `bridge/` for
`tauri/skilllite_bridge/`.

    tlc -workers 2 -config MCAgentLoop.cfg MCAgentLoop
    tlapm AgentProofs.tla

## The system

One process runs the agent (`skilllite chat`, or `skilllite agent-rpc`, which
the desktop starts for every message and talks to in JSON lines). It holds a
`ChatSession`, which reads the history from disk, compacts it, and hands it to
the agent loop. The loop plans tasks, asks the LLM, runs its tool calls and
returns a text. Timers in the same process start evolution runs, and so does a
command the desktop's heartbeat starts; the heartbeat also starts the tick that
runs scheduled jobs. An MCP server offers scanning and running of skills to other
programs, and a swarm daemon passes tasks on to other machines. All processes of
a workspace share its files: transcripts, `sessions.json`, `feedback.sqlite`, the
schedule, the prompts, memory and skill trees; all processes of a user share the
runtimes and environments of skills. Nothing but SQLite's own transactions locks
them.

| Component | State | Operations | Talks to | Hard part | Correct when |
|---|---|---|---|---|---|
| Agent loop `agent/agent_loop/`, `agent/task_planner.rs` | plan, message list, ten counters, closing flag | plan, LLM reply, tool call, complete_task, update_task_plan, clarify, reflect | LLM, tool registry, user through an event sink | a dozen early exits, counters reset by different events, a history cut in four places | it returns; histories stay well formed; the plan behaves as a task list; calls stay within what the user granted |
| Chat session `agent/chat_session.rs`, `executor/transcript.rs`, `executor/session.rs` | daily transcript files, `sessions.json`, a cache with offsets | turn, /compact, /clear, full clear, memory flush | agent loop, disk shared with other processes | incremental reading across days, windows, other writers, crashes between two writes | cached history is what is on disk; one flush per cycle; a clear forgets |
| Desktop session list `bridge/sessions.rs`, `bridge/transcript.rs` | the same files | create, rename, delete | the agent's files | written from a second program; files found by a prefix of their names | it removes only its own session, and those whose names extend it |
| Desktop chat `bridge/chat.rs`, `agent/rpc.rs`, `ChatView.tsx` | three slots of the app, one call per message, the child's pipes, the view | send, confirm, clarify, stop, switch session | child process, reader thread, window events | threads, locks, pipes and a user who may do anything | an answer goes to the question it was given for; every chat ends; no child is left |
| Evolution run `evolution/run.rs`, `snapshots.rs`, `rollback.rs`, `audit.rs`, learners | a process-wide flag, log rows, snapshots, the evolved files | trigger, snapshot, learn, record, judge, roll back | LLM, database, files, other processes | reads that age over an LLM call, rollback while others write, pruning, errors halfway | a change is lost only by its own rollback or when a learner retires it; the flag comes back |
| Evolution backlog `evolution/scope.rs`, `growth_schedule.rs`, `commands/evolution.rs` | table of proposals, authorizations, daily counts | propose, select, execute, authorize, force | database shared by processes | keys, ids that are milliseconds, stale ids | what runs is what was asked for; a row follows its own runs |
| Skill synthesis `evolution/skill_synth/` | folders of pending, active and archived skills | generate, refine, test, repair, retire, confirm, reject, reset | LLM, the user, other processes | paths kept over an LLM call while the user moves the folder | nothing comes into use without the user; the limit is kept |
| MCP server `mcp/` | scan cache, confirmed skills | scan, execute, precheck, run skill | JSON-RPC client, skill folders, manifest | expiry, one-time ids, folders that change after their check | what is confirmed and checked was reviewed, and runs if the folder stays as it is |
| Heartbeat and scheduler `tauri/life_pulse.rs`, `core/schedule.rs`, `commands/schedule.rs` | running flag, child, schedule and its state file, the switch that enables it | beat, tick, turn, save | child process, cron, disk | overlapping ticks, midnight, failing jobs, a pipe | where it is enabled a due job runs, at its times, within its limits |
| Runtimes and environments `sandbox/env/` | a cache of interpreters, an environment per skill | download, verify, extract, place, install, clean | network, disk shared by processes | a failure or a crash at any step | what looks installed is whole |
| Swarm `swarm/`, `agent/.../delegate_swarm.rs` | known peers, tasks in their handlers | start, discover, route, poll, forward, execute | mDNS, HTTP, LLM, agent | stale peers, restarts, lost answers, a caller that leaves | a task does not go round, is not done twice without need, and ends |
| MCP client, tool registry, LLM clients | connections | call | other processes | I/O | |
| Stdio RPC, executor RPC | a request at a time or a pool | dispatch | files | order of replies | every request is answered |
| Gateway manager, channel server | a child, its port | start, stop | processes | restarts | one gateway at a time |
| Artifact store, network proxy, scenario fallback | blobs, tunnels, cool-downs | put, get, retry | network | failure of the other side | |
| Sandbox, scanners, core, file helpers, CLI, SDK | configuration | one-shot | OS | platform I/O | |

`PROJECT.json` lists every component with what is modelled of it, and under
`hazards` the lines where this code is hard to test.

## Modules

| Module | Models | With |
|---|---|---|
| `AgentLoop` | agent loop with its plan | `TaskList` (what it implements), `AgentProofs`, `MCAgentLoop` |
| `ChatSession` | chat session, transcripts, session store, desktop session list | `AgentProofs`, `MCChatSession` |
| `DesktopChat` | chat calls, reader, children, slots, view | `DesktopChatProofs`, `MCDesktopChat` |
| `EvolutionRun` | evolution runs, learners, snapshots, rollbacks | `EvolutionRunProofs`, `MCEvolutionRun` |
| `Backlog` | proposals, authorizations, budgets, growth trigger | `LifePulseProofs`, `MCBacklog` |
| `SkillSynth` | skills evolved by runs, repairs and the user | `SkillLifecycle` (what it implements), `SkillSynthProofs`, `MCSkillSynth` |
| `McpServer` | the MCP server's two calls and supply-chain checks | `McpStdin` (its reader), `McpServerProofs`, `MCMcpServer` |
| `Rhythm` | heartbeat, schedule, ticks, state file | `LifePulseProofs`, `MCRhythm` |
| `Environments` | runtimes and environments of skills | `EnvironmentsProofs`, `MCEnvironments` |
| `Swarm` | nodes, discovery, routing, forwarding | `SwarmProofs`, `MCSwarm` |

The boundaries between the modules are what the code's callers see. The loop is
one step in `ChatSession` (`AgentLoopFails`, `AppendAssistant`), and the turn of
a child in `DesktopChat` (`ChildAsks`, `ChildDone`), a turn of a tick in `Rhythm`
and a run of the agent in `Swarm` (`AgentEnds`); that it ends, which the fairness
of these assumes, is `Returns` of `AgentLoop`. A decision that a turn records is
`Decide` in `EvolutionRun` and `Backlog`. What the coordinator lets a run execute
is a choice in `EvolutionRun` and the matter of `Backlog`; the learner of skills
is a writer of one file in `EvolutionRun` and the matter of `SkillSynth`.

### AgentLoop, TaskList

`phase` is the place in `run_with_task_planning`: loop head, request sent,
inside a batch of tool calls, settling after it, leaving. `tasks` is the task
list, `window` the part of the history that the loop may still look at: nothing
reads or removes a message older than the last request. A message is a role, the
number of its tool calls and the kind of its text, as far as the loop tests it.
Every counter of `ExecutionState` and of the loop is a variable. One action is
one branch: `CallLLM`, `ContextOverflow`, `LLMError`, the reply kinds
(`ToolCalls`, `Nudge`, `Premature`, `FinalReply`, ...), one tool call
(`WorkCall`, `UpdatePlan`, `CompleteTask`, `AutoComplete`, `RefuseCompletion`,
`SkipCall`), the decisions after a batch (`StuckExit`, `TooManyFailures`,
`ClosePlan`, `ContinuePlan`) and `Finish`. Task ids wrap at `IdModulus`, 2^32 in
the code, because `task_id` is cast to `u32`. `TaskList` is what a user may
believe of the list he watches: the first open task is finished, or the open ones
are replaced by tasks with new ids; `ImplementsTaskList` maps the plan to it.
`AcknowledgementsTrue` compares what the loop tells the LLM of a completion with
the plan.

### ChatSession

An actor is a process with one `ChatSession`, or the desktop. A step is one
access to the disk or the end of one await; `fs::write` is a truncation and a
write, `writeln!` a line and its newline, and an actor may crash between any two
steps. What is read is a function from places, a file and a position in it, to
rows, and `Earlier` is the order in which the code concatenates the files: by
what follows the key and a dash in the name (`Suffix`), the date for a file of the
key itself, and files whose name goes on without a dash (`NamePrefix` but not
`DashPrefix`) first, in the order of the directory. A row
that is dropped leaves a gap, so a cache, a history and the files speak of the
same places. A process reads a file from its cached offset (`CatchUp`). A row
that follows one without its newline is glued to it, on a line that does not parse;
a file with such a line in its unread part (`Broken`) ends the read (`CaughtUp`), and
so it does for a process that starts, but not for one that had read the first of the
two rows: that one gets what stands in the files (`Standing`). Otherwise what precedes the last
summary and what exceeds the window is dropped (`FromLastSummary`, `InWindow`).
Transcripts of the time before daily files (`key.jsonl`) are not modelled.
`todo` are the files that a full clear has still to archive, oldest first. A save
of `sessions.json` writes the store as it was read, so two writers can lose each
other's entry in the model as they can in the code.

### DesktopChat

A chat is one `chat_stream` call, the thread that reads its child's output and
the child. The view, the stop command and the chats run side by side. The slots
of `ChatProcessState`, `ConfirmationState` and `ClarificationState` do not say
whose they are: a chat that offers a question replaces the sender in the slot, a
chat that ends takes whatever child it finds. The reader is merged with the
child's writes, since a FIFO pipe and a FIFO channel with one reader each lie
between them.

### EvolutionRun

A caller of `run_evolution` is a session's timer or trigger, or the forced
command. The content of a file is the set of runs whose changes it holds, so
that lost and rolled back changes show. Learners run in any order, the prompt
learner in two steps with the LLM's answer between them: in the first it retires
rules that do badly, of any runs, and reads the list it will extend (`ReadRules`), in
the second it writes it (`WriteRules`). Examples, memory and skills only gain, and
the instance for TLC leaves the memory learner out. Marks inside a rule (disabled,
reusable) are not modelled, so their writers (`cmd_disable`, the promotion of external
rules) are not either. A txn_id is a second,
two runs may share it. Of `evolution_log` the version of the newest row is kept,
which is all that `check_auto_rollback` can see. What the metrics ask for is a
choice.

### Backlog

A row of `evolution_backlog` is found by its dedupe key; a key stands for source,
scope and risk. Every process has its own connection and nothing is in a
transaction, so inserting, selecting, marking and recording a run are steps that
interleave. Ids come from a clock in milliseconds that two proposals may share.
`Judge` is the coordinator with the policy runtime, `Authorize` the desktop's
command, which stores the authorization and queues a row in one step. A run ends
with changes, without, or is killed. Acceptance windows, and the figures proposals
are ranked by, are left out: the choice among the candidates is open.

### SkillSynth, SkillLifecycle

A step of a run, of `repair-skills` or of the user ends where it awaits the model
or a test; a folder is what it has (`SKILL.md`, a script, `.meta.json`) and is
found by its path again when the answer comes. The three files of a skill are
written in one step, since nothing awaits between them. What a test or the model
says is a choice. Call counts stay zero, because nothing calls
`track_skill_usage`, so `refine_weakest_skill` finds nothing and is left out.
`SkillLifecycle` is the promise to the user: proposed, accepted or dropped,
retired; `ImplementsLifecycle` maps the folders to it.

### McpServer, McpStdin

Requests are handled one at a time; a version is the content of a whole skill
folder, and `HashOf` the hash `compute_skill_hash` makes of a part of it. Folders
and the manifest change between any two steps, also between the check of a skill
and its start, which waits for its environment (`starting`); what starts is the
folder as it is then found, and nothing looks at it again. A restart forgets
what the process held. `issued` and `spent` remember what each scan id was given
for and how often it was accepted. `SKILL.sig` is never valid, as the server has
no key for it. `McpStdin` is `read_line_limited` with the loop around it: a step is
one `fill_buf`, which makes bytes available up to any place of the input, and `got`
is what the calls returned, to be compared with the lines the input has.

### Rhythm

A tick reads both files and the clock in one step (`Load`). It ends there if the
schedule's version is not 1, if nothing is due, or if `SKILLLITE_SCHEDULE_ENABLED` is
not set or there is no API key (`ready`, which the user edits in `.env`:
`SaveSettings`); the heartbeat asks for none of these but what is due. Else it runs its due jobs one
by one, and saves the state after each: a truncation and a write. What is due is a
set of positions in the plan, of which the least comes first. Ticks come from
the heartbeat, at most one at a time, and from cron. `done` is the history of
successful turns; `SchedulesKept` speaks of it until two ticks overlapped or a
record was lost (`spoiled`), which the code does not guard against. Time is an
integer and a day `DayLength` long. The growth arm of the heartbeat is a forced
run of `Backlog`.

### Environments

The cache has a runtime per language, an archive and the place it is unpacked to;
a runtime and an archive have two parts, the interpreter and the rest. A download
is received block by block and may break off or be damaged; the checksum that is
compared comes from the vendor, Node's from the mirror that also gives the
archive. One skill stands for those of its language. `skilllite clean-env` is a
process of its own: it lists every environment (`Clean`) and removes them file by
file (`RemoveEnv`), whoever installs into them or runs from them, passing over what it
cannot remove; it may be killed. A forced provisioning may fail in the middle of
its removal (`WipeFails`). Histories say what `SkillHasPackages` excepts: `torn`, what a
failed or killed installation has left or a removal not finished, and `swept`, calls
whose environment clean-env has taken. The removal of leftovers whose failure the
code ignores is taken to succeed. The playwright step, parsing
of dependency files and the order of `mkdir` are left out.

### Swarm

A peer is an instance of a daemon: a restart makes a new one at the old address,
with whatever capabilities it is started with, and the old record stays in the
views of others until it expires (`Forget`). A call is one POST /task in the
handler of its node, with the peers it knew when the task came in. `Received`
routes at once if capabilities are given; otherwise the model is asked first
(`Infer`). `Poll` is one GET /can-do, `Forward` one POST to a peer, which begins a
call there; `NoAnswer` is the timeout of 120 s, a lost answer, or a peer that
stopped. A caller that gives up makes its callee's caller `Gone`; `Drop` is the end
of such a handler, while an agent that already runs goes on. `executed` and
`failures` are histories.

## Runs

| Run | Question | Bounds |
|---|---|---|
| `agent_loop` | well-formed requests, call budget, true acknowledgements, the task list, return | no plan or two tasks, 3 iterations, batches of 2, one replanned task, one approval, one retry after an overflow, all counters small but above one |
| `chat_session` | cache, window, flush cycle, counts, full clear; two writers beside the desktop; whose transcripts a deletion takes | sessions default, work, worktree and work-2; one process on work-2, 4 operations, 2 days, one crash; or two on worktree and the desktop, 3 operations, in which agent loops answer |
| `desktop_chat` | consent, refusal, children, warnings, end | 2 chats, 2 sessions, 2 questions each, 3 invalid lines |
| `evolution_run` | flag, snapshots, changes, decisions, end | 2 timers of one process, 3 runs without the memory learner, 2 seconds, 2 decisions, one change of mind of the metrics, one snapshot kept |
| `backlog` | which proposal a run takes, what its row says | 2 processes, a key of each kind, 3 ids, 2 days, one abort |
| `backlog_budget` | refutes `BudgetHolds` | one process, one key, a budget of two |
| `skill_synth` | the limit, the life of a skill | 2 runs and a repair command, 2 names, a limit of one, 2 starts, one day |
| `skills_decided` | refutes `OnlyGenerationAdds` | the same |
| `mcp_server` | reviews, scan ids, supply-chain block, framing of lines | 2 skills, 4 versions of which two share a hash, 2 scan ids, one edit, one restart; inputs up to 6 bytes with a limit of 2 |
| `rhythm` | one child, times, intervals, gap and daily limit; due jobs run where scheduling is enabled | 2 processes, 2 schedules with the three kinds of jobs and one of version 2, a switch, 4 units of time in days of two, one incident |
| `environments` | runtimes are whole, skills have their packages | 2 processes, each with a language, and clean-env on both; one package, 4 calls, one crash |
| `swarm` | no return, no needless run, end | 3 nodes of which 2 are announced, 3 instances, one task with given or inferred capabilities, one tag |

Why the bounds are enough. The loop's limits are 50 iterations, 15 calls a task,
8 stuck rounds; what matters is that each can be reached before, after and
together with the others, and 3 iterations with batches of two calls reach each.
Two operations after a compaction and a day change are what a stale offset or a
count needs to show; the compaction thresholds are scaled with the window. Two
chats and two questions are the smallest case in which an answer can reach the
wrong question. Three runs are a run, one that meets its flag or its snapshot,
and one that finds what both left; two seconds let two runs share a txn_id or
not. Two processes and three ids let a stale id, a shared id and a fresh one meet
on a row. Two runs with a limit of one are the case in which both have asked; a
repair that is open while the user decides needs one command. An edit, a restart
and an expiry may fall before, between and after the two calls of the MCP server,
and two scan ids let one stand for another. Four units of time in days of two reach
midnight, a missed time and the second slot of a day. Each failure of a download or
an installation, followed by three more calls of which one may be clean-env, shows
what it left. Three instances
let a peer stop, return with other capabilities and be known as both; three calls
at a time are all such an instance makes, as four give the same states. What
bounds an instance rather than the code is marked `bound` where the module
declares it. `chat_session` puts three scenes in one run (`MCSpec`), which share
the module and nothing else: a process alone; two processes beside a desktop that
deletes nothing; and a desktop that deletes sessions as well and starts a process
for each message, as it does for its own chats. A process that outlives the
deletion of its session is left out, since the code is wrong there (see below);
compaction counts are claimed of a session with one process only (`HoldsAlone`).

Each type invariant is checked in a run, or proved, or both. Every property of a
passing run is paired in `PROJECT.json` with a mutation of a definition, kept
beside that definition in the module, that makes TLC refute it.

### Fairness

`AgentLoop`: weak fairness of the whole loop. The runtime polls it, an LLM
request has a timeout, and an unanswered clarification is answered by the event
sink. It says nothing of which reply the LLM gives, so `Returns` holds against
every LLM but one that answers the closing turn with tool calls for ever.

`DesktopChat`: weak fairness of each chat's thread, of each child, of a stop that
has begun and of the user's answers to the cards of a chat he has not stopped.
A child's crash and the user's other acts are not fair.

`EvolutionRun`: weak fairness of each caller inside a run, as local work ends and
the HTTP client gives up on the model after 300 s. Starting a run is not fair.

`Rhythm`: weak fairness of the heartbeat thread, which sleeps a fixed time, and of
each tick, whose turns end because the agent loop returns. Time, cron, edits and
quits are not fair. `DueJobsRun` asks for nothing while scheduling is disabled, as it is
by default, or the schedule's version is not 1. It assumes a desktop that works in
the workspace and turns that print less than a pipe holds; both are constants, so the
run says nothing of a tick that hangs on a full pipe, and TLC refutes the property
when a turn prints more.

`Swarm`: weak fairness of each call's handler. A peer is polled for 3 s, tried for
120 s, the model asked for 15 s, and a run of the agent ends. Nodes, clients and
mDNS are not fair. The instance has one tag: with two, a task without given
capabilities may be handed on from guess to guess by nodes that each know a tag
the others lack, as nothing counts its hops; that such a chain dies when its first
caller times out depends on how fast connections close, which fairness does
not say.

The other modules have no liveness property: a turn ends if the loop does, and a
command if the processes it waits for do.

Deadlock is checked in `agent_loop`, `chat_session`, `desktop_chat`,
`evolution_run` and `mcp_server`. Where everybody may be idle these have an explicit step
that is enabled only then (`Rest`, `Returned`), so a state in which somebody
is stuck halfway is reported. In `Rhythm`, `Backlog`, `Environments`, `SkillSynth`
and `Swarm` the bounds end the work of everybody, and a state without a step is
no fault; that nobody is stuck is `DueJobsRun` and `CallsEnd` where it is asked.

## Where the code differs from what it says

Shown by a run:

1. The daily budget of low-risk executions counts rows of the backlog, which has
   one row per key: the same proposal runs any number of times (`backlog_budget`).
2. A repair writes its fix by the path it started from, and `write_file` makes the
   folder again: a skill the user has just confirmed or rejected is pending again
   (`skills_decided`).

Met while modelling, without a run of their own. Some of them the properties
above except, by a history variable or the choice of a constant:

- Agent loop: three failed `complete_task` calls complete a task without any tool
  having run, as they count themselves (`agent_loop/execution.rs:153`, `:430`);
  the loop may leave without a closing answer when the stuck limit and an automatic
  completion meet (`agent_loop/mod.rs:870`); ids of replanned tasks wrap at 32 bits.
- Chat session: after a compaction the transcript holds the summary behind the
  messages that were to be kept, and the next turn reads only what follows it
  (`chat_session.rs:672`); two processes on one session count its compactions
  wrong; a process that holds a session while the desktop deletes it takes the new
  file for the old one as soon as it is as long as what was read, although a
  shorter one is noticed ("File rotation/truncation", `chat_session.rs:208`), so
  that `HistoryIsReplay` fails in a fourth operation; a full clear of a session
  archives the transcripts of every session whose name begins with its name
  (`executor/transcript.rs:340`), and deleting a session from the desktop removes those
  of every session whose name is its name, a dash and more: deleting `work` takes
  `work-2` along (`bridge/transcript.rs:62`, `bridge/sessions.rs:247`), which
  `OwnTranscriptsCleared` excepts; after a crash between a row and its newline, or with
  two writers, two rows share a line that does not parse, and every process that starts
  on the session fails while one that was running reads on
  (`executor/transcript.rs:262`, `:275`); renaming the default session before its first chat makes an entry the
  agent cannot parse, and no chat of the workspace starts any more
  (`sessions.rs:203`).
- Desktop chat: a stop between the spawn of the child and its entry in the slot
  kills nothing (`bridge/chat.rs:420`); two chats at once answer each other's
  questions, as the slots are the app's (`bridge/chat.rs:415`).
- Evolution: a rule that the user disables while the prompt learner waits for the
  model is enabled again by the list it writes (`prompt_learner.rs:124`,
  `commands/evolution.rs:305`); rules that it has retired or written stay so, but are
  not recorded, if it fails afterwards (`prompt_learner.rs:95`);
  the flag that keeps runs apart belongs to a process, while the
  heartbeat starts runs in another (`run_state.rs:7`); a rollback takes the newest
  row whatever its version is (`rollback.rs:69`); a run started for an authorized
  capability may carry out another proposal, because the command removes the id
  from its environment before the run reads it (`authorize.rs:50`,
  `commands/evolution.rs:576`); `track_skill_usage` is "called from agent_loop"
  (`skill_synth/scan.rs:42`) but nobody calls it.
- MCP server: a skill's folder is checked before its environment is built and not
  after, and at Level 3 the runner skips its own precheck, so an edit in between starts
  content that nobody reviewed (`mcp/handlers.rs:434-466`), which `RunsAreReviewed`
  excepts; confirmed code asks again at a terminal that a pipe does not have, so
  it is refused (`mcp/scan.rs:402` against `mcp/mod.rs:17`).
- Heartbeat: with scheduling disabled, which is the default, a due job stays due, and
  every beat starts a tick that skips it
  (`commands/schedule.rs:75-84`); so it is with a schedule of another
  version (`:32`) or without an API key (`:86`); a tick that prints more than a pipe holds never ends and no job runs
  after it (`life_pulse.rs:207`); a tick works in the desktop's directory, not in
  the workspace (`life_pulse.rs:208`).
- Environments: after a failed installation the next call takes the environment as
  built (`env/builder.rs:174`), and so does a call while another process is still
  installing; `clean-env` removes environments under running and installing
  processes (`commands/env.rs:92-104`); two processes that provision one language remove
  each other's files (`env/runtime_deps.rs:720`).
- Swarm: peers are told apart by their port alone, so of two machines on the default
  port only one is tried ("rest are fallbacks when primary fails",
  `routing.rs:25`, against `routing.rs:51`); /status says busy for ever after a
  caller has left, and idle while one of two agents still runs
  (`handler.rs:329`); `delegate_to_swarm` gives up after 5 s and works locally while
  the swarm goes on.

## Theorems

TLAPS proves, for every value of the constants that satisfies the modules'
assumptions:

- `AgentProofs!TypeCorrect`. The invariant adds to the types that the window
  is never empty: most handlers look at its last message.
- `AgentProofs!BudgetHolds`: `CallBudget`. It is not inductive: a batch may
  begin with one call left and run to its end. `BudgetInv` bounds the extension
  by the approvals, and the total by what is granted plus one batch for each
  approval, and once more while a batch is running.
- `AgentProofs!InOrderHolds` and `KeptHolds`: completed tasks form a prefix
  of the plan and never change, if the plan starts that way. Replanning needs
  that an enumeration of a prefix of the naturals in order is the identity,
  which is proved by choosing a least counterexample.
- `AgentProofs!RefinesTaskList`: `ImplementsTaskList`, from the order and from
  distinct ids, which replanning keeps as long as ids do not wrap (`IdsFit`).
- `AgentProofs!RequestsAreWellFormed`: `RequestsWellFormed`. The invariant
  `Windowed` says where the one message with calls and its results stand in the
  window, how many results are outstanding while a batch runs, and that a window
  that is sent does not end with an assistant message.
- `AgentProofs!AcknowledgementsAreTrue`: `AcknowledgementsTrue`, from the order,
  distinct ids and `IdsFit`. Completing the current task changes the current id
  (`MarkMoves`), so the rest of the batch is skipped; and an acknowledgement is
  never carried into the next request, since it resets the failures that
  could let the loop go on without a new message (`Acks`).
- `EvolutionRunProofs!LateDecisionsKept`: `LateDecisionsStay`, for any processes.
- `EvolutionRunProofs!TypeCorrect` and `FlagHolds`: the flag of each process is
  up exactly while one of its runs holds it, for any number of processes and
  callers, errors and exits included. `FlagIsHeld` is inductive with the types.
- `EvolutionRunProofs!SnapshotKept` and `ChangesKept`, if all callers live in one
  process (`OneProcess`): a run finds its snapshot directory until it ends, and
  a file loses a change only by the rollback of that very run, or because a prompt
  learner retires rules of it in its own step. The invariant
  `ChangesInv` says that (1) the latest snapshot differs from the files by the
  changes of its own run at most, (2) a newest log row with a version names a run
  at least as late as every directory, (3) the one run that is dated has the
  latest txn_id, and its newest versioned row is its own, and (4) while the
  prompt learner waits, the list it read has everything but what it retired and that
  run's own changes. From the flag comes that only one run is dated; the rollback check
  that the chat session does without the flag is covered by (1) and (2). With
  two processes `OneProcess` fails, and so does the argument.
- `McpServerProofs!TypeCorrect`, and `GateHolds`: `RunsAreReviewed`, which says of a
  skill that starts that what was checked had been reviewed, and that so is what is
  found in the folder, unless a folder changed since the check. Reviews are
  facts about scan ids that were issued, so the invariant ties every live cache
  entry to what was issued under its id and says that ids not yet given are free.
  `TokensServe` (`TokensHold`) needs that an accepted entry leaves the cache at
  once; `SupplyChainBlockHolds` (`BlockHolds`) is a fact about each handler.
  `LinesAreFramed` (`ReaderFramesLines`), for `ReaderSpec` and inputs of every size:
  what the current call has consumed holds no newline, the call skips exactly when
  that is above the limit, and the call begins where the last answer ended.
- `SkillSynthProofs!TypeCorrect`, and `LimitKept`: `LimitHolds`, for any number of
  runs. It is not inductive: the skills that a run has asked for and not written
  have to be counted with those that exist, and an induction over the set of
  runs is replaced by cardinalities of unions (`CapInv`). `RefinesLifecycle`:
  `ImplementsLifecycle`, every step of every process maps to a step of
  `SkillLifecycle` or a stutter.
- `SwarmProofs!TypeCorrect`, for any nodes, tasks and capabilities. The invariant
  `Placed` adds that a call with a caller on another node is the only one of
  that caller, and that the caller waits for it.
  `TasksAreNeverHandedBack`: `NeverHandedBack`. No clock orders the nodes, but
  their starts are numbered, and what a node knows of an address is wrong only
  when an instance runs there that started later than the node (`ViewsFollow`).
  So each address a handler has chosen can do the task or has started later
  (`AbleOrLater`), and this extends to all calls a call came through, while the
  node that is asked cannot do it. `NoRunIsNeedless`: `NoNeedlessRun`, by counting
  the runs together with the calls that may still lead to one (`RunsPaid`).
- `EnvironmentsProofs!TypeCorrect`. `ProvisionedRuntimesAreWhole`: `RuntimesAreWhole`,
  if no two processes run skills of a common language (`Disjoint`), after any
  failures, damage and crashes. Without `Disjoint` it is false: the code takes no lock,
  and a process removes what another one is unpacking (see above). The invariant
  `Safe` says for each place of a call what it relies on of runtime, archive and
  temporary directory, and that archives of two languages differ.
  `SkillsRunWithTheirPackages`: `SkillHasPackages`, without that assumption, for any
  processes and beside clean-env. The invariant `Furnished` says of every environment,
  used or not, that one which shows its interpreter has its packages, but for
  the exceptions of the property; a call relies on an environment from
  the moment it has found or filled it.
- `DesktopChatProofs!TypeCorrect` and `WarningsAreSettled` (`WarningsSettled`), for
  all users: a warning is followed, in the queue or by what the reader still
  owes, by its recovery or by the end of the stream (`Settled`).
  `NoChildOutlivesItsCall` (`ChildrenReaped`) and `AgentActsOnWhatWasMeant`
  (`AnswersAreMeant`), for a user who is not in a hurry (`Unhurried`): he sends
  when no call is open, as one view makes him. The slots for the child and for
  the two kinds of questions do not say whose they are, and a second call that is
  opened in a new view takes them over. The invariant `Meant` says that one call is
  open (`Single`), that its child is in the slot, waited for or gone (`Owned`), that
  a question is the last event in its queue and the child waits for it
  (`Heard`), that the slot of its kind is that call's until it is told (`Told`), what
  may be written to the child (`Written`), and that a chat that is not
  stopped shows one card at most, for that question (`Carded`).
- `LifePulseProofs!TypeCorrect`, `RunsAreWarranted` (`RunsWarranted`) and
  `RowsFollowTheirRuns` (`RowsFollowRuns`), for any processes, keys, budgets and
  risks, and for all clashes of ids. The invariant `Sound` adds that no two rows
  share an id (`Tabled`) and that the log of authorizations agrees with the rows
  (`Logged`), which makes a stale id stand for one kind of proposal.

- `LifePulseProofs!RhythmTypeCorrect`, `OneChildHolds` (`OneChild`) and
  `SchedulesAreKept` (`SchedulesKept`), for any processes, schedules, day lengths
  and pipes. That the desktop has one tick at most rests on its flag: it is up
  exactly while the tick it started lives or has ended unnoticed (`Attended`).
  Schedules are kept if no plan lists a job twice (`JobsDiffer`), because a job
  that is listed twice is due twice in one tick. The invariant says that, until
  ticks overlap or a record is lost, the books a tick goes by, or else the file,
  are never behind the successes: the count of the day, the last run of each
  interval and the times of the day that were served (`Orderly`); days never
  go back, so a count that was begun for today is today's.
- `AgentProofs!SessionTypeCorrect`, for any processes, sessions, days, thresholds and
  name prefixes. The invariant adds for each control point where a save or an
  append may continue (`Routes`), that no file has more rows than were written
  (`Logs`), and that no more is cached than was read (`Memory`).
- `AgentProofs!OwnTranscriptsAreCleared` (`OwnTranscriptsCleared`), whatever the
  sessions are called: a clear and a deletion take files of their own session and of
  those whose names extend it, each by its own rule, and no others. The invariant
  `ArchivesNamed` says so of the files a full clear has listed.
- `AgentProofs!HistoriesAreFit` (`HistoryIsFit`), if no session's name begins with
  another one's (`NamesDiffer`) and each session has one process (`KeysDiffer`); other processes, the desktop and crashes do as
  they like. The invariant `Fit` of a process has three parts: what a full clear
  has left to archive is all there is (`Clearing`), after it neither the
  files nor the cache hold anything older (`Renewed`), and the history of a turn is a
  window, before and after both compactions and with the memory context at its
  end (`Given`). A compaction keeps the latest rows and puts one summary in the
  place of the newest row it drops, which is why the window survives it.
- `AgentProofs!HistoriesAreReplays` (`HistoryIsReplay`), if moreover the desktop
  deletes no session; for all windows, thresholds, days and operations, and
  crashes at any step. Where a crash has left a line that does not parse, what a running
  process reads is compared with the rows that stand in the files, as a
  process that starts fails. A row is visible unless it is covered: by a later summary,
  or by as many later messages as the window has. What was covered stays
  covered as rows are added, since the later rows that cover it are visible
  themselves (`SeenCovers`), and so dropping it from the cache changes nothing
  (`SeenAfterDrops`); this takes the finite set of later rows, not an induction over
  files. The invariant `Faithful` says that a cache holds the rows of the disk up to
  its offsets but for covered ones. It does not hold while a full clear removes
  files under its own cache, and no history is read before that cache is
  dropped (`Replaying`).
- `AgentProofs!CompactionsAreCounted` (`CompactionsCounted`), for one process and a
  desktop that only watches, for all thresholds and any turns, compactions and
  clears. `sessions.json` is saved whole by each program, so a second one may
  overwrite a count, and the invariant would not hold. `Counted` relates, on the
  way from one save to the next, the store the process is about to write to the
  transcript: the count is behind by the summary that was just appended, a
  flush turn that runs has none before it in its cycle, and from the header on the
  entry is there.

Only model-checked: liveness (`Returns`, `ChatEnds`, `FlagReleased`, `DueJobsRun`,
`CallsEnd`), which needs fairness and ENABLED; and what the theorems except by
their hypotheses: `ChatSession` with two
processes on one session or with names that extend one another, which the
`chat_session` run checks within its bounds.

## Not modelled, and why

What texts say, prompts, parsing, formats and display. The environment's
failures (a full disk, an unreadable database) unless the code handles them with
state. Within the modelled parts: the simple loop without planning, checkpoints,
how the first plan is made, memory files, attachments, the learners' judgement,
acceptance windows, the growth arm's timing, tokens of the swarm. Components
without a module are in the table above and in `PROJECT.json` with the reason:
most are parsers, scanners, forms, request handlers over one file, or I/O, whose
errors a test reaches and a model checker does not see. They are most of the
lines of this repository, which is why the map covers a small share of it:
what keeps state over time and shares it with others is the smaller part, and
that part is modelled.

## Plan

1. Proofs for two processes on one session: what of `HistoryIsReplay` survives
   when both append and only one of them compacts.
2. An abstract conversation (question, answer) that `DesktopChat` implements for a
   patient user, and an abstract request (asked, done at most once, answered) that
   `Swarm` implements while no answer is lost.
3. The gateway manager with its port and child; the scenario fallback of the desktop
   with its cool-downs; the pool of the stdio RPC.
4. The simple loop and checkpoints, acceptance windows of the backlog.
