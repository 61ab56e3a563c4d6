------------------------------ MODULE AgentLoop ------------------------------
(***************************************************************************)
(* The task-planning agent loop of skilllite-agent: run_with_task_planning *)
(* with its planning, execution, reflection and clarification parts        *)
(* (crates/skilllite-agent/src/agent_loop/) and the task list they drive   *)
(* (task_planner.rs).                                                      *)
(*                                                                         *)
(* The environment is the LLM (any reply, any arguments, overflow or       *)
(* error at any request), the tools (any outcome) and the user (approves   *)
(* or declines every clarification).  One action is one handler: the loop  *)
(* head, the receipt of a reply of each kind, one tool call, the decisions *)
(* taken after a batch, and the construction of the result.                *)
(*                                                                         *)
(* Message history.  No statement of the loop reads or removes a message   *)
(* older than the last LLM request, except to shorten tool results or to   *)
(* quote them, so `window' holds the last message of the request already   *)
(* sent and everything pushed since.  Message texts are abstracted to what *)
(* the loop tests: see Bodies.                                             *)
(***************************************************************************)
EXTENDS Integers, Sequences, FiniteSets

CONSTANTS
  MaxIterations,     \* config.max_iterations
  MaxCallsPerTask,   \* config.max_tool_calls_per_task
  FailureLimit,      \* config.max_consecutive_failures; 0 stands for None
  MaxClarifications, \* MAX_CLARIFICATIONS
  MaxStuck,          \* MAX_TOTAL_STUCK
  MaxNoTool,         \* max_no_tool_retries
  MaxOverflow,       \* MAX_CONTEXT_OVERFLOW_RETRIES
  AutoRecover,       \* PLANNING_CONTROL_AUTO_RECOVER_THRESHOLD
  MaxBatch,          \* bound: tool calls in one LLM reply
  MaxReplanTasks,    \* bound: tasks in one update_task_plan call
  InitialPlans,      \* plans the planning phase may produce
  TaskArgs,          \* values an LLM passes as task_id
  IdModulus,         \* 2^32 in the code: task_id is cast with `as u32'
  DocSkills          \* skills with documentation to disclose on first use

ASSUME LimitsAssumption ==
  /\ MaxIterations \in Nat \ {0} /\ MaxCallsPerTask \in Nat \ {0}
  /\ FailureLimit \in Nat /\ MaxClarifications \in Nat
  /\ MaxStuck \in Nat \ {0} /\ MaxNoTool \in Nat \ {0}
  /\ MaxOverflow \in Nat \ {0} /\ AutoRecover \in Nat \ {0}
  /\ MaxBatch \in Nat \ {0} /\ MaxReplanTasks \in Nat \ {0}
  /\ IdModulus \in Nat \ {0} /\ TaskArgs \subseteq Nat

Task == [id : Nat, completed : BOOLEAN]
ASSUME PlansAssumption == InitialPlans \subseteq Seq(Task)

(***************************************************************************)
(* What the loop distinguishes in a message text: absent or blank; short;  *)
(* long enough to count as a user-facing answer; the acknowledgement of    *)
(* complete_task, recognised and skipped by the summary helpers; a long    *)
(* text the loop or a control tool wrote itself (skip notice, error,       *)
(* replan receipt); and the fallback summary.                              *)
(***************************************************************************)
Bodies == {"none", "short", "long", "ack", "notice", "summary"}
Message == [role : {"system", "user", "assistant", "tool"},
            calls : Nat, body : Bodies]

Assistant(n, b) == [role |-> "assistant", calls |-> n, body |-> b]
ToolResult(b)   == [role |-> "tool", calls |-> 0, body |-> b]
User            == [role |-> "user", calls |-> 0, body |-> "none"]
System          == [role |-> "system", calls |-> 0, body |-> "none"]

CompletionTypes == {"success", "partial_success", "failure"}
BadId == -1  \* arguments that do not parse, or carry no integer task_id
CompleteArgs == [id : TaskArgs \cup {BadId}, ctype : CompletionTypes \cup {"absent"}]
NoResult == [completed |-> FALSE, ctype |-> "failure", response |-> "pending"]

VARIABLES
  phase,          \* "head", "call", "batch", "settle", "exit", "done", "failed"
  tasks,          \* planner.task_list
  window,         \* tail of `messages', see above
  effectiveMax,   \* effective_max, computed once from the initial plan
  iterations,     \* state.iterations, saturated at effectiveMax
  total,          \* state.total_tool_calls
  failed,         \* state.failed_tool_calls
  consecutive,    \* state.consecutive_failures
  failureSig,     \* state.last_failure_sig; <<>> when None
  repeat,         \* state.repeated_failure_count, saturated at AutoRecover
  taskCalls,      \* state.tool_calls_current_task
  replanned,      \* state.replan_count > 0
  worked,         \* ~state.tools_detail.is_empty()
  overflow,       \* state.context_overflow_retries
  completion,     \* state.completion_type
  extension,      \* state.tool_call_budget_extension
  clarifications, \* clarification_count
  noTool,         \* consecutive_no_tool
  stuck,          \* total_stuck_iterations
  afterSuccess,   \* after_successful_tool_batch
  closing,        \* pending_closing_user_reply
  documented,     \* documented_skills
  suppressed,     \* suppressed_planning_text of the current reply
  pending,        \* calls of the current batch not handled yet
  batchCalls,     \* new_calls of the current batch
  batchFailures,  \* new_failures of the current batch
  transitioned,   \* task_transitioned of the current batch
  result          \* the AgentResult

toolVars  == <<total, failed, consecutive, failureSig, repeat, taskCalls,
               replanned, worked, completion>>
batchVars == <<pending, batchCalls, batchFailures, transitioned, suppressed>>
loopVars  == <<clarifications, noTool, stuck, afterSuccess, closing>>
vars == <<phase, tasks, window, effectiveMax, iterations, overflow, extension,
          documented, result, toolVars, batchVars, loopVars>>

-----------------------------------------------------------------------------
(* The task list (TaskPlanner).                                            *)

Open(ts) == {i \in DOMAIN ts : ~ts[i].completed}
AllCompleted(ts) == ts # <<>> /\ Open(ts) = {}
Least(S) == CHOOSE i \in S : \A j \in S : i <= j

\* current_task: the first uncompleted task; only used where one exists.
CurrentIsLast(ts) == ts[CHOOSE i \in Open(ts) : \A j \in Open(ts) : j <= i]  \* mutant
Current(ts) == ts[Least(Open(ts))]

\* mark_completed: the first task with this id, whatever its state.
MarkCompleted(ts, id) ==
  LET hits == {i \in DOMAIN ts : ts[i].id = id}
  IN  IF hits = {} THEN ts
      ELSE [ts EXCEPT ![Least(hits)].completed = TRUE]

Completed(ts) == {i \in DOMAIN ts : ts[i].completed}

\* The one increasing enumeration of a set of indices, as a singleton set.
Orders(S) ==
  {f \in [1..Cardinality(S) -> S] :
     /\ \A k, l \in DOMAIN f : k < l => f[k] < f[l]
     /\ \A i \in S : \E k \in DOMAIN f : f[k] = i}

\* The largest id of a completed task, 0 if there is none, as a singleton set.
LargestIds(ts) ==
  LET ids == {ts[i].id : i \in Completed(ts)}
  IN  {m \in ids \cup {0} : \A i \in ids : i <= m}

\* n fresh tasks, numbered (u32) from the largest completed id plus one.
Fresh(top, n) == [k \in 1..n |-> [id |-> (top + k) % IdModulus, completed |-> FALSE]]

\* handle_update_task_plan: the completed tasks stay, in their order, and the
\* fresh ones follow.
Replan(ts, order, top, n) == [k \in DOMAIN order |-> ts[order[k]]] \o Fresh(top, n)

\* The plan as the transition test of a batch sees it: the current id or none.
CurrentId(ts) == IF Open(ts) = {} THEN {} ELSE {Current(ts).id}

EffectiveMax(plan) ==
  IF plan = <<>> THEN MaxIterations
  ELSE LET byTasks == Len(plan) * MaxCallsPerTask
       IN  IF MaxIterations <= byTasks THEN MaxIterations ELSE byTasks

BaseCap == effectiveMax * MaxCallsPerTask

-----------------------------------------------------------------------------
(* The message window.                                                     *)

Last(w) == w[Len(w)]
Sent == <<Last(window)>>

\* Indices of the tool results the history ends with.
Trailing(w) == {i \in DOMAIN w : \A j \in i..Len(w) : w[j].role = "tool"}
Usable == {"short", "long", "notice"}
Substantive == {"long", "notice"}
Greatest(S) == CHOOSE i \in S : \A j \in S : j <= i

TrailingWith(w, kinds) == {i \in Trailing(w) : w[i].body \in kinds}

\* pick_substantive_trailing_tool_content: the text quoted to the user.
PickTrailing(w) ==
  IF TrailingWith(w, Substantive) # {}
  THEN w[Greatest(TrailingWith(w, Substantive))].body
  ELSE IF TrailingWith(w, Usable) # {} THEN "short" ELSE "none"

\* final_response_from_assistant_or_tools, on the part of the history kept.
FinalText(w) ==
  LET asst == {i \in DOMAIN w : w[i].role = "assistant"}
      said == IF asst = {} THEN "none" ELSE w[Greatest(asst)].body
  IN  IF said # "none" THEN said ELSE PickTrailing(w)

(***************************************************************************)
(* Clarification (try_clarify).  Below the limit the user may approve, and *)
(* may add a hint, pushed as a user message; at the limit, or if the user  *)
(* stops, the request is declined and nothing changes.                     *)
(***************************************************************************)
ApprovedUncounted(w) ==  \* mutant: the count is not incremented
  /\ clarifications < MaxClarifications
  /\ UNCHANGED clarifications
  /\ window' \in {w, Append(w, User)}
  /\ phase' = "head"

Approved(w) ==
  /\ clarifications < MaxClarifications
  /\ clarifications' = clarifications + 1
  /\ window' \in {w, Append(w, User)}
  /\ phase' = "head"

Declined(w) ==
  /\ UNCHANGED clarifications
  /\ window' = w
  /\ phase' = "exit"

-----------------------------------------------------------------------------
(* Planning phase done: the loop is about to start.                        *)
Init ==
  /\ tasks \in InitialPlans
  /\ effectiveMax = EffectiveMax(tasks)
  /\ phase = "head" /\ window = <<User>> /\ result = NoResult
  /\ iterations = 0 /\ overflow = 0 /\ extension = 0 /\ documented = {}
  /\ total = 0 /\ failed = 0 /\ consecutive = 0 /\ failureSig = <<>> /\ repeat = 0
  /\ taskCalls = 0 /\ replanned = FALSE /\ worked = FALSE /\ completion = "success"
  /\ clarifications = 0 /\ noTool = 0 /\ stuck = 0
  /\ afterSuccess = FALSE /\ closing = FALSE /\ suppressed = FALSE
  /\ pending = 0 /\ batchCalls = 0 /\ batchFailures = 0 /\ transitioned = FALSE

(***************************************************************************)
(* Loop head.  The iteration limit does not apply to the closing reply.    *)
(***************************************************************************)
CallLLM ==
  /\ phase = "head"
  /\ closing \/ iterations < effectiveMax
  /\ iterations' = IF iterations < effectiveMax THEN iterations + 1 ELSE iterations
  /\ phase' = "call"
  /\ UNCHANGED <<tasks, window, effectiveMax, overflow, extension, documented,
                 result, toolVars, batchVars, loopVars>>

IterationLimit ==
  /\ phase = "head"
  /\ ~closing /\ iterations >= effectiveMax
  /\ \/ Approved(window) /\ iterations' = 0
     \/ Declined(window) /\ UNCHANGED iterations
  /\ UNCHANGED <<tasks, effectiveMax, overflow, extension, documented, result,
                 toolVars, batchVars, noTool, stuck, afterSuccess, closing>>

(***************************************************************************)
(* Replies (call_llm_with_recovery and the body of the loop).              *)
(***************************************************************************)
\* Context overflow: tool results are shortened and the loop goes round
\* again, until the retries are used up and the error is returned.
ContextOverflow ==
  /\ phase = "call"
  /\ overflow' = overflow + 1
  /\ phase' = IF overflow' >= MaxOverflow THEN "failed" ELSE "head"
  /\ UNCHANGED <<tasks, window, effectiveMax, iterations, extension, documented,
                 result, toolVars, batchVars, loopVars>>

\* Any other LLM error, or a response without choices, leaves the loop by `?'.
LLMError ==
  /\ phase = "call"
  /\ phase' = "failed"
  /\ UNCHANGED <<tasks, window, effectiveMax, iterations, overflow, extension,
                 documented, result, toolVars, batchVars, loopVars>>

Reply ==
  /\ phase = "call"
  /\ overflow' = 0
  /\ UNCHANGED <<effectiveMax, iterations, extension, result>>

\* Tool calls in the closing turn are not recorded: the model is asked again.
ClosingToolCalls ==
  /\ Reply /\ closing
  /\ window' = Append(Sent, User)
  /\ phase' = "head"
  /\ UNCHANGED <<tasks, documented, toolVars, batchVars, loopVars>>

\* A reply with n calls; its text is dropped while tasks are open.
Suppresses(text) == text # "none" /\ Open(tasks) # {}
CallMessage(n, text) == Assistant(n, IF Suppresses(text) THEN "none" ELSE text)

\* inject_progressive_disclosure: the reply named skills not yet documented, so
\* it is taken back and the documentation is pushed instead.  No call ran,
\* which the loop counts as a batch that was not all failures.
DisclosureKeepsCalls == Sent \o <<Assistant(1, "none"), User>>  \* mutant: no pop
DisclosureWindow == Append(Sent, User)

Disclosure ==
  /\ Reply /\ ~closing
  /\ \E named \in SUBSET (DocSkills \ documented) :
       /\ named # {}
       /\ documented' = documented \cup named
  /\ window' = DisclosureWindow
  /\ noTool' = 0 /\ stuck' = 0 /\ afterSuccess' = FALSE
  /\ phase' = "head"
  /\ UNCHANGED <<tasks, toolVars, batchVars, clarifications, closing>>

ToolCalls(n, text) ==
  /\ Reply /\ ~closing
  /\ window' = Append(Sent, CallMessage(n, text))
  /\ suppressed' = Suppresses(text)
  /\ noTool' = 0
  /\ pending' = n /\ batchCalls' = 0 /\ batchFailures' = 0 /\ transitioned' = FALSE
  /\ phase' = "batch"
  /\ UNCHANGED <<tasks, documented, toolVars, clarifications, stuck, afterSuccess, closing>>

-----------------------------------------------------------------------------
(* Replies without tool calls (reflect_planning and its caller).           *)

\* What the reply adds to the history: nothing at all if it has neither text
\* nor reasoning.
TextMessages(text) ==
  IF text = "none" THEN {<<>>, <<Assistant(0, "none")>>} ELSE {<<Assistant(0, text)>>}

\* Text after a successful batch is kept, and complete_task is asked for.
SoftNudge(text) ==
  /\ Reply /\ Open(tasks) # {}
  /\ afterSuccess /\ text # "none"
  /\ window' = Sent \o <<Assistant(0, text), User>>
  /\ afterSuccess' = FALSE
  /\ phase' = "head"
  /\ UNCHANGED <<tasks, documented, toolVars, batchVars, clarifications, noTool, stuck, closing>>

\* Any other text is popped while tasks are open, and the model is nudged.
Premature(text) ==
  /\ Reply /\ Open(tasks) # {}
  /\ ~(afterSuccess /\ text # "none")
  /\ afterSuccess' = FALSE
  /\ UNCHANGED <<tasks, documented, toolVars, batchVars, closing>>

Nudge(text) ==
  /\ Premature(text)
  /\ noTool + 1 < MaxNoTool
  /\ noTool' = noTool + 1
  /\ stuck' = stuck + 1
  /\ IF stuck' >= MaxStuck THEN window' = Sent /\ phase' = "exit"
                           ELSE window' = Append(Sent, User) /\ phase' = "head"
  /\ UNCHANGED clarifications

NoProgress(text) ==
  /\ Premature(text)
  /\ noTool + 1 >= MaxNoTool
  /\ \/ Approved(Sent) /\ noTool' = 0 /\ stuck' = 0
     \/ Declined(Sent) /\ noTool' = noTool + 1 /\ UNCHANGED stuck

\* With every task done, or no plan at all, a text reply ends the loop.  In the
\* closing turn a blank reply is replaced by the fallback summary.
FinalReply(text) ==
  /\ Reply /\ Open(tasks) = {}
  /\ IF closing /\ text = "none"
     THEN window' = Append(Sent, Assistant(0, "summary"))
     ELSE \E pushed \in TextMessages(text) : window' = Sent \o pushed
  /\ closing' = FALSE /\ afterSuccess' = FALSE
  /\ phase' = "exit"
  /\ UNCHANGED <<tasks, documented, toolVars, batchVars, clarifications, noTool, stuck>>

-----------------------------------------------------------------------------
(* One tool call of the batch (execute_tool_batch_planning).               *)

Calling == phase = "batch" /\ pending > 0

\* After the current task changed, the remaining calls are answered with a
\* notice and are not counted.
SkipCall ==
  /\ Calling /\ transitioned
  /\ window' = Append(window, ToolResult("notice"))
  /\ pending' = pending - 1
  /\ phase' = IF pending = 1 THEN "settle" ELSE "batch"
  /\ UNCHANGED <<tasks, effectiveMax, iterations, overflow, extension, documented, result,
                 toolVars, batchCalls, batchFailures, transitioned, suppressed, loopVars>>

\* A task transition: the current task of the new plan has another id.
Transition(ts) == CurrentId(ts) # CurrentId(tasks)

\* What every executed call does, given the plan and the result it leaves.
Answer(ts, body) ==
  /\ Calling /\ ~transitioned
  /\ tasks' = ts
  /\ transitioned' = Transition(ts)
  /\ taskCalls' = IF Transition(ts) THEN 1 ELSE taskCalls + 1
  /\ window' = Append(window, ToolResult(body))
  /\ total' = total + 1
  /\ batchCalls' = batchCalls + 1
  /\ pending' = pending - 1
  /\ phase' = IF pending = 1 THEN "settle" ELSE "batch"
  /\ UNCHANGED <<effectiveMax, iterations, overflow, extension, documented, result,
                 suppressed, loopVars>>

Succeeds ==
  /\ consecutive' = 0 /\ failureSig' = <<>> /\ repeat' = 0
  /\ UNCHANGED <<failed, batchFailures>>

\* is_error without counts_as_failure: neither branch of the code is taken.
SoftError == UNCHANGED <<consecutive, failureSig, repeat, failed, batchFailures>>

\* record_failure: the count of the same failure in a row.
RepeatCount(sig) ==
  IF sig # failureSig THEN 1 ELSE IF repeat < AutoRecover THEN repeat + 1 ELSE repeat
Fails(sig) ==
  /\ failed' = failed + 1 /\ batchFailures' = batchFailures + 1
  /\ consecutive' = consecutive + 1
  /\ failureSig' = sig /\ repeat' = RepeatCount(sig)

\* Any tool other than the two control tools.  A failure carries an appended
\* hint, which makes its text long.
WorkCall ==
  /\ \/ Succeeds /\ \E body \in {"short", "long"} : Answer(tasks, body)
     \/ SoftError /\ \E body \in {"short", "long"} : Answer(tasks, body)
     \/ Fails(<<"work">>) /\ Answer(tasks, "long")
  /\ worked' = TRUE
  /\ UNCHANGED <<replanned, completion>>

UpdatePlan ==
  /\ \/ /\ Succeeds
        /\ \E n \in 1..MaxReplanTasks, body \in {"short", "notice"},
              order \in Orders(Completed(tasks)), top \in LargestIds(tasks) :
             Answer(Replan(tasks, order, top, n), body)
     \/ Fails(<<"update_task_plan">>) /\ Answer(tasks, "notice")
  /\ replanned' = TRUE
  /\ UNCHANGED <<worked, completion>>

\* parse_completion_type_from_arguments: what cannot be read counts as success.
Declared(args) == IF args.ctype = "absent" THEN "success" ELSE args.ctype

ErrorButOrder(args) ==  \* mutant: the task need not be the current one
  CASE Declared(args) = "success" /\ (failed > 0 \/ replanned) -> <<"conflict">>
    [] args.id = BadId -> <<"task_id">>
    [] Open(tasks) = {} -> <<"all completed">>
    [] OTHER -> IF args.ctype = "absent" THEN <<"completion_type">> ELSE <<>>

\* The checks made before a task is completed, in the code's order.
CompletionError(args) ==
  CASE Declared(args) = "success" /\ (failed > 0 \/ replanned) -> <<"conflict">>
    [] OTHER ->
       CASE args.id = BadId -> <<"task_id">>
         [] args.id # BadId /\ Open(tasks) = {} -> <<"all completed">>
         [] args.id # BadId /\ Open(tasks) # {} /\ args.id % IdModulus # Current(tasks).id ->
              <<"order", args.id % IdModulus>>
         [] OTHER -> IF args.ctype = "absent" THEN <<"completion_type">> ELSE <<>>

\* observe_completion_type: failure absorbs, partial success beats success.
Observe(ctype) ==
  completion' = IF "failure" \in {completion, ctype} THEN "failure"
                ELSE IF "partial_success" \in {completion, ctype} THEN "partial_success"
                ELSE "success"

CompleteTask(args) ==
  /\ CompletionError(args) = <<>>
  /\ Succeeds
  /\ Answer(MarkCompleted(tasks, args.id % IdModulus), "ack")
  /\ Observe(args.ctype)
  /\ UNCHANGED <<worked, replanned>>

\* The third identical failure in a row completes the current task anyway; the
\* call still counts as a failed one.
Recovers(args) ==
  RepeatCount(CompletionError(args)) >= AutoRecover /\ total > 0

AutoComplete(args) ==
  /\ CompletionError(args) # <<>>
  /\ Recovers(args) /\ Open(tasks) # {}
  /\ failed' = failed + 1 /\ batchFailures' = batchFailures + 1
  /\ consecutive' = 0 /\ failureSig' = <<>> /\ repeat' = 0
  /\ Answer(MarkCompleted(tasks, Current(tasks).id), "ack")
  /\ Observe(Declared(args))
  /\ UNCHANGED <<worked, replanned>>

\* A refusal is short when it names a task or an argument, and long once the
\* loop warning is appended.
RefusalBodies(args) ==
  LET error == CompletionError(args)
  IN  IF error \in {<<"conflict">>, <<"completion_type">>}
         \/ (RepeatCount(error) >= 2 /\ ~Recovers(args))
      THEN {"notice"}
      ELSE IF error = <<"task_id">> THEN {"short", "notice"} ELSE {"short"}

RefuseCompletion(args) ==
  /\ CompletionError(args) # <<>>
  /\ ~(Recovers(args) /\ Open(tasks) # {})
  /\ Fails(CompletionError(args))
  /\ \E body \in RefusalBodies(args) : Answer(tasks, body)
  /\ UNCHANGED <<worked, replanned, completion>>

-----------------------------------------------------------------------------
(* After a batch: the checks of the loop body, in the code's order.        *)

NewStuck == IF batchCalls > 0 /\ batchCalls = batchFailures THEN stuck + 1 ELSE 0
Settling == phase = "settle" /\ stuck' = NewStuck
FailureLimitReached == FailureLimit > 0 /\ consecutive >= FailureLimit
DepthLimitReached == taskCalls >= MaxCallsPerTask

settleUnchanged == <<tasks, effectiveMax, overflow, documented, result, total, failed,
                     failureSig, repeat, replanned, worked, completion, batchVars, noTool>>

StuckExit ==
  /\ Settling /\ NewStuck >= MaxStuck
  /\ phase' = "exit"
  /\ UNCHANGED <<settleUnchanged, window, iterations, extension, consecutive, taskCalls,
                 clarifications, afterSuccess, closing>>

TooManyFailures ==
  /\ Settling /\ NewStuck < MaxStuck /\ FailureLimitReached
  /\ \/ Approved(window) /\ consecutive' = 0
     \/ Declined(window) /\ UNCHANGED consecutive
  /\ afterSuccess' = FALSE
  /\ UNCHANGED <<settleUnchanged, iterations, extension, taskCalls, closing>>

\* The batch is over without a stop: reminders are pushed and the depth reset.
AfterBatch ==
  /\ Settling /\ NewStuck < MaxStuck /\ ~FailureLimitReached
  /\ afterSuccess' = (batchCalls > 0 /\ consecutive = 0)
  /\ taskCalls' = IF DepthLimitReached THEN 0 ELSE taskCalls
  /\ UNCHANGED <<settleUnchanged, iterations, consecutive>>

If(b, msg) == IF b THEN <<msg>> ELSE <<>>
Reminders == window \o If(suppressed /\ Open(tasks) # {}, User) \o If(DepthLimitReached, User)

\* The text that came with the calls, if any, and whether it is an answer.
AssistantText == LET asst == {i \in DOMAIN window : window[i].role = "assistant"}
                 IN  window[Greatest(asst)].body
ToolsSubstantial == TrailingWith(Reminders, Substantive) # {}

\* All tasks done: an answer is already there, or is taken from the tool
\* results, or one more turn is asked for.
ClosePlan ==
  /\ AfterBatch /\ AllCompleted(tasks)
  /\ IF AssistantText # "long" /\ ~ToolsSubstantial
     THEN window' = Append(Reminders, User) /\ closing' = TRUE /\ phase' = "head"
     ELSE /\ window' = Reminders \o If(AssistantText # "long", Assistant(0, PickTrailing(Reminders)))
          /\ closing' = closing /\ phase' = "exit"
  /\ UNCHANGED <<extension, clarifications>>

\* Otherwise the focus on the current task is injected, and the tool-call
\* budget is checked; an approval adds one more base budget.
Focused == Reminders \o If(Open(tasks) # {}, System)
CapReachedLate == total > BaseCap + extension  \* mutant: off by one
CapReached == total >= BaseCap + extension

ContinuePlan ==
  /\ AfterBatch /\ ~AllCompleted(tasks)
  /\ \/ ~CapReached /\ window' = Focused /\ phase' = "head" /\ UNCHANGED <<extension, clarifications>>
     \/ CapReached /\ Approved(Focused) /\ extension' = extension + BaseCap
     \/ CapReached /\ Declined(Focused) /\ UNCHANGED extension
  /\ UNCHANGED closing

-----------------------------------------------------------------------------
(* After the loop: the fallback summary and the result.                    *)
EffectiveType ==
  IF AllCompleted(tasks) THEN completion
  ELSE IF total = 0 \/ (failed > 0 /\ failed = total) THEN "failure" ELSE "partial_success"

Finish ==
  /\ phase = "exit"
  /\ window' = window \o If(~AllCompleted(tasks) /\ total > 0, Assistant(0, "summary"))
  /\ result' = [completed |-> AllCompleted(tasks),
                ctype |-> EffectiveType,
                response |-> IF ~AllCompleted(tasks) /\ tasks # <<>> THEN "unfinished"
                             ELSE FinalText(window')]
  /\ phase' = "done"
  /\ UNCHANGED <<tasks, effectiveMax, iterations, overflow, extension, documented,
                 toolVars, batchVars, loopVars>>

\* A returned run does nothing more.
Returned == phase \in {"done", "failed"} /\ UNCHANGED vars

Texts == {"none", "short", "long"}
HandleReply ==
  \/ ContextOverflow \/ LLMError \/ ClosingToolCalls \/ Disclosure
  \/ \E n \in 1..MaxBatch, text \in Texts : ToolCalls(n, text)
  \/ \E text \in Texts : SoftNudge(text) \/ Nudge(text) \/ NoProgress(text) \/ FinalReply(text)
HandleCall ==
  \/ SkipCall \/ WorkCall \/ UpdatePlan
  \/ \E args \in CompleteArgs : CompleteTask(args) \/ AutoComplete(args) \/ RefuseCompletion(args)
Settle == StuckExit \/ TooManyFailures \/ ClosePlan \/ ContinuePlan

Next == CallLLM \/ IterationLimit \/ HandleReply \/ HandleCall \/ Settle \/ Finish \/ Returned

Spec == Init /\ [][Next]_vars

\* The async runtime keeps polling the loop, requests time out, and the user
\* answers or the sink answers for them.
FairSpec == Spec /\ WF_vars(Next)

-----------------------------------------------------------------------------
(* Type invariant.                                                         *)
Phases == {"head", "call", "batch", "settle", "exit", "done", "failed"}
Responses == {"pending", "unfinished"} \cup Bodies

\* Every variable holds a value of the kind the code gives it.
TypeOK ==
  /\ phase \in Phases
  /\ tasks \in Seq(Task)
  /\ window \in Seq(Message)
  /\ effectiveMax \in Nat /\ iterations \in Nat /\ overflow \in Nat /\ extension \in Nat
  /\ total \in Nat /\ failed \in Nat /\ consecutive \in Nat /\ repeat \in Nat
  /\ taskCalls \in Nat /\ replanned \in BOOLEAN /\ worked \in BOOLEAN
  /\ completion \in CompletionTypes
  /\ clarifications \in 0..MaxClarifications
  /\ noTool \in Nat /\ stuck \in Nat /\ afterSuccess \in BOOLEAN /\ closing \in BOOLEAN
  /\ documented \subseteq DocSkills /\ suppressed \in BOOLEAN
  /\ pending \in Nat /\ batchCalls \in Nat /\ batchFailures \in Nat /\ transitioned \in BOOLEAN
  /\ result \in [completed : BOOLEAN, ctype : CompletionTypes, response : Responses]

-----------------------------------------------------------------------------
(* Safety.                                                                 *)

\* The results after an assistant message with calls are its own, all of them
\* and nothing else; a result follows no other message.
Answered(w) ==
  /\ \A i \in DOMAIN w : w[i].calls > 0 =>
       /\ i + w[i].calls <= Len(w)
       /\ \A j \in DOMAIN w :
            j > i => (j <= i + w[i].calls <=> \A k \in (i + 1)..j : w[k].role = "tool")
  /\ \A j \in DOMAIN w : j > 1 /\ w[j].role = "tool" =>
       \E i \in 1..(j - 1) : w[i].calls > 0

\* Whatever skips, disclosures, popped replies and reminders a turn went
\* through, every history sent to the LLM, and the one returned, answers each
\* recorded tool call exactly once, as inject_progressive_disclosure says the
\* API requires; and no request ends with an assistant message.
RequestsWellFormed ==
  /\ phase \in {"head", "call", "exit", "done"} => Answered(window)
  /\ phase = "call" => Last(window).role # "assistant"

\* The user bounds the cost of a run: each approval of a clarification buys at
\* most one base budget of tool calls, plus the overshoot of one reply.
CallBudget == total < (BaseCap + MaxBatch) * (1 + clarifications)

Ordered(ts) == \A i, j \in DOMAIN ts : i < j /\ ts[j].completed => ts[i].completed

\* Tasks are completed in order: no open task precedes a completed one, however
\* completions, recoveries and replans interleave.  (Plans that start open.)
CompletedInOrder == Ordered(tasks)

Keeps(ts, new) == \A i \in Completed(ts) : i \in DOMAIN new /\ new[i] = ts[i]

\* No step forgets a completed task or reopens it: replanning keeps them at
\* their places.  (Plans that start open.)
CompletedTasksKept == [][Keeps(tasks, tasks')]_vars

\* What the LLM is told of its completions is true: one reply is acknowledged at
\* most one, the rest of its calls being answered without being executed, and
\* an acknowledged one closes an open task, also after replans have numbered
\* new tasks behind the completed ones.  (Plans with distinct ids:
\* mark_completed takes the first task with the id, and the parser accepts a
\* plan that repeats one.)
Acknowledged(w) == {i \in DOMAIN w : w[i].body = "ack"}
AcknowledgementsTrue ==
  [][/\ Cardinality(Acknowledged(window')) <= 1
     /\ (\E args \in CompleteArgs : CompleteTask(args)) =>
          Cardinality(Open(tasks')) < Cardinality(Open(tasks))]_vars

-----------------------------------------------------------------------------
(* Refinement: seen through its ids and its completed tasks, the loop is a  *)
(* TaskList.                                                               *)

IdsOf(ts) == [i \in DOMAIN ts |-> ts[i].id]
List == INSTANCE TaskList WITH ids <- IdsOf(tasks), done <- Completed(tasks)

\* Whatever replies, failures, automatic completions and replans happen, each
\* step of the loop finishes the first open task, replaces the open ones, or
\* leaves the list alone.  (Plans with distinct ids that start open.)
ImplementsTaskList == List!Spec

-----------------------------------------------------------------------------
(* Liveness.                                                               *)

\* However the LLM, the tools and the user behave, a run returns, unless the
\* LLM answers the closing turn with tool calls for ever.
Returns == <>(phase \in {"done", "failed"}) \/ <>[]closing

=============================================================================
