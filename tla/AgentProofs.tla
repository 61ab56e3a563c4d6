----------------------------- MODULE AgentProofs -----------------------------
(***************************************************************************)
(* Theorems about the agent: AgentLoop, for every plan, limit and batch    *)
(* size, and ChatSession, for every number of processes, sessions, days    *)
(* and operations.                                                         *)
(***************************************************************************)
EXTENDS AgentLoop, ChatSession, FiniteSetTheorems, SequenceTheorems, WellFoundedInduction,
        TLAPS

-----------------------------------------------------------------------------
(* Choosing an index.                                                      *)

\* A nonempty set of naturals has a least element.
LEMMA SmallestExists ==
  ASSUME NEW S, S \subseteq Nat, S # {}
  PROVE  \E x \in S : \A y \in S : x <= y
<1> DEFINE R == {p \in Nat \X Nat : p[1] < p[2]}
<1>1. IsWellFoundedOn(R, Nat)
  BY NatLessThanWellFounded DEF OpToRel
<1>2. \A x, y \in Nat : <<y, x>> \notin R => x <= y
  OBVIOUS
<1>3. PICK x \in S : \A y \in S : <<y, x>> \notin R
  <2> HIDE DEF R
  <2> QED BY <1>1, WFMin
<1>4. \A y \in S : x <= y
  BY <1>2, <1>3
<1> QED BY <1>4

\* Least picks the smallest index of a nonempty set of indices.
LEMMA LeastPicks ==
  ASSUME NEW S, S \subseteq Nat, S # {}
  PROVE  Least(S) \in S /\ \A y \in S : Least(S) <= y
BY SmallestExists DEF Least

\* Greatest picks the largest index of a nonempty set of indices.
LEMMA GreatestPicks ==
  ASSUME NEW n \in Nat, NEW S, S \subseteq 1..n, S # {}
  PROVE  Greatest(S) \in S /\ \A y \in S : y <= Greatest(S)
<1> DEFINE T == {n - i : i \in S}
<1>1. T \subseteq Nat /\ T # {}
  <2>1. \A i \in S : n - i \in Nat
    OBVIOUS
  <2> QED BY <2>1
<1>2. PICK x \in T : \A y \in T : x <= y
  BY <1>1, SmallestExists
<1>3. PICK i \in S : x = n - i
  BY <1>2
<1>4. \A j \in S : j <= i
  <2> TAKE j \in S
  <2>1. n - j \in T
    OBVIOUS
  <2> QED BY <2>1, <1>2, <1>3
<1> QED BY <1>4 DEF Greatest

-----------------------------------------------------------------------------
(* Types of the helpers.                                                   *)

LEMMA MessageTypes ==
  /\ \A n \in Nat, b \in Bodies : Assistant(n, b) \in Message
  /\ \A b \in Bodies : ToolResult(b) \in Message
  /\ User \in Message /\ System \in Message
BY DEF Assistant, ToolResult, User, System, Message, Bodies

\* If(b, msg) is a list of at most one message.
LEMMA IfType ==
  ASSUME NEW b \in BOOLEAN, NEW msg \in Message
  PROVE  If(b, msg) \in Seq(Message)
BY DEF If

\* The last message of the request is a message.
LEMMA SentType ==
  ASSUME window \in Seq(Message), window # <<>>
  PROVE  Last(window) \in Message /\ Sent \in Seq(Message) /\ Sent # <<>>
BY EmptySeq, ElementOfSeq DEF Last, Sent

\* Appending keeps a history a history.
LEMMA AppendType ==
  ASSUME NEW w \in Seq(Message), NEW msg \in Message
  PROVE  Append(w, msg) \in Seq(Message) /\ Append(w, msg) # <<>>
BY AppendProperties

\* So does concatenation.
LEMMA ConcatType ==
  ASSUME NEW w \in Seq(Message), NEW v \in Seq(Message)
  PROVE  w \o v \in Seq(Message) /\ (w # <<>> => w \o v # <<>>)
BY ConcatProperties, ConcatEqualIffEmpty

\* The quoted tool text is one of the bodies.
LEMMA PickTrailingType ==
  ASSUME NEW w \in Seq(Message)
  PROVE  PickTrailing(w) \in Bodies
<1> DEFINE S == TrailingWith(w, Substantive)
<1>1. S \subseteq 1..Len(w) /\ Len(w) \in Nat /\ \A i \in S : w[i].body \in Bodies
  <2>1. DOMAIN w = 1..Len(w) /\ Len(w) \in Nat
    BY LenProperties
  <2>2. S \subseteq 1..Len(w) /\ \A i \in S : w[i].body \in Substantive
    BY <2>1 DEF TrailingWith, Trailing
  <2> QED BY <2>1, <2>2 DEF Substantive, Bodies
<1>2. CASE S # {}
  BY <1>1, <1>2, GreatestPicks DEF PickTrailing
<1>3. CASE S = {}
  BY <1>3 DEF PickTrailing, Bodies
<1> QED BY <1>2, <1>3

\* So is the final text.
LEMMA FinalTextType ==
  ASSUME NEW w \in Seq(Message)
  PROVE  FinalText(w) \in Bodies
<1> DEFINE S == {i \in DOMAIN w : w[i].role = "assistant"}
<1>1. S \subseteq 1..Len(w) /\ Len(w) \in Nat /\ \A i \in S : w[i].body \in Bodies
  <2>1. DOMAIN w = 1..Len(w) /\ Len(w) \in Nat
    BY LenProperties
  <2>2. \A i \in 1..Len(w) : w[i] \in Message
    BY ElementOfSeq
  <2> QED BY <2>1, <2>2 DEF Message
<1>2. S # {} => w[Greatest(S)].body \in Bodies
  BY <1>1, GreatestPicks
<1> QED BY <1>2, PickTrailingType DEF FinalText, Bodies

\* Marking a task completed changes one flag.
LEMMA MarkType ==
  ASSUME NEW ts \in Seq(Task), NEW id
  PROVE  MarkCompleted(ts, id) \in Seq(Task)
<1> DEFINE hits == {i \in DOMAIN ts : ts[i].id = id}
<1>1. CASE hits = {}
  BY <1>1 DEF MarkCompleted
<1>2. CASE hits # {}
  <2>1. hits \subseteq 1..Len(ts) /\ hits \subseteq Nat
    BY LenProperties
  <2>2. Least(hits) \in 1..Len(ts)
    BY <1>2, <2>1, LeastPicks
  <2>3. ts[Least(hits)] \in Task
    BY <2>2, ElementOfSeq
  <2>4. [ts[Least(hits)] EXCEPT !.completed = TRUE] \in Task
    BY <2>3 DEF Task
  <2>5. MarkCompleted(ts, id) = [ts EXCEPT ![Least(hits)] = [ts[Least(hits)] EXCEPT !.completed = TRUE]]
    BY <1>2 DEF MarkCompleted
  <2> QED BY <2>2, <2>4, <2>5, ExceptSeq
<1> QED BY <1>1, <1>2

\* The enumeration of a set of indices exists and has its length.
LEMMA OrderType ==
  ASSUME NEW ts \in Seq(Task), NEW f \in Orders(Completed(ts))
  PROVE  LET c == Cardinality(Completed(ts))
         IN  /\ c \in Nat
             /\ f \in [1..c -> Completed(ts)]
             /\ Completed(ts) \subseteq 1..Len(ts)
             /\ \A k, l \in 1..c : k < l => f[k] < f[l]
             /\ \A i \in Completed(ts) : \E k \in 1..c : f[k] = i
<1>1. Completed(ts) \subseteq 1..Len(ts)
  BY LenProperties DEF Completed
<1>2. IsFiniteSet(Completed(ts))
  <2>1. IsFiniteSet(1..Len(ts))
    BY LenProperties, FS_Interval
  <2> QED BY <1>1, <2>1, FS_Subset
<1>3. Cardinality(Completed(ts)) \in Nat
  BY <1>2, FS_CardinalityType
<1> QED BY <1>1, <1>3 DEF Orders

\* The largest completed id is a number.
LEMMA LargestIdType ==
  ASSUME NEW ts \in Seq(Task), NEW top \in LargestIds(ts)
  PROVE  top \in Nat
<1>1. \A i \in Completed(ts) : ts[i] \in Task
  BY LenProperties, ElementOfSeq DEF Completed
<1> QED BY <1>1 DEF LargestIds, Task

\* Fresh tasks are open tasks.
LEMMA FreshType ==
  ASSUME NEW top \in Nat, NEW n \in Nat
  PROVE  /\ Fresh(top, n) \in Seq(Task)
         /\ Len(Fresh(top, n)) = n
         /\ \A k \in 1..n : ~Fresh(top, n)[k].completed
<1>1. \A k \in 1..n : (top + k) % IdModulus \in Nat
  BY LimitsAssumption
<1>2. Fresh(top, n) \in [1..n -> Task]
  BY <1>1 DEF Fresh, Task
<1>3. Fresh(top, n) \in Seq(Task)
  BY <1>2, SeqDef
<1>4. Len(Fresh(top, n)) = n
  BY <1>2, <1>3, LenProperties
<1> QED BY <1>3, <1>4 DEF Fresh

\* A replan is a plan: the completed tasks, then the fresh ones.
LEMMA ReplanType ==
  ASSUME NEW ts \in Seq(Task), NEW n \in Nat,
         NEW order \in Orders(Completed(ts)), NEW top \in LargestIds(ts)
  PROVE  LET plan == Replan(ts, order, top, n)
             c    == Cardinality(Completed(ts))
         IN  /\ plan \in Seq(Task)
             /\ Len(plan) = c + n
             /\ \A k \in 1..c : plan[k] = ts[order[k]]
             /\ \A k \in (c + 1)..(c + n) : ~plan[k].completed
<1> DEFINE plan == Replan(ts, order, top, n)
           c    == Cardinality(Completed(ts))
           kept == [k \in DOMAIN order |-> ts[order[k]]]
<1>1. /\ c \in Nat /\ order \in [1..c -> Completed(ts)]
      /\ Completed(ts) \subseteq 1..Len(ts)
  BY OrderType
<1>2. kept \in [1..c -> Task] /\ \A k \in 1..c : kept[k] = ts[order[k]]
  BY <1>1, ElementOfSeq
<1>3. kept \in Seq(Task) /\ Len(kept) = c
  <2>1. kept \in Seq(Task)
    BY <1>1, <1>2, SeqDef
  <2> QED BY <1>1, <1>2, <2>1, LenProperties
<1>4. /\ Fresh(top, n) \in Seq(Task) /\ Len(Fresh(top, n)) = n
      /\ \A k \in 1..n : ~Fresh(top, n)[k].completed
  BY LargestIdType, FreshType
<1>5. plan = kept \o Fresh(top, n)
  BY DEF Replan
<1>6. /\ plan \in Seq(Task) /\ Len(plan) = c + n
      /\ \A i \in 1..(c + n) : plan[i] = IF i <= c THEN kept[i] ELSE Fresh(top, n)[i - c]
  <2> DEFINE fresh == Fresh(top, n)
  <2> HIDE DEF kept, plan, c, fresh
  <2>1. fresh \in Seq(Task) /\ Len(fresh) = n /\ plan = kept \o fresh
    BY <1>4, <1>5 DEF fresh
  <2>2. /\ kept \o fresh \in Seq(Task)
        /\ Len(kept \o fresh) = Len(kept) + Len(fresh)
        /\ \A i \in 1..Len(kept) + Len(fresh) :
             (kept \o fresh)[i] = IF i <= Len(kept) THEN kept[i] ELSE fresh[i - Len(kept)]
    BY <1>3, <2>1, ConcatProperties
  <2> QED BY <1>3, <2>1, <2>2 DEF fresh
<1>7. \A k \in 1..c : plan[k] = ts[order[k]]
  <2> HIDE DEF kept, plan, c
  <2> TAKE k \in 1..c
  <2>1. k \in 1..(c + n) /\ k <= c
    BY <1>1
  <2>2. plan[k] = kept[k]
    BY <1>6, <2>1
  <2> QED BY <1>2, <2>2
<1>8. \A k \in (c + 1)..(c + n) : ~plan[k].completed
  <2> HIDE DEF kept, plan, c
  <2> TAKE k \in (c + 1)..(c + n)
  <2>1. k - c \in 1..n /\ plan[k] = Fresh(top, n)[k - c]
    BY <1>1, <1>6
  <2> QED BY <1>4, <2>1
<1> QED BY <1>6, <1>7, <1>8

-----------------------------------------------------------------------------
(* Type correctness.                                                       *)

\* What the steps need beside the types: there is a last message, and at least
\* one iteration is allowed.
Typed == TypeOK /\ window # <<>> /\ effectiveMax # 0

LEMMA TypedInit == Init => Typed
<1> SUFFICES ASSUME Init PROVE Typed
  OBVIOUS
<1>1. tasks \in Seq(Task)
  BY PlansAssumption DEF Init
<1>2. effectiveMax \in Nat /\ effectiveMax # 0
  <2>1. CASE tasks = <<>>
    BY <2>1, LimitsAssumption DEF Init, EffectiveMax
  <2>2. CASE tasks # <<>>
    <3>1. Len(tasks) \in Nat \ {0}
      BY <1>1, <2>2, EmptySeq
    <3>2. Len(tasks) * MaxCallsPerTask \in Nat /\ Len(tasks) * MaxCallsPerTask # 0
      BY <3>1, LimitsAssumption
    <3> QED BY <2>2, <3>2, LimitsAssumption DEF Init, EffectiveMax
  <2> QED BY <2>1, <2>2
<1>3. window \in Seq(Message) /\ window # <<>>
  BY MessageTypes DEF Init
<1>4. result \in [completed : BOOLEAN, ctype : CompletionTypes, response : Responses]
  BY DEF Init, NoResult, CompletionTypes, Responses
<1>5. clarifications \in 0..MaxClarifications
  BY LimitsAssumption DEF Init
<1>6. /\ phase \in Phases /\ completion \in CompletionTypes /\ documented \subseteq DocSkills
      /\ replanned \in BOOLEAN /\ worked \in BOOLEAN /\ afterSuccess \in BOOLEAN
      /\ closing \in BOOLEAN /\ suppressed \in BOOLEAN /\ transitioned \in BOOLEAN
  BY DEF Init, Phases, CompletionTypes
<1>7. /\ iterations \in Nat /\ overflow \in Nat /\ extension \in Nat
      /\ total \in Nat /\ failed \in Nat /\ consecutive \in Nat /\ repeat \in Nat
      /\ taskCalls \in Nat /\ noTool \in Nat /\ stuck \in Nat
      /\ pending \in Nat /\ batchCalls \in Nat /\ batchFailures \in Nat
  BY DEF Init
<1> QED BY <1>1, <1>2, <1>3, <1>4, <1>5, <1>6, <1>7 DEF Typed, TypeOK

\* A clarification leaves a history, whatever the user answers.
LEMMA ClarifyType ==
  ASSUME NEW w \in Seq(Message), w # <<>>, Approved(w) \/ Declined(w),
         clarifications \in 0..MaxClarifications
  PROVE  /\ window' \in Seq(Message) /\ window' # <<>>
         /\ clarifications' \in 0..MaxClarifications
         /\ phase' \in Phases
<1>1. Append(w, User) \in Seq(Message) /\ Append(w, User) # <<>>
  BY MessageTypes, AppendType
<1> QED BY <1>1, LimitsAssumption DEF Approved, Declined, Phases

\* Sent followed by up to two messages is a history.
LEMMA SentThen ==
  ASSUME TypeOK, window # <<>>
  PROVE  /\ \A m \in Message : Append(Sent, m) \in Seq(Message) /\ Append(Sent, m) # <<>>
         /\ \A v \in Seq(Message) : Sent \o v \in Seq(Message) /\ Sent \o v # <<>>
<1>1. Sent \in Seq(Message) /\ Sent # <<>>
  BY SentType DEF TypeOK
<1> HIDE DEF Sent
<1> QED BY <1>1, AppendType, ConcatType

\* The step of one executed call.
LEMMA AnswerTyped ==
  ASSUME Typed, NEW ts \in Seq(Task), NEW body \in Bodies, Answer(ts, body)
  PROVE  /\ tasks' \in Seq(Task)
         /\ window' \in Seq(Message) /\ window' # <<>>
         /\ phase' \in Phases /\ taskCalls' \in Nat /\ total' \in Nat
         /\ batchCalls' \in Nat /\ pending' \in Nat /\ transitioned' \in BOOLEAN
<1>1. window' \in Seq(Message) /\ window' # <<>>
  BY MessageTypes, AppendType DEF Answer, Typed, TypeOK
<1> QED BY <1>1 DEF Answer, Typed, TypeOK, Calling, Phases, Transition

LEMMA TypedStep == Typed /\ [Next]_vars => Typed'
<1> SUFFICES ASSUME Typed, [Next]_vars PROVE Typed'
  OBVIOUS
<1> USE DEF Typed, TypeOK
<1>w. /\ window \in Seq(Message) /\ window # <<>>
      /\ Last(window) \in Message /\ Sent \in Seq(Message) /\ Sent # <<>>
  BY SentType
<1>1. CASE CallLLM
  BY <1>1 DEF CallLLM, toolVars, batchVars, loopVars, Phases
<1>2. CASE IterationLimit
  <2>1. /\ window' \in Seq(Message) /\ window' # <<>>
        /\ clarifications' \in 0..MaxClarifications /\ phase' \in Phases
    BY <1>2, ClarifyType DEF IterationLimit
  <2> QED BY <1>2, <2>1 DEF IterationLimit, toolVars, batchVars
<1>3. CASE ContextOverflow
  BY <1>3 DEF ContextOverflow, toolVars, batchVars, loopVars, Phases
<1>4. CASE LLMError
  BY <1>4 DEF LLMError, toolVars, batchVars, loopVars, Phases
<1>5. CASE ClosingToolCalls
  <2>1. window' \in Seq(Message) /\ window' # <<>>
    BY <1>5, SentThen, MessageTypes DEF ClosingToolCalls
  <2> QED BY <1>5, <2>1 DEF ClosingToolCalls, Reply, toolVars, batchVars, loopVars, Phases
<1>6. CASE Disclosure
  <2>1. window' \in Seq(Message) /\ window' # <<>>
    BY <1>6, SentThen, MessageTypes DEF Disclosure, DisclosureWindow
  <2>2. documented' \subseteq DocSkills
    BY <1>6 DEF Disclosure
  <2> QED BY <1>6, <2>1, <2>2 DEF Disclosure, Reply, toolVars, batchVars, Phases
<1>7. ASSUME NEW n \in 1..MaxBatch, NEW text \in Texts, ToolCalls(n, text) PROVE Typed'
  <2>1. CallMessage(n, text) \in Message
    BY LimitsAssumption, MessageTypes DEF CallMessage, Texts, Bodies
  <2>2. window' \in Seq(Message) /\ window' # <<>>
    BY <1>7, <2>1, SentThen DEF ToolCalls
  <2>3. suppressed' \in BOOLEAN /\ n \in Nat
    BY <1>7, LimitsAssumption DEF ToolCalls, Suppresses
  <2> QED BY <1>7, <2>2, <2>3 DEF ToolCalls, Reply, toolVars, Phases
<1>8. ASSUME NEW text \in Texts, SoftNudge(text) PROVE Typed'
  <2>1. Assistant(0, text) \in Message /\ User \in Message
    BY MessageTypes DEF Texts, Bodies
  <2>2. <<Assistant(0, text), User>> \in Seq(Message)
    BY <2>1
  <2>3. window' \in Seq(Message) /\ window' # <<>>
    BY <1>8, <2>2, SentThen DEF SoftNudge
  <2> QED BY <1>8, <2>3 DEF SoftNudge, Reply, toolVars, batchVars, Phases
<1>9. ASSUME NEW text \in Texts, Nudge(text) PROVE Typed'
  <2>1. window' \in Seq(Message) /\ window' # <<>>
    BY <1>9, <1>w, SentThen, MessageTypes DEF Nudge
  <2>2. noTool' \in Nat /\ stuck' \in Nat /\ phase' \in Phases
    BY <1>9 DEF Nudge, Phases
  <2> QED BY <1>9, <2>1, <2>2 DEF Nudge, Premature, Reply, toolVars, batchVars
<1>10. ASSUME NEW text \in Texts, NoProgress(text) PROVE Typed'
  <2>1. /\ window' \in Seq(Message) /\ window' # <<>>
        /\ clarifications' \in 0..MaxClarifications /\ phase' \in Phases
    BY <1>10, <1>w, ClarifyType DEF NoProgress
  <2>2. noTool' \in Nat /\ stuck' \in Nat
    BY <1>10 DEF NoProgress
  <2> QED BY <1>10, <2>1, <2>2 DEF NoProgress, Premature, Reply, toolVars, batchVars
<1>11. ASSUME NEW text \in Texts, FinalReply(text) PROVE Typed'
  <2>1. window' \in Seq(Message) /\ window' # <<>>
    <3>1. /\ Assistant(0, "summary") \in Message /\ Assistant(0, text) \in Message
          /\ Assistant(0, "none") \in Message
      BY MessageTypes DEF Texts, Bodies
    <3>2. TextMessages(text) \subseteq Seq(Message)
      <4>1. /\ <<>> \in Seq(Message) /\ <<Assistant(0, text)>> \in Seq(Message)
            /\ <<Assistant(0, "none")>> \in Seq(Message)
        BY <3>1
      <4> QED BY <4>1 DEF TextMessages
    <3> QED BY <1>11, <3>1, <3>2, SentThen DEF FinalReply
  <2> QED BY <1>11, <2>1 DEF FinalReply, Reply, toolVars, batchVars, Phases
<1>12. CASE SkipCall
  <2>1. window' \in Seq(Message) /\ window' # <<>>
    BY <1>12, <1>w, MessageTypes, AppendType DEF SkipCall, Bodies
  <2>2. pending' \in Nat /\ phase' \in Phases
    BY <1>12 DEF SkipCall, Calling, Phases
  <2> QED BY <1>12, <2>1, <2>2 DEF SkipCall, toolVars, loopVars
<1>13. CASE WorkCall
  <2>1. PICK body \in Bodies : Answer(tasks, body)
    BY <1>13 DEF WorkCall, Bodies
  <2>2. /\ failed' \in Nat /\ consecutive' \in Nat /\ repeat' \in Nat /\ batchFailures' \in Nat
        /\ worked' \in BOOLEAN
    BY <1>13, LimitsAssumption DEF WorkCall, Succeeds, SoftError, Fails, RepeatCount
  <2>3. UNCHANGED <<effectiveMax, iterations, overflow, extension, documented, result, suppressed,
                    clarifications, noTool, stuck, afterSuccess, closing, replanned, completion>>
    BY <1>13, <2>1 DEF WorkCall, Answer, loopVars
  <2> QED BY <2>1, <2>2, <2>3, AnswerTyped
<1>14. CASE UpdatePlan
  <2>1. PICK plan \in Seq(Task), body \in Bodies : Answer(plan, body)
    <3>1. CASE Succeeds /\ \E n \in 1..MaxReplanTasks, body \in {"short", "notice"},
                              order \in Orders(Completed(tasks)), top \in LargestIds(tasks) :
                              Answer(Replan(tasks, order, top, n), body)
      <4>1. PICK n \in 1..MaxReplanTasks, body \in {"short", "notice"},
                 order \in Orders(Completed(tasks)), top \in LargestIds(tasks) :
                 Answer(Replan(tasks, order, top, n), body)
        BY <3>1
      <4>2. n \in Nat /\ body \in Bodies
        BY LimitsAssumption DEF Bodies
      <4>3. Replan(tasks, order, top, n) \in Seq(Task)
        BY <4>2, ReplanType
      <4> QED BY <4>1, <4>2, <4>3
    <3>2. CASE Answer(tasks, "notice")
      BY <3>2 DEF Bodies
    <3> QED BY <1>14, <3>1, <3>2 DEF UpdatePlan
  <2>2. /\ failed' \in Nat /\ consecutive' \in Nat /\ repeat' \in Nat /\ batchFailures' \in Nat
        /\ replanned' \in BOOLEAN
    BY <1>14, LimitsAssumption DEF UpdatePlan, Succeeds, Fails, RepeatCount
  <2>3. UNCHANGED <<effectiveMax, iterations, overflow, extension, documented, result, suppressed,
                    clarifications, noTool, stuck, afterSuccess, closing, worked, completion>>
    BY <1>14, <2>1 DEF UpdatePlan, Answer, loopVars
  <2> QED BY <2>1, <2>2, <2>3, AnswerTyped
<1>15. ASSUME NEW args \in CompleteArgs, CompleteTask(args) PROVE Typed'
  <2>1. MarkCompleted(tasks, args.id % IdModulus) \in Seq(Task) /\ "ack" \in Bodies
    BY MarkType DEF Bodies
  <2>2. /\ failed' \in Nat /\ consecutive' \in Nat /\ repeat' \in Nat /\ batchFailures' \in Nat
        /\ completion' \in CompletionTypes
    BY <1>15 DEF CompleteTask, Succeeds, Observe, CompletionTypes
  <2>3. Answer(MarkCompleted(tasks, args.id % IdModulus), "ack")
    BY <1>15 DEF CompleteTask
  <2>4. UNCHANGED <<effectiveMax, iterations, overflow, extension, documented, result, suppressed,
                    clarifications, noTool, stuck, afterSuccess, closing, worked, replanned>>
    BY <1>15, <2>3 DEF CompleteTask, Answer, loopVars
  <2> QED BY <2>1, <2>2, <2>3, <2>4, AnswerTyped
<1>16. ASSUME NEW args \in CompleteArgs, AutoComplete(args) PROVE Typed'
  <2>1. MarkCompleted(tasks, Current(tasks).id) \in Seq(Task) /\ "ack" \in Bodies
    BY MarkType DEF Bodies
  <2>2. /\ failed' \in Nat /\ consecutive' \in Nat /\ repeat' \in Nat /\ batchFailures' \in Nat
        /\ completion' \in CompletionTypes
    BY <1>16 DEF AutoComplete, Observe, CompletionTypes
  <2>3. Answer(MarkCompleted(tasks, Current(tasks).id), "ack")
    BY <1>16 DEF AutoComplete
  <2>4. UNCHANGED <<effectiveMax, iterations, overflow, extension, documented, result, suppressed,
                    clarifications, noTool, stuck, afterSuccess, closing, worked, replanned>>
    BY <1>16, <2>3 DEF AutoComplete, Answer, loopVars
  <2> QED BY <2>1, <2>2, <2>3, <2>4, AnswerTyped
<1>17. ASSUME NEW args \in CompleteArgs, RefuseCompletion(args) PROVE Typed'
  <2>1. PICK body \in Bodies : Answer(tasks, body)
    BY <1>17 DEF RefuseCompletion, RefusalBodies, Bodies
  <2>2. /\ failed' \in Nat /\ consecutive' \in Nat /\ repeat' \in Nat /\ batchFailures' \in Nat
    BY <1>17, LimitsAssumption DEF RefuseCompletion, Fails, RepeatCount
  <2>3. UNCHANGED <<effectiveMax, iterations, overflow, extension, documented, result, suppressed,
                    clarifications, noTool, stuck, afterSuccess, closing, worked, replanned, completion>>
    BY <1>17, <2>1 DEF RefuseCompletion, Answer, loopVars
  <2> QED BY <2>1, <2>2, <2>3, AnswerTyped
<1>r. Reminders \in Seq(Message) /\ Reminders # <<>>
  <2>1. /\ If(suppressed /\ Open(tasks) # {}, User) \in Seq(Message)
        /\ If(DepthLimitReached, User) \in Seq(Message)
    <3>1. <<User>> \in Seq(Message) /\ <<>> \in Seq(Message)
      BY MessageTypes
    <3> QED BY <3>1 DEF If
  <2> QED BY <1>w, <2>1, ConcatType DEF Reminders
<1>18. CASE StuckExit
  BY <1>18 DEF StuckExit, Settling, NewStuck, settleUnchanged, batchVars, Phases
<1>19. CASE TooManyFailures
  <2>1. /\ window' \in Seq(Message) /\ window' # <<>>
        /\ clarifications' \in 0..MaxClarifications /\ phase' \in Phases
    BY <1>19, <1>w, ClarifyType DEF TooManyFailures
  <2>2. stuck' \in Nat /\ consecutive' \in Nat
    BY <1>19 DEF TooManyFailures, Settling, NewStuck
  <2> QED BY <1>19, <2>1, <2>2 DEF TooManyFailures, settleUnchanged, batchVars
<1>20. CASE ClosePlan
  <2>1. window' \in Seq(Message) /\ window' # <<>>
    <3>1. Append(Reminders, User) \in Seq(Message) /\ Append(Reminders, User) # <<>>
      BY <1>r, MessageTypes, AppendType
    <3>2. Assistant(0, PickTrailing(Reminders)) \in Message
      BY <1>r, PickTrailingType, MessageTypes
    <3>3. If(AssistantText # "long", Assistant(0, PickTrailing(Reminders))) \in Seq(Message)
      BY <3>2, IfType
    <3>4. /\ Reminders \o If(AssistantText # "long", Assistant(0, PickTrailing(Reminders))) \in Seq(Message)
          /\ Reminders \o If(AssistantText # "long", Assistant(0, PickTrailing(Reminders))) # <<>>
      BY <1>r, <3>3, ConcatType
    <3> QED BY <1>20, <3>1, <3>4 DEF ClosePlan
  <2>2. stuck' \in Nat /\ taskCalls' \in Nat /\ afterSuccess' \in BOOLEAN
    BY <1>20 DEF ClosePlan, AfterBatch, Settling, NewStuck
  <2>3. closing' \in BOOLEAN /\ phase' \in Phases
    BY <1>20 DEF ClosePlan, Phases
  <2> QED BY <1>20, <2>1, <2>2, <2>3 DEF ClosePlan, AfterBatch, settleUnchanged, batchVars
<1>21. CASE ContinuePlan
  <2>1. Focused \in Seq(Message) /\ Focused # <<>>
    <3>1. If(Open(tasks) # {}, System) \in Seq(Message)
      BY IfType, MessageTypes
    <3> QED BY <1>r, <3>1, ConcatType DEF Focused
  <2>2. /\ window' \in Seq(Message) /\ window' # <<>>
        /\ clarifications' \in 0..MaxClarifications /\ phase' \in Phases
    BY <1>21, <2>1, ClarifyType DEF ContinuePlan, Phases
  <2>3. stuck' \in Nat /\ taskCalls' \in Nat /\ afterSuccess' \in BOOLEAN /\ extension' \in Nat
    <3>1. BaseCap \in Nat
      BY LimitsAssumption DEF BaseCap
    <3> QED BY <1>21, <3>1 DEF ContinuePlan, AfterBatch, Settling, NewStuck
  <2> QED BY <1>21, <2>2, <2>3 DEF ContinuePlan, AfterBatch, settleUnchanged, batchVars
<1>22. CASE Finish
  <2>1. window' \in Seq(Message) /\ window' # <<>>
    <3>1. Assistant(0, "summary") \in Message
      BY MessageTypes DEF Bodies
    <3>2. If(~AllCompleted(tasks) /\ total > 0, Assistant(0, "summary")) \in Seq(Message)
      BY <3>1, IfType DEF AllCompleted
    <3> QED BY <1>22, <1>w, <3>2, ConcatType DEF Finish
  <2>2. result' \in [completed : BOOLEAN, ctype : CompletionTypes, response : Responses]
    <3>1. EffectiveType \in CompletionTypes /\ AllCompleted(tasks) \in BOOLEAN
      BY DEF EffectiveType, CompletionTypes, AllCompleted
    <3>2. FinalText(window') \in Responses /\ "unfinished" \in Responses
      BY <2>1, FinalTextType DEF Responses
    <3> QED BY <1>22, <3>1, <3>2 DEF Finish
  <2> QED BY <1>22, <2>1, <2>2 DEF Finish, toolVars, batchVars, loopVars, Phases
<1>23. CASE UNCHANGED vars
  BY <1>23 DEF vars, toolVars, batchVars, loopVars
<1> QED BY <1>1, <1>2, <1>3, <1>4, <1>5, <1>6, <1>7, <1>8, <1>9, <1>10, <1>11, <1>12, <1>13,
           <1>14, <1>15, <1>16, <1>17, <1>18, <1>19, <1>20, <1>21, <1>22, <1>23
        DEF Next, HandleReply, HandleCall, Settle, Returned

\* Every variable keeps its type in every behaviour of the loop.
THEOREM TypeCorrect == Spec => []TypeOK
<1>1. Typed => TypeOK
  BY DEF Typed
<1> QED BY <1>1, TypedInit, TypedStep, PTL DEF Spec

-----------------------------------------------------------------------------
(* The tool-call budget.  CallBudget alone is not inductive: a batch may     *)
(* start when one call of the budget is left and run to its end, and the     *)
(* approval that follows must have paid for that overshoot.                  *)

Granted == BaseCap + extension

BudgetInv ==
  /\ extension <= BaseCap * clarifications
  /\ total < Granted + MaxBatch * (1 + clarifications)
  /\ phase \in {"head", "call"} /\ ~closing => total < Granted + MaxBatch * clarifications
  /\ phase \in {"batch", "settle"} => total + pending < Granted + MaxBatch * (1 + clarifications)

\* The base budget is at least one call.
LEMMA BaseCapPositive ==
  ASSUME Typed
  PROVE  BaseCap \in Nat /\ BaseCap # 0
BY LimitsAssumption DEF Typed, TypeOK, BaseCap

\* One more clarification adds one more batch and one more base budget.
LEMMA OneMore ==
  ASSUME NEW b \in Nat, NEW c \in Nat
  PROVE  /\ b * c \in Nat /\ b * (1 + c) \in Nat
         /\ b * (c + 1) = b * c + b /\ b * (1 + c) = b * c + b
         /\ b * (1 + (c + 1)) = b * c + b + b
OBVIOUS

\* Room left under a bound stays when the bound grows.
LEMMA RoomGrows ==
  ASSUME NEW t \in Nat, NEW b \in Nat, NEW e \in Nat, NEW f \in Nat, NEW p \in Nat,
         NEW m \in Nat, t < b + e + (p + m), e <= f
  PROVE  t < b + f + (p + m) /\ t < b + f + (p + m + m)
OBVIOUS

LEMMA BudgetInit == Init => BudgetInv
<1> SUFFICES ASSUME Init PROVE BudgetInv
  OBVIOUS
<1>1. BaseCap \in Nat /\ BaseCap # 0
  BY TypedInit, BaseCapPositive
<1> QED BY <1>1, LimitsAssumption DEF Init, BudgetInv, Granted

\* The invariant only weakens when a clarification is approved, and the
\* approved run is back within the stricter bound of the loop head.
LEMMA BudgetApproved ==
  ASSUME Typed, BudgetInv, total' = total, effectiveMax' = effectiveMax,
         clarifications' = clarifications + 1, phase' = "head",
         extension' = extension \/ extension' = extension + BaseCap
  PROVE  BudgetInv'
<1>1. /\ BaseCap \in Nat /\ extension \in Nat /\ extension' \in Nat /\ BaseCap' = BaseCap
      /\ clarifications \in Nat /\ MaxBatch \in Nat /\ total \in Nat
      /\ extension <= extension' /\ extension' <= extension + BaseCap
  BY BaseCapPositive, LimitsAssumption DEF Typed, TypeOK, BaseCap
<1>2. /\ BaseCap * clarifications \in Nat
      /\ BaseCap * (clarifications + 1) = BaseCap * clarifications + BaseCap
  BY <1>1, OneMore
<1>3. /\ MaxBatch * clarifications \in Nat
      /\ MaxBatch * (1 + clarifications) = MaxBatch * clarifications + MaxBatch
      /\ MaxBatch * (clarifications + 1) = MaxBatch * clarifications + MaxBatch
      /\ MaxBatch * (1 + (clarifications + 1)) = MaxBatch * clarifications + MaxBatch + MaxBatch
  BY <1>1, OneMore
<1>4. extension' <= BaseCap * (clarifications + 1)
  BY <1>1, <1>2 DEF BudgetInv
<1>5. /\ total < BaseCap + extension' + MaxBatch * (clarifications + 1)
      /\ total < BaseCap + extension' + MaxBatch * (1 + (clarifications + 1))
  <2>1. total < BaseCap + extension + (MaxBatch * clarifications + MaxBatch)
    BY <1>3 DEF BudgetInv, Granted
  <2>2. /\ total < BaseCap + extension' + (MaxBatch * clarifications + MaxBatch)
        /\ total < BaseCap + extension' + (MaxBatch * clarifications + MaxBatch + MaxBatch)
    BY <1>1, <1>3, <2>1, RoomGrows
  <2> QED BY <1>3, <2>2
<1> QED BY <1>1, <1>4, <1>5 DEF BudgetInv, Granted

\* A step that runs no call and changes no budget keeps the invariant, if it
\* does not enter the loop head or a batch.
LEMMA BudgetIdle ==
  ASSUME Typed, BudgetInv,
         UNCHANGED <<total, effectiveMax, clarifications, extension>>,
         \/ phase' \notin {"head", "call", "batch", "settle"}
         \/ phase' \in {"head", "call"} /\ closing'
         \/ phase' \in {"head", "call"} /\ phase \in {"head", "call"} /\ closing' = closing
         \/ UNCHANGED <<phase, pending, closing>>
  PROVE  BudgetInv'
<1>1. BaseCap' = BaseCap
  BY DEF BaseCap
<1> QED BY <1>1 DEF BudgetInv, Granted

\* Declining changes no budget, and leaves the loop.
LEMMA BudgetClarify ==
  ASSUME Typed, BudgetInv, NEW w, Approved(w) \/ Declined(w),
         UNCHANGED <<total, effectiveMax, extension>>
  PROVE  BudgetInv'
<1>1. CASE Approved(w)
  BY <1>1, BudgetApproved DEF Approved
<1>2. CASE Declined(w)
  BY <1>2, BudgetIdle DEF Declined
<1> QED BY <1>1, <1>2

\* An executed call uses up one of the pending ones.
LEMMA BudgetAnswer ==
  ASSUME Typed, BudgetInv, NEW ts, NEW body, Answer(ts, body)
  PROVE  BudgetInv'
<1>1. BaseCap' = BaseCap /\ BaseCap \in Nat
  BY BaseCapPositive DEF BaseCap, Answer
<1>2. /\ total' = total + 1 /\ pending' = pending - 1
      /\ UNCHANGED <<extension, clarifications>> /\ phase' \in {"batch", "settle"}
      /\ phase = "batch" /\ pending > 0
  BY DEF Answer, Calling, loopVars
<1>3. total' + pending' = total + pending /\ total' <= total + pending
  BY <1>2 DEF Typed, TypeOK
<1>4. MaxBatch * (1 + clarifications) \in Nat /\ extension \in Nat /\ total' \in Nat
  BY <1>2, OneMore, LimitsAssumption DEF Typed, TypeOK
<1>5. total + pending < Granted + MaxBatch * (1 + clarifications)
  BY <1>2 DEF BudgetInv
<1>6. /\ total' < Granted + MaxBatch * (1 + clarifications)
      /\ total' + pending' < Granted + MaxBatch * (1 + clarifications)
  BY <1>1, <1>2, <1>3, <1>4, <1>5 DEF Granted, Typed, TypeOK
<1> QED BY <1>1, <1>2, <1>6 DEF BudgetInv, Granted

LEMMA BudgetStep == Typed /\ BudgetInv /\ [Next]_vars => BudgetInv'
<1> SUFFICES ASSUME Typed, BudgetInv, [Next]_vars PROVE BudgetInv'
  OBVIOUS
<1>1. CASE CallLLM
  BY <1>1, BudgetIdle DEF CallLLM, toolVars, loopVars
<1>2. CASE IterationLimit
  BY <1>2, BudgetClarify DEF IterationLimit, toolVars
<1>3. CASE ContextOverflow
  BY <1>3, BudgetIdle DEF ContextOverflow, toolVars, loopVars
<1>4. CASE LLMError
  BY <1>4, BudgetIdle DEF LLMError, toolVars, loopVars
<1>5. CASE ClosingToolCalls
  BY <1>5, BudgetIdle DEF ClosingToolCalls, Reply, toolVars, loopVars
<1>6. CASE Disclosure
  BY <1>6, BudgetIdle DEF Disclosure, Reply, toolVars
<1>7. ASSUME NEW n \in 1..MaxBatch, NEW text \in Texts, ToolCalls(n, text) PROVE BudgetInv'
  <2>1. /\ phase = "call" /\ ~closing /\ phase' = "batch" /\ pending' = n
        /\ UNCHANGED <<total, effectiveMax, extension, clarifications>>
    BY <1>7 DEF ToolCalls, Reply, toolVars
  <2>2. BaseCap' = BaseCap /\ BaseCap \in Nat
    BY <2>1, BaseCapPositive DEF BaseCap
  <2>3. total < Granted + MaxBatch * clarifications
    BY <2>1 DEF BudgetInv
  <2>4. /\ MaxBatch * clarifications \in Nat
        /\ MaxBatch * (1 + clarifications) = MaxBatch * clarifications + MaxBatch
    BY OneMore, LimitsAssumption DEF Typed, TypeOK
  <2>5. total + n < Granted + MaxBatch * (1 + clarifications)
    BY <2>2, <2>3, <2>4, LimitsAssumption DEF Granted, Typed, TypeOK
  <2> QED BY <2>1, <2>2, <2>5 DEF BudgetInv, Granted
<1>8. ASSUME NEW text \in Texts, SoftNudge(text) PROVE BudgetInv'
  BY <1>8, BudgetIdle DEF SoftNudge, Reply, toolVars
<1>9. ASSUME NEW text \in Texts, Nudge(text) PROVE BudgetInv'
  BY <1>9, BudgetIdle DEF Nudge, Premature, Reply, toolVars
<1>10. ASSUME NEW text \in Texts, NoProgress(text) PROVE BudgetInv'
  BY <1>10, BudgetClarify DEF NoProgress, Premature, Reply, toolVars
<1>11. ASSUME NEW text \in Texts, FinalReply(text) PROVE BudgetInv'
  BY <1>11, BudgetIdle DEF FinalReply, Reply, toolVars
<1>12. CASE SkipCall
  <2>1. /\ phase = "batch" /\ pending > 0 /\ pending' = pending - 1
        /\ phase' \in {"batch", "settle"}
        /\ UNCHANGED <<total, effectiveMax, extension, clarifications>>
    BY <1>12 DEF SkipCall, Calling, toolVars, loopVars
  <2>2. BaseCap' = BaseCap /\ BaseCap \in Nat
    BY <2>1, BaseCapPositive DEF BaseCap
  <2>3. MaxBatch * (1 + clarifications) \in Nat
    BY OneMore, LimitsAssumption DEF Typed, TypeOK
  <2>4. total + pending' < Granted + MaxBatch * (1 + clarifications)
    BY <2>1, <2>2, <2>3 DEF BudgetInv, Granted, Typed, TypeOK
  <2> QED BY <2>1, <2>2, <2>4 DEF BudgetInv, Granted
<1>13. CASE WorkCall
  BY <1>13, BudgetAnswer DEF WorkCall
<1>14. CASE UpdatePlan
  BY <1>14, BudgetAnswer DEF UpdatePlan
<1>15. ASSUME NEW args \in CompleteArgs, CompleteTask(args) PROVE BudgetInv'
  BY <1>15, BudgetAnswer DEF CompleteTask
<1>16. ASSUME NEW args \in CompleteArgs, AutoComplete(args) PROVE BudgetInv'
  BY <1>16, BudgetAnswer DEF AutoComplete
<1>17. ASSUME NEW args \in CompleteArgs, RefuseCompletion(args) PROVE BudgetInv'
  BY <1>17, BudgetAnswer DEF RefuseCompletion
<1>18. CASE StuckExit
  BY <1>18, BudgetIdle DEF StuckExit, settleUnchanged
<1>19. CASE TooManyFailures
  BY <1>19, BudgetClarify DEF TooManyFailures, settleUnchanged
<1>20. CASE ClosePlan
  BY <1>20, BudgetIdle DEF ClosePlan, AfterBatch, settleUnchanged
<1>21. CASE ContinuePlan
  <2>1. UNCHANGED <<total, effectiveMax>>
    BY <1>21 DEF ContinuePlan, AfterBatch, settleUnchanged
  <2>2. CASE CapReached /\ Approved(Focused) /\ extension' = extension + BaseCap
    BY <2>1, <2>2, BudgetApproved DEF Approved
  <2>3. CASE CapReached /\ Declined(Focused) /\ UNCHANGED extension
    BY <2>1, <2>3, BudgetClarify
  <2>4. CASE ~CapReached /\ phase' = "head" /\ UNCHANGED <<extension, clarifications>>
    <3>1. BaseCap' = BaseCap /\ BaseCap \in Nat
      BY <2>1, BaseCapPositive DEF BaseCap
    <3>2. total < Granted
      BY <2>4, <3>1 DEF CapReached, Granted, Typed, TypeOK
    <3>3. MaxBatch * clarifications \in Nat /\ MaxBatch * (1 + clarifications) \in Nat
      BY OneMore, LimitsAssumption DEF Typed, TypeOK
    <3>4. /\ total < Granted + MaxBatch * clarifications
          /\ total < Granted + MaxBatch * (1 + clarifications)
      BY <3>1, <3>2, <3>3 DEF Granted, Typed, TypeOK
    <3> QED BY <2>1, <2>4, <3>1, <3>4 DEF BudgetInv, Granted
  <2> QED BY <1>21, <2>2, <2>3, <2>4 DEF ContinuePlan
<1>22. CASE Finish
  BY <1>22, BudgetIdle DEF Finish, toolVars, loopVars
<1>23. CASE UNCHANGED vars
  BY <1>23, BudgetIdle DEF vars, toolVars, batchVars, loopVars
<1> QED BY <1>1, <1>2, <1>3, <1>4, <1>5, <1>6, <1>7, <1>8, <1>9, <1>10, <1>11, <1>12, <1>13,
           <1>14, <1>15, <1>16, <1>17, <1>18, <1>19, <1>20, <1>21, <1>22, <1>23
        DEF Next, HandleReply, HandleCall, Settle, Returned

\* However large the plan, the limits and the batches: each clarification the
\* user approves buys at most one base budget of tool calls and one batch.
THEOREM BudgetHolds == Spec => []CallBudget
<1>1. Typed /\ BudgetInv => CallBudget
  <2> SUFFICES ASSUME Typed, BudgetInv PROVE CallBudget
    OBVIOUS
  <2> DEFINE b == BaseCap  c == clarifications  m == MaxBatch
  <2>1. b \in Nat /\ c \in Nat /\ m \in Nat /\ total \in Nat /\ extension \in Nat
    BY BaseCapPositive, LimitsAssumption DEF Typed, TypeOK
  <2>2. extension <= b * c /\ total < b + extension + m * (1 + c)
    BY DEF BudgetInv, Granted
  <2>3. (b + m) * (1 + c) = b + b * c + m * (1 + c)
    BY <2>1
  <2>4. b * c \in Nat /\ m * (1 + c) \in Nat
    BY <2>1, OneMore
  <2> HIDE DEF b, c, m
  <2>5. total < b + b * c + m * (1 + c)
    BY <2>1, <2>2, <2>4
  <2> QED BY <2>3, <2>5 DEF CallBudget, b, c, m
<1> QED BY <1>1, TypedInit, TypedStep, BudgetInit, BudgetStep, PTL DEF Spec

-----------------------------------------------------------------------------
(* Completed tasks: a plan whose completed tasks come first stays so, and     *)
(* keeps them at their places.                                               *)

\* In an ordered plan the increasing enumeration of the completed tasks is the
\* identity: its least exception would skip a completed task or repeat one.
LEMMA OrderIsIdentity ==
  ASSUME NEW ts \in Seq(Task), Ordered(ts), NEW f \in Orders(Completed(ts))
  PROVE  \A k \in 1..Cardinality(Completed(ts)) : f[k] = k
<1> DEFINE D == Completed(ts)
           c == Cardinality(Completed(ts))
<1>1. /\ c \in Nat /\ f \in [1..c -> D] /\ D \subseteq 1..Len(ts) /\ Len(ts) \in Nat
      /\ \A k, l \in 1..c : k < l => f[k] < f[l]
      /\ \A i \in D : \E k \in 1..c : f[k] = i
  BY OrderType, LenProperties
<1>2. \A i \in D, j \in 1..Len(ts) : j < i => j \in D
  BY LenProperties DEF Ordered, Completed
<1> HIDE DEF D, c
<1>3. SUFFICES ASSUME NEW x \in 1..c, f[x] # x PROVE FALSE
  BY DEF c
<1>4. PICK k \in 1..c : f[k] # k /\ \A j \in 1..c : j < k => f[j] = j
  <2> DEFINE B == {j \in 1..c : f[j] # j}
  <2>1. B \subseteq Nat /\ B # {}
    BY <1>1, <1>3
  <2>2. PICK k \in B : \A y \in B : k <= y
    BY <2>1, SmallestExists
  <2>3. \A j \in 1..c : j < k => f[j] = j
    BY <1>1, <2>2
  <2> QED BY <2>2, <2>3
<1>5. f[k] \in 1..Len(ts) /\ f[k] \in D
  BY <1>1
<1>6. CASE f[k] < k
  <2>1. f[k] \in 1..c
    BY <1>1, <1>4, <1>5, <1>6
  <2>2. f[f[k]] = f[k]
    BY <1>4, <1>6, <2>1
  <2>3. f[f[k]] < f[k]
    BY <1>1, <1>6, <2>1
  <2> QED BY <1>1, <1>5, <2>2, <2>3
<1>7. CASE k < f[k]
  <2>1. k \in D
    BY <1>1, <1>2, <1>5, <1>7
  <2>2. PICK l \in 1..c : f[l] = k
    BY <1>1, <2>1
  <2>3. ~(l < k)
    BY <1>1, <1>4, <2>2
  <2>4. ~(k < l)
    <3>1. k < l => f[k] < f[l]
      BY <1>1
    <3> QED BY <1>1, <1>5, <1>7, <2>2, <3>1
  <2> QED BY <1>1, <1>4, <2>2, <2>3, <2>4
<1> QED BY <1>1, <1>4, <1>5, <1>6, <1>7

\* A replan of an ordered plan is ordered and keeps the completed tasks.
LEMMA ReplanOrdered ==
  ASSUME NEW ts \in Seq(Task), Ordered(ts), NEW n \in Nat,
         NEW order \in Orders(Completed(ts)), NEW top \in LargestIds(ts)
  PROVE  /\ Ordered(Replan(ts, order, top, n))
         /\ Keeps(ts, Replan(ts, order, top, n))
<1> DEFINE plan == Replan(ts, order, top, n)
           c    == Cardinality(Completed(ts))
<1>1. /\ c \in Nat /\ order \in [1..c -> Completed(ts)]
      /\ Completed(ts) \subseteq 1..Len(ts)
      /\ \A i \in Completed(ts) : \E k \in 1..c : order[k] = i
  BY OrderType
<1>2. /\ plan \in Seq(Task) /\ Len(plan) = c + n
      /\ \A k \in 1..c : plan[k] = ts[order[k]]
      /\ \A k \in (c + 1)..(c + n) : ~plan[k].completed
  BY ReplanType
<1>3. \A k \in 1..c : order[k] = k
  BY OrderIsIdentity
<1>4. DOMAIN plan = 1..(c + n)
  BY <1>2, LenProperties
<1>5. \A k \in 1..c : plan[k].completed
  BY <1>1, <1>2 DEF Completed
<1> HIDE DEF plan, c
<1>6. Ordered(plan)
  <2> SUFFICES ASSUME NEW i \in 1..(c + n), NEW j \in 1..(c + n), i < j, plan[j].completed
               PROVE  plan[i].completed
    BY <1>4 DEF Ordered
  <2>1. j \in 1..c
    BY <1>1, <1>2
  <2>2. i \in 1..c
    BY <1>1, <2>1
  <2> QED BY <1>5, <2>2
<1>7. Keeps(ts, plan)
  <2> SUFFICES ASSUME NEW i \in Completed(ts) PROVE i \in DOMAIN plan /\ plan[i] = ts[i]
    BY DEF Keeps
  <2>1. PICK k \in 1..c : order[k] = i
    BY <1>1
  <2>2. k = i
    BY <1>3, <2>1
  <2>3. i \in 1..(c + n)
    BY <1>1, <2>1, <2>2
  <2> QED BY <1>2, <1>4, <2>1, <2>2, <2>3
<1> QED BY <1>6, <1>7 DEF plan

\* Completing any task keeps the completed ones, and completing the current
\* one leaves an ordered plan ordered: no open task precedes it.
LEMMA MarkOrdered ==
  ASSUME NEW ts \in Seq(Task), NEW id
  PROVE  /\ Keeps(ts, MarkCompleted(ts, id))
         /\ Ordered(ts) /\ Open(ts) # {} => Ordered(MarkCompleted(ts, Current(ts).id))
<1>1. DOMAIN ts = 1..Len(ts) /\ Len(ts) \in Nat /\ \A i \in DOMAIN ts : ts[i] \in Task
  BY LenProperties, ElementOfSeq
<1>2. ASSUME NEW x
      PROVE  LET hits == {i \in DOMAIN ts : ts[i].id = x}
             IN  /\ hits = {} => MarkCompleted(ts, x) = ts
                 /\ hits # {} =>
                      /\ Least(hits) \in hits /\ \A i \in hits : Least(hits) <= i
                      /\ DOMAIN MarkCompleted(ts, x) = DOMAIN ts
                      /\ MarkCompleted(ts, x)[Least(hits)].completed
                      /\ \A i \in DOMAIN ts : i # Least(hits) => MarkCompleted(ts, x)[i] = ts[i]
                      /\ ts[Least(hits)].completed =>
                           MarkCompleted(ts, x)[Least(hits)] = ts[Least(hits)]
  <2> DEFINE hits == {i \in DOMAIN ts : ts[i].id = x}
  <2>1. CASE hits = {}
    BY <2>1 DEF MarkCompleted
  <2>2. CASE hits # {}
    <3>1. hits \subseteq Nat
      BY <1>1
    <3>2. Least(hits) \in hits /\ \A i \in hits : Least(hits) <= i
      BY <2>2, <3>1, LeastPicks
    <3>3. MarkCompleted(ts, x) = [ts EXCEPT ![Least(hits)].completed = TRUE]
      BY <2>2 DEF MarkCompleted
    <3>4. Least(hits) \in DOMAIN ts /\ ts[Least(hits)] \in Task
      BY <1>1, <3>2
    <3> DEFINE l == Least(hits)
               new == MarkCompleted(ts, x)
    <3> HIDE DEF hits, l, new
    <3>5. l \in DOMAIN ts /\ ts[l] \in Task /\ new = [ts EXCEPT ![l].completed = TRUE]
      BY <3>3, <3>4 DEF l, new
    <3>6. /\ DOMAIN new = DOMAIN ts
          /\ new[l] = [ts[l] EXCEPT !.completed = TRUE]
          /\ \A i \in DOMAIN ts : i # l => new[i] = ts[i]
      BY <3>5
    <3>7. new[l].completed /\ (ts[l].completed => new[l] = ts[l])
      BY <3>5, <3>6 DEF Task
    <3> QED BY <2>2, <3>2, <3>6, <3>7 DEF l, new, hits
  <2> QED BY <2>1, <2>2
<1>3. Keeps(ts, MarkCompleted(ts, id))
  <2> DEFINE hits == {i \in DOMAIN ts : ts[i].id = id}
  <2>1. CASE hits = {}
    BY <1>2, <2>1 DEF Keeps, Completed
  <2>2. CASE hits # {}
    <3>1. \A i \in Completed(ts) : i \in DOMAIN ts /\ ts[i].completed
      BY DEF Completed
    <3> HIDE DEF hits
    <3> QED BY <1>2, <2>2, <3>1 DEF Keeps, hits
  <2> QED BY <2>1, <2>2
<1>4. ASSUME Ordered(ts), Open(ts) # {} PROVE Ordered(MarkCompleted(ts, Current(ts).id))
  <2> DEFINE o == Least(Open(ts))
             hits == {i \in DOMAIN ts : ts[i].id = ts[o].id}
             new == MarkCompleted(ts, Current(ts).id)
  <2>1. Open(ts) \subseteq Nat
    BY <1>1 DEF Open
  <2>2. o \in Open(ts) /\ \A i \in Open(ts) : o <= i
    BY <1>4, <2>1, LeastPicks
  <2>3. o \in DOMAIN ts /\ \A i \in DOMAIN ts : i < o => ts[i].completed
    <3> HIDE DEF o
    <3>1. o \in DOMAIN ts
      BY <2>2 DEF Open
    <3>2. \A i \in DOMAIN ts : i < o => i \notin Open(ts)
      BY <1>1, <2>2, <3>1
    <3> QED BY <3>1, <3>2 DEF Open
  <2>4. o \in hits
    BY <2>3
  <2>5. new = MarkCompleted(ts, ts[o].id)
    BY DEF Current
  <2>6. /\ Least(hits) \in hits /\ Least(hits) <= o
        /\ DOMAIN new = DOMAIN ts /\ new[Least(hits)].completed
        /\ \A i \in DOMAIN ts : i # Least(hits) => new[i] = ts[i]
    BY <1>2, <2>4, <2>5
  <2>7. Least(hits) \in DOMAIN ts
    BY <2>6
  <2> HIDE DEF o, hits, new
  <2>8. ASSUME NEW i \in DOMAIN ts, NEW j \in DOMAIN ts, i < j, new[j].completed
        PROVE  new[i].completed
    <3>1. CASE i = Least(hits)
      BY <2>6, <3>1
    <3>2. CASE i # Least(hits) /\ j # Least(hits)
      BY <1>4, <2>6, <2>8, <3>2 DEF Ordered
    <3>3. CASE i # Least(hits) /\ j = Least(hits)
      <4>1. i < o
        BY <1>1, <2>3, <2>6, <2>8, <3>3
      <4> QED BY <2>3, <2>6, <3>3, <4>1
    <3> QED BY <3>1, <3>2, <3>3
  <2>9. Ordered(new)
    BY <2>6, <2>8 DEF Ordered
  <2> QED BY <2>9 DEF new
<1> QED BY <1>3, <1>4

\* A completion that is accepted names the current task.
LEMMA CompletesCurrent ==
  ASSUME NEW args \in CompleteArgs, CompletionError(args) = <<>>
  PROVE  Open(tasks) # {} /\ args.id % IdModulus = Current(tasks).id
BY DEF CompletionError

\* What a step does to the plan: nothing, a replan, or it completes the current
\* task.
LEMMA PlanStep ==
  ASSUME [Next]_vars
  PROVE  \/ UNCHANGED tasks
         \/ \E n \in 1..MaxReplanTasks, order \in Orders(Completed(tasks)), top \in LargestIds(tasks) :
              tasks' = Replan(tasks, order, top, n)
         \/ Open(tasks) # {} /\ tasks' = MarkCompleted(tasks, Current(tasks).id)
<1>1. CASE UpdatePlan
  <2>1. CASE \E body \in Bodies : Answer(tasks, body)
    BY <2>1 DEF Answer
  <2>2. CASE \E n \in 1..MaxReplanTasks, body \in {"short", "notice"},
                order \in Orders(Completed(tasks)), top \in LargestIds(tasks) :
               Answer(Replan(tasks, order, top, n), body)
    BY <2>2 DEF Answer
  <2> QED BY <1>1, <2>1, <2>2 DEF UpdatePlan, Bodies
<1>2. ASSUME NEW args \in CompleteArgs, CompleteTask(args)
      PROVE  Open(tasks) # {} /\ tasks' = MarkCompleted(tasks, Current(tasks).id)
  <2>1. Open(tasks) # {} /\ args.id % IdModulus = Current(tasks).id
    BY <1>2, CompletesCurrent DEF CompleteTask
  <2> QED BY <1>2, <2>1 DEF CompleteTask, Answer
<1>3. ASSUME NEW args \in CompleteArgs, AutoComplete(args)
      PROVE  Open(tasks) # {} /\ tasks' = MarkCompleted(tasks, Current(tasks).id)
  BY <1>3 DEF AutoComplete, Answer
<1>4. CASE HandleReply
  BY <1>4 DEF HandleReply, ContextOverflow, LLMError, ClosingToolCalls, Disclosure, ToolCalls,
              SoftNudge, Nudge, NoProgress, Premature, FinalReply
<1>5. CASE Settle
  BY <1>5 DEF Settle, StuckExit, TooManyFailures, ClosePlan, ContinuePlan, AfterBatch,
              settleUnchanged
<1>6. CASE CallLLM \/ IterationLimit \/ Finish \/ SkipCall \/ WorkCall
           \/ \E args \in CompleteArgs : RefuseCompletion(args)
  BY <1>6 DEF CallLLM, IterationLimit, Finish, SkipCall, WorkCall, RefuseCompletion, Answer
<1>7. CASE Returned \/ UNCHANGED vars
  BY <1>7 DEF Returned, vars
<1> QED BY <1>1, <1>2, <1>3, <1>4, <1>5, <1>6, <1>7 DEF Next, HandleCall

LEMMA OrderStep ==
  Typed /\ CompletedInOrder /\ [Next]_vars => CompletedInOrder' /\ Keeps(tasks, tasks')
<1> SUFFICES ASSUME Typed, CompletedInOrder, [Next]_vars
             PROVE  Ordered(tasks') /\ Keeps(tasks, tasks')
  BY DEF CompletedInOrder
<1>t. tasks \in Seq(Task) /\ Ordered(tasks)
  BY DEF Typed, TypeOK, CompletedInOrder
<1>1. CASE UNCHANGED tasks
  BY <1>t, <1>1 DEF Keeps, Completed
<1>2. CASE \E n \in 1..MaxReplanTasks, order \in Orders(Completed(tasks)), top \in LargestIds(tasks) :
             tasks' = Replan(tasks, order, top, n)
  <2>1. PICK n \in 1..MaxReplanTasks, order \in Orders(Completed(tasks)), top \in LargestIds(tasks) :
             tasks' = Replan(tasks, order, top, n)
    BY <1>2
  <2>2. n \in Nat
    BY LimitsAssumption
  <2> QED BY <1>t, <2>1, <2>2, ReplanOrdered
<1>3. CASE Open(tasks) # {} /\ tasks' = MarkCompleted(tasks, Current(tasks).id)
  BY <1>t, <1>3, MarkOrdered
<1> QED BY <1>1, <1>2, <1>3, PlanStep

\* If every plan starts with its completed tasks, tasks are completed in order,
\* whatever the LLM completes, recovers or replans.
THEOREM InOrderHolds ==
  ASSUME \A plan \in InitialPlans : Ordered(plan)
  PROVE  Spec => []CompletedInOrder
<1>1. Init => CompletedInOrder
  BY DEF Init, CompletedInOrder
<1> QED BY <1>1, TypedInit, TypedStep, OrderStep, PTL DEF Spec

\* Under the same assumption no step reopens or drops a completed task.
THEOREM KeptHolds ==
  ASSUME \A plan \in InitialPlans : Ordered(plan)
  PROVE  Spec => CompletedTasksKept
<1>1. Typed /\ CompletedInOrder /\ [Next]_vars => [Keeps(tasks, tasks')]_vars
  BY OrderStep
<1> QED BY <1>1, InOrderHolds, TypedInit, TypedStep, PTL DEF Spec, CompletedTasksKept

-----------------------------------------------------------------------------
(* The refinement of TaskList.  Besides the order of the tasks it needs that *)
(* their ids stay distinct, and they do while the numbers of a replan fit    *)
(* the width of an id: beyond it they wrap and may be given out twice.       *)

DistinctIds(ts) == \A i, j \in DOMAIN ts : ts[i].id = ts[j].id => i = j
PlanDistinct == DistinctIds(tasks)
IdsFit == \A top \in LargestIds(tasks) : top + MaxReplanTasks < IdModulus

LEMMA ModSmall ==
  ASSUME NEW a \in Nat, NEW m \in Nat, a < m
  PROVE  a % m = a
OBVIOUS

\* Distinct ids make the ids of a plan a plan of TaskList.
LEMMA DistinctIsPlan ==
  ASSUME NEW ts \in Seq(Task), DistinctIds(ts)
  PROVE  IdsOf(ts) \in List!Plans
<1>1. DOMAIN ts = 1..Len(ts) /\ Len(ts) \in Nat /\ \A i \in DOMAIN ts : ts[i] \in Task
  BY LenProperties, ElementOfSeq
<1>2. \A i \in DOMAIN ts : ts[i].id \in Nat
  BY <1>1 DEF Task
<1>3. IdsOf(ts) \in [1..Len(ts) -> Nat]
  BY <1>1, <1>2 DEF IdsOf
<1>4. IdsOf(ts) \in Seq(Nat)
  BY <1>1, <1>3, SeqDef
<1> QED BY <1>4 DEF List!Plans, DistinctIds, IdsOf

LEMMA ReplanRefines ==
  ASSUME NEW ts \in Seq(Task), Ordered(ts), DistinctIds(ts), NEW n \in Nat,
         NEW order \in Orders(Completed(ts)), NEW top \in LargestIds(ts),
         top + n < IdModulus
  PROVE  LET plan == Replan(ts, order, top, n)
         IN  /\ plan \in Seq(Task) /\ DistinctIds(plan)
             /\ Completed(plan) = Completed(ts)
             /\ \A i \in Completed(ts) : i \in DOMAIN plan /\ plan[i] = ts[i]
<1> DEFINE plan == Replan(ts, order, top, n)
           c    == Cardinality(Completed(ts))
<1>1. /\ c \in Nat /\ order \in [1..c -> Completed(ts)]
      /\ Completed(ts) \subseteq 1..Len(ts)
      /\ \A i \in Completed(ts) : \E k \in 1..c : order[k] = i
  BY OrderType
<1>2. /\ plan \in Seq(Task) /\ Len(plan) = c + n
      /\ \A k \in 1..c : plan[k] = ts[order[k]]
      /\ \A k \in (c + 1)..(c + n) : ~plan[k].completed
  BY ReplanType
<1>3. DOMAIN plan = 1..(c + n) /\ DOMAIN ts = 1..Len(ts) /\ Len(ts) \in Nat
      /\ \A i \in DOMAIN ts : ts[i] \in Task
  BY <1>2, LenProperties, ElementOfSeq
<1>4. \A k \in 1..c : order[k] = k
  BY OrderIsIdentity
<1>5. Completed(ts) = 1..c
  <2>1. \A i \in Completed(ts) : i \in 1..c
    BY <1>1, <1>4
  <2>2. \A k \in 1..c : k \in Completed(ts)
    <3> HIDE DEF c
    <3>1. \A k \in 1..c : order[k] \in Completed(ts)
      BY <1>1
    <3> QED BY <1>4, <3>1
  <2> HIDE DEF c
  <2> QED BY <2>1, <2>2
<1>6. \A k \in 1..c : plan[k] = ts[k] /\ ts[k].completed
  BY <1>2, <1>4, <1>5 DEF Completed
<1>7. top \in Nat /\ \A k \in 1..c : ts[k].id <= top
  <2>1. \A i \in Completed(ts) : ts[i].id \in Nat
    BY <1>1, <1>3 DEF Task
  <2> DEFINE ids == {ts[i].id : i \in Completed(ts)}
  <2>2. top \in ids \cup {0} /\ \A x \in ids : x <= top
    BY DEF LargestIds
  <2>3. \A k \in 1..c : ts[k].id \in ids
    BY <1>5
  <2>4. ids \subseteq Nat
    BY <2>1
  <2> HIDE DEF ids, c
  <2>5. top \in Nat
    BY <2>2, <2>4
  <2>6. \A k \in 1..c : ts[k].id <= top
    BY <2>2, <2>3
  <2> QED BY <2>5, <2>6
<1>8. \A k \in (c + 1)..(c + n) : plan[k].id = top + (k - c)
  <2> DEFINE kept == [k \in DOMAIN order |-> ts[order[k]]]
             new  == Fresh(top, n)
  <2>1. kept \in Seq(Task) /\ Len(kept) = c
    <3>1. DOMAIN order = 1..c
      BY <1>1
    <3>2. kept \in [1..c -> Task]
      BY <1>1, <1>3, <3>1
    <3>3. kept \in Seq(Task)
      BY <1>1, <3>2, SeqDef
    <3> QED BY <1>1, <3>1, <3>3, LenProperties
  <2>2. /\ new \in Seq(Task) /\ Len(new) = n
        /\ \A k \in 1..n : new[k].id = (top + k) % IdModulus
    <3>1. new \in [1..n -> Task]
      BY <1>7, LimitsAssumption DEF Fresh, Task
    <3>2. new \in Seq(Task)
      BY <3>1, SeqDef
    <3> QED BY <3>1, <3>2, LenProperties DEF Fresh
  <2>3. plan = kept \o new
    BY DEF Replan
  <2> HIDE DEF kept, new, plan, c
  <2>4. ASSUME NEW k \in (c + 1)..(c + n) PROVE plan[k].id = top + (k - c)
    <3>1. k - c \in 1..n /\ k > c
      BY <1>1
    <3>2. plan[k] = new[k - c]
      BY <1>1, <2>1, <2>2, <2>3, <3>1, ConcatProperties
    <3>3. top + (k - c) \in Nat /\ IdModulus \in Nat /\ top + (k - c) < IdModulus
      BY <1>7, <3>1, LimitsAssumption
    <3>4. (top + (k - c)) % IdModulus = top + (k - c)
      BY <3>3, ModSmall
    <3> QED BY <2>2, <3>1, <3>2, <3>4
  <2> QED BY <2>4
<1> HIDE DEF plan, c
<1>9. DistinctIds(plan)
  <2> SUFFICES ASSUME NEW i \in 1..(c + n), NEW j \in 1..(c + n), plan[i].id = plan[j].id
               PROVE  i = j
    BY <1>3 DEF DistinctIds
  <2>0. \A k \in 1..c : k \in DOMAIN ts /\ plan[k].id = ts[k].id /\ ts[k].id \in Nat
    BY <1>1, <1>3, <1>5, <1>6 DEF Task
  <2>1. CASE i <= c /\ j <= c
    BY <1>1, <2>0, <2>1 DEF DistinctIds
  <2>2. CASE i <= c /\ j > c
    BY <1>1, <1>7, <1>8, <2>0, <2>2
  <2>3. CASE i > c /\ j <= c
    BY <1>1, <1>7, <1>8, <2>0, <2>3
  <2>4. CASE i > c /\ j > c
    <3>1. i \in (c + 1)..(c + n) /\ j \in (c + 1)..(c + n)
      BY <1>1, <2>4
    <3>2. plan[i].id = top + (i - c) /\ plan[j].id = top + (j - c)
      BY <1>8, <3>1
    <3>3. top + (i - c) = top + (j - c)
      BY <3>2
    <3> QED BY <1>1, <1>7, <3>3
  <2> QED BY <1>1, <2>1, <2>2, <2>3, <2>4
<1>10. Completed(plan) = 1..c
  <2> HIDE DEF plan, c
  <2>1. ASSUME NEW k \in 1..(c + n) PROVE plan[k].completed <=> k \in 1..c
    <3>1. k \in 1..c => plan[k].completed
      BY <1>6
    <3>2. k \notin 1..c => k \in (c + 1)..(c + n)
      BY <1>1
    <3>3. k \in (c + 1)..(c + n) => ~plan[k].completed
      BY <1>2
    <3> QED BY <3>1, <3>2, <3>3
  <2> QED BY <1>1, <1>3, <2>1 DEF Completed
<1>11. \A i \in Completed(ts) : i \in DOMAIN plan /\ plan[i] = ts[i]
  <2>1. \A i \in 1..c : i \in 1..(c + n)
    BY <1>1
  <2> QED BY <1>3, <1>5, <1>6, <2>1
<1>12. Completed(plan) = Completed(ts)
  BY <1>5, <1>10
<1> QED BY <1>2, <1>9, <1>11, <1>12 DEF plan

LEMMA MarkRefines ==
  ASSUME NEW ts \in Seq(Task), Ordered(ts), DistinctIds(ts), Open(ts) # {}
  PROVE  LET new == MarkCompleted(ts, Current(ts).id)
         IN  /\ DistinctIds(new) /\ IdsOf(new) = IdsOf(ts)
             /\ \E i \in DOMAIN ts : Completed(ts) = 1..(i - 1) /\ Completed(new) = 1..i
<1> DEFINE o    == Least(Open(ts))
           hits == {i \in DOMAIN ts : ts[i].id = ts[o].id}
           new  == MarkCompleted(ts, Current(ts).id)
<1>1. DOMAIN ts = 1..Len(ts) /\ Len(ts) \in Nat /\ \A i \in DOMAIN ts : ts[i] \in Task
  BY LenProperties, ElementOfSeq
<1>2. Open(ts) \subseteq Nat
  BY <1>1 DEF Open
<1>3. o \in Open(ts) /\ \A i \in Open(ts) : o <= i
  BY <1>2, LeastPicks
<1>4. o \in DOMAIN ts /\ ~ts[o].completed
  BY <1>3 DEF Open
<1>5. hits = {o}
  BY <1>4 DEF DistinctIds
<1>6. hits \subseteq Nat /\ hits # {}
  BY <1>1, <1>4, <1>5
<1>7. Least(hits) = o
  BY <1>5, <1>6, LeastPicks
<1>8. new = [ts EXCEPT ![o].completed = TRUE]
  BY <1>6, <1>7 DEF MarkCompleted, Current
<1> HIDE DEF o, hits, new
<1>9. /\ DOMAIN new = DOMAIN ts
      /\ new[o].completed /\ new[o].id = ts[o].id
      /\ \A i \in DOMAIN ts : i # o => new[i] = ts[i]
  <2>1. /\ DOMAIN new = DOMAIN ts
        /\ new[o] = [ts[o] EXCEPT !.completed = TRUE]
        /\ \A i \in DOMAIN ts : i # o => new[i] = ts[i]
    BY <1>4, <1>8
  <2> QED BY <1>1, <1>4, <2>1 DEF Task
<1>10. \A i \in DOMAIN ts : new[i].id = ts[i].id
  BY <1>9
<1>11. \A i \in DOMAIN ts : ts[i].completed <=> i < o
  <2>1. \A i \in DOMAIN ts : i < o => ts[i].completed
    <3>1. \A i \in DOMAIN ts : i < o => i \notin Open(ts)
      BY <1>1, <1>3, <1>4
    <3> QED BY <3>1 DEF Open
  <2>2. \A i \in DOMAIN ts : o < i => ~ts[i].completed
    BY <1>4 DEF Ordered
  <2> QED BY <1>1, <1>4, <2>1, <2>2
<1>12. Completed(ts) = 1..(o - 1)
  BY <1>1, <1>4, <1>11 DEF Completed
<1>13. Completed(new) = 1..o
  <2>1. \A i \in DOMAIN ts : new[i].completed <=> i <= o
    BY <1>1, <1>4, <1>9, <1>11
  <2> QED BY <1>1, <1>4, <1>9, <2>1 DEF Completed
<1>14. DistinctIds(new)
  BY <1>9, <1>10 DEF DistinctIds
<1>15. IdsOf(new) = IdsOf(ts)
  BY <1>9, <1>10 DEF IdsOf
<1> QED BY <1>4, <1>12, <1>13, <1>14, <1>15 DEF new

LEMMA RefinementStep ==
  ASSUME Typed, CompletedInOrder, PlanDistinct, IdsFit, [Next]_vars
  PROVE  PlanDistinct' /\ [List!Finish \/ List!Replan]_(List!listed)
<1> USE DEF PlanDistinct
<1>t. tasks \in Seq(Task) /\ Ordered(tasks)
  BY DEF Typed, TypeOK, CompletedInOrder
<1>1. CASE UNCHANGED tasks
  BY <1>1 DEF List!listed, IdsOf, Completed
<1>2. CASE \E n \in 1..MaxReplanTasks, order \in Orders(Completed(tasks)), top \in LargestIds(tasks) :
             tasks' = Replan(tasks, order, top, n)
  <2>1. PICK n \in 1..MaxReplanTasks, order \in Orders(Completed(tasks)), top \in LargestIds(tasks) :
             tasks' = Replan(tasks, order, top, n)
    BY <1>2
  <2>2. top \in Nat
    <3>1. DOMAIN tasks = 1..Len(tasks) /\ \A i \in DOMAIN tasks : tasks[i] \in Task
      BY <1>t, LenProperties, ElementOfSeq
    <3>2. \A i \in Completed(tasks) : tasks[i].id \in Nat
      BY <3>1 DEF Completed, Task
    <3> QED BY <3>2 DEF LargestIds
  <2>3. n \in Nat /\ top + n < IdModulus
    BY <2>2, LimitsAssumption DEF IdsFit
  <2>4. /\ tasks' \in Seq(Task) /\ DistinctIds(tasks')
        /\ Completed(tasks') = Completed(tasks)
        /\ \A i \in Completed(tasks) : i \in DOMAIN tasks' /\ tasks'[i] = tasks[i]
    BY <1>t, <2>1, <2>3, ReplanRefines
  <2>5. IdsOf(tasks') \in List!Plans
    BY <2>4, DistinctIsPlan
  <2>6. \A i \in Completed(tasks) : i \in DOMAIN IdsOf(tasks') /\ IdsOf(tasks')[i] = IdsOf(tasks)[i]
    <3>1. \A i \in Completed(tasks) : i \in DOMAIN tasks
      BY DEF Completed
    <3> QED BY <2>4, <3>1 DEF IdsOf
  <2>7. List!Replan
    BY <2>4, <2>5, <2>6 DEF List!Replan, List!Plans, IdsOf
  <2> QED BY <2>4, <2>7
<1>3. CASE Open(tasks) # {} /\ tasks' = MarkCompleted(tasks, Current(tasks).id)
  <2>1. /\ DistinctIds(tasks') /\ IdsOf(tasks') = IdsOf(tasks)
        /\ \E i \in DOMAIN tasks : Completed(tasks) = 1..(i - 1) /\ Completed(tasks') = 1..i
    BY <1>t, <1>3, MarkRefines
  <2>2. DOMAIN IdsOf(tasks) = DOMAIN tasks
    BY DEF IdsOf
  <2>3. List!Finish
    BY <2>1, <2>2 DEF List!Finish, IdsOf
  <2> QED BY <2>1, <2>3
<1> QED BY <1>1, <1>2, <1>3, PlanStep

\* The loop implements a task list: if plans start open, with distinct ids, and
\* as long as the ids of a replan fit their width, every step finishes the first
\* open task, replaces the open ones or leaves the list alone, for all limits,
\* plans, batches and replies.
THEOREM RefinesTaskList ==
  ASSUME \A plan \in InitialPlans : Completed(plan) = {} /\ DistinctIds(plan)
  PROVE  Spec /\ []IdsFit => ImplementsTaskList
<1>1. \A plan \in InitialPlans : Ordered(plan)
  BY DEF Completed, Ordered
<1>2. Init => List!Init /\ PlanDistinct
  <2> SUFFICES ASSUME Init PROVE List!Init /\ PlanDistinct
    OBVIOUS
  <2>1. tasks \in Seq(Task) /\ Completed(tasks) = {} /\ DistinctIds(tasks)
    BY PlansAssumption DEF Init
  <2>2. IdsOf(tasks) \in List!Plans
    BY <2>1, DistinctIsPlan
  <2> QED BY <2>1, <2>2 DEF List!Init, List!Plans, IdsOf, PlanDistinct
<1>3. Spec => [](Typed /\ CompletedInOrder)
  BY <1>1, InOrderHolds, TypedInit, TypedStep, PTL DEF Spec
<1>4. Typed /\ CompletedInOrder /\ PlanDistinct /\ IdsFit /\ [Next]_vars
      => PlanDistinct' /\ [List!Finish \/ List!Replan]_(List!listed)
  BY RefinementStep
<1> QED BY <1>2, <1>3, <1>4, PTL DEF Spec, ImplementsTaskList, List!Spec

-----------------------------------------------------------------------------
(* Well-formed requests.  The window starts with the last message of the      *)
(* previous request; a message with calls comes second in it, and its results *)
(* follow at once.                                                            *)

\* The second message of w has n calls, k of them answered, and nothing else in
\* w has calls or is a result.
Framed(w, n, k) ==
  /\ n \in Nat /\ k \in Nat /\ k <= n
  /\ w[1].calls = 0
  /\ n > 0 => Len(w) >= 2 + k /\ w[2].calls = n
  /\ \A i \in 2..Len(w) : (i # 2 \/ n = 0) => w[i].calls = 0
  /\ \A i \in 2..Len(w) : w[i].role = "tool" <=> i >= 3 /\ i <= 2 + k
\* Such a window while the results come in.
Batch(w, left) == \E n \in Nat : left <= n /\ n > 0 /\ Framed(w, n, n - left) /\ Len(w) = 2 + (n - left)
Whole(w) == \E n \in Nat : Framed(w, n, n)
\* A request may end with it.
Askable(w) == Last(w).role # "assistant" /\ Last(w).calls = 0

Windowed ==
  /\ phase = "batch" => pending >= 1 /\ Batch(window, pending)
  /\ phase = "settle" => Batch(window, 0)
  /\ phase \in {"head", "call", "exit", "done"} => Whole(window)
  /\ phase \in {"head", "call"} => Askable(window)

\* What a message added at the end does.
LEMMA AppendAt ==
  ASSUME NEW w \in Seq(Message), NEW m \in Message
  PROVE  /\ Append(w, m) \in Seq(Message) /\ Len(w) \in Nat /\ Len(Append(w, m)) = Len(w) + 1
         /\ Append(w, m)[Len(w) + 1] = m
         /\ \A i \in 1..Len(w) : Append(w, m)[i] = w[i]
BY AppendProperties

\* A message that is no result and has no calls leaves a whole window whole.
Plain == {m \in Message : m.calls = 0 /\ m.role # "tool"}

LEMMA PlainMessages ==
  /\ User \in Plain /\ System \in Plain /\ \A b \in Bodies : Assistant(0, b) \in Plain
  /\ User.role # "assistant" /\ System.role # "assistant"
BY MessageTypes DEF Plain, User, System, Assistant

LEMMA AppendWhole ==
  ASSUME NEW w \in Seq(Message), w # <<>>, Whole(w), NEW m \in Plain
  PROVE  /\ Append(w, m) \in Seq(Message) /\ Append(w, m) # <<>> /\ Whole(Append(w, m))
         /\ m.role # "assistant" => Askable(Append(w, m))
<1>0. m \in Message /\ m.calls = 0 /\ m.role # "tool"
  BY DEF Plain
<1> DEFINE v == Append(w, m)
           l == Len(w)
<1>1. /\ v \in Seq(Message) /\ l \in Nat /\ Len(v) = l + 1 /\ v[l + 1] = m
      /\ \A i \in 1..l : v[i] = w[i]
  BY <1>0, AppendAt
<1>2. l >= 1
  BY EmptySeq
<1>3. PICK n \in Nat : Framed(w, n, n)
  BY DEF Whole
<1> HIDE DEF v, l
<1>4. /\ w[1].calls = 0 /\ (n > 0 => l >= 2 + n /\ w[2].calls = n)
      /\ \A i \in 2..l : (i # 2 \/ n = 0) => w[i].calls = 0
      /\ \A i \in 2..l : w[i].role = "tool" <=> i >= 3 /\ i <= 2 + n
  BY <1>3 DEF Framed, l
<1>5. v[1].calls = 0 /\ (n > 0 => Len(v) >= 2 + n /\ v[2].calls = n)
  BY <1>1, <1>2, <1>4
<1>6. ASSUME NEW i \in 2..Len(v)
      PROVE  /\ (i # 2 \/ n = 0) => v[i].calls = 0
             /\ v[i].role = "tool" <=> i >= 3 /\ i <= 2 + n
  <2>1. CASE i = l + 1
    <3>1. ~(i >= 3 /\ i <= 2 + n)
      BY <1>1, <1>4, <2>1
    <3> QED BY <1>0, <1>1, <2>1, <3>1
  <2>2. CASE i # l + 1
    <3>1. i \in 1..l /\ i \in 2..l
      BY <1>1, <2>2
    <3> QED BY <1>1, <1>4, <3>1
  <2> QED BY <2>1, <2>2
<1>7. Whole(v)
  <2>1. n <= n
    OBVIOUS
  <2>2. Framed(v, n, n)
    BY <1>5, <1>6, <2>1 DEF Framed
  <2> QED BY <2>2 DEF Whole
<1>8. m.role # "assistant" => Askable(v)
  BY <1>0, <1>1 DEF Askable, Last
<1> QED BY <1>1, <1>7, <1>8, EmptySeq DEF v

\* Nor does such a message that is added on a condition.
LEMMA IfWhole ==
  ASSUME NEW w \in Seq(Message), w # <<>>, Whole(w), NEW b \in BOOLEAN, NEW m \in Plain
  PROVE  /\ w \o If(b, m) \in Seq(Message) /\ w \o If(b, m) # <<>> /\ Whole(w \o If(b, m))
         /\ Askable(w) /\ m.role # "assistant" => Askable(w \o If(b, m))
<1>1. m \in Message
  BY DEF Plain
<1>2. CASE b
  <2>1. w \o If(b, m) = Append(w, m)
    BY <1>1, <1>2 DEF If
  <2> QED BY <2>1, AppendWhole
<1>3. CASE ~b
  <2>1. w \o If(b, m) = w
    BY <1>3 DEF If
  <2> QED BY <2>1
<1> QED BY <1>2, <1>3

\* The next request starts with what this one ended with.
LEMMA SentWhole ==
  ASSUME Typed, Askable(window)
  PROVE  Sent \in Seq(Message) /\ Sent # <<>> /\ Len(Sent) = 1 /\ Whole(Sent) /\ Askable(Sent)
<1>1. Sent \in Seq(Message) /\ Sent # <<>> /\ Last(window) \in Message
  BY SentType DEF Typed, TypeOK
<1>2. Len(Sent) = 1 /\ Sent[1] = Last(window)
  BY <1>1 DEF Sent
<1>3. Framed(Sent, 0, 0)
  BY <1>2 DEF Framed, Askable
<1> QED BY <1>1, <1>2, <1>3 DEF Whole, Askable, Last

\* A reply with calls opens a batch, ...
LEMMA BatchOpens ==
  ASSUME Typed, Askable(window), NEW n \in 1..MaxBatch, NEW b \in Bodies
  PROVE  Batch(Append(Sent, Assistant(n, b)), n)
<1> DEFINE m == Assistant(n, b)
           w == Sent
           v == Append(w, m)
<1>1. n \in Nat /\ n > 0 /\ m \in Message /\ m.calls = n /\ m.role = "assistant"
  BY LimitsAssumption, MessageTypes DEF Assistant
<1>2. w \in Seq(Message) /\ Len(w) = 1 /\ w[1].calls = 0
  BY SentWhole DEF Askable, Last
<1> HIDE DEF m, w
<1>3. Len(v) = 2 /\ v[2] = m /\ v[1] = w[1]
  <2>1. Len(v) = Len(w) + 1 /\ v[Len(w) + 1] = m /\ \A i \in 1..Len(w) : v[i] = w[i]
    BY <1>1, <1>2, AppendAt
  <2>2. Len(w) + 1 = 2 /\ 1 \in 1..Len(w)
    BY <1>2
  <2> QED BY <2>1, <2>2
<1>4. Framed(v, n, n - n)
  BY <1>1, <1>2, <1>3 DEF Framed
<1> QED BY <1>1, <1>3, <1>4 DEF Batch, w, m

\* ... every result brings it nearer to its end, ...
LEMMA BatchAnswered ==
  ASSUME NEW w \in Seq(Message), NEW left \in Nat, left >= 1, Batch(w, left), NEW b \in Bodies
  PROVE  Batch(Append(w, ToolResult(b)), left - 1)
<1> DEFINE m == ToolResult(b)
           v == Append(w, m)
           l == Len(w)
<1>1. m \in Message /\ m.calls = 0 /\ m.role = "tool"
  BY MessageTypes DEF ToolResult
<1>2. PICK n \in Nat : left <= n /\ n > 0 /\ Framed(w, n, n - left) /\ l = 2 + (n - left)
  BY DEF Batch
<1>3. Len(v) = l + 1 /\ v[l + 1] = m /\ \A i \in 1..l : v[i] = w[i]
  BY <1>1, AppendAt
<1>4. /\ w[1].calls = 0 /\ w[2].calls = n /\ \A i \in 2..l : i # 2 => w[i].calls = 0
      /\ \A i \in 2..l : w[i].role = "tool" <=> i >= 3 /\ i <= 2 + (n - left)
  BY <1>2 DEF Framed
<1> HIDE DEF m, v, l
<1>5. n - (left - 1) \in Nat /\ n - (left - 1) <= n /\ l + 1 = 2 + (n - (left - 1)) /\ l \in Nat /\ l >= 2
  BY <1>2
<1>6. v[1].calls = 0 /\ v[2].calls = n
  <2>1. 1 \in 1..l /\ 2 \in 1..l
    BY <1>5
  <2> QED BY <1>3, <1>4, <2>1
<1>7. ASSUME NEW i \in 2..Len(v)
      PROVE  /\ i # 2 => v[i].calls = 0
             /\ v[i].role = "tool" <=> i >= 3 /\ i <= 2 + (n - (left - 1))
  <2>1. CASE i = l + 1
    <3>1. i >= 3 /\ i <= 2 + (n - (left - 1))
      BY <1>5, <2>1
    <3> QED BY <1>1, <1>3, <2>1, <3>1
  <2>2. CASE i # l + 1
    <3>1. i \in 1..l /\ i \in 2..l
      BY <1>3, <1>5, <2>2
    <3>2. i <= 2 + (n - left) /\ i <= 2 + (n - (left - 1))
      BY <1>2, <1>5, <3>1
    <3> QED BY <1>3, <1>4, <3>1, <3>2
  <2> QED BY <2>1, <2>2
<1>8. Framed(v, n, n - (left - 1)) /\ Len(v) = 2 + (n - (left - 1))
  BY <1>2, <1>3, <1>5, <1>6, <1>7 DEF Framed
<1>9. left - 1 <= n
  BY <1>2
<1> QED BY <1>2, <1>8, <1>9 DEF Batch, v, m

\* ... and then the window is whole and may be sent.
LEMMA BatchCloses ==
  ASSUME NEW w \in Seq(Message), Batch(w, 0)
  PROVE  Whole(w) /\ Askable(w)
<1>1. PICK n \in Nat : n > 0 /\ Framed(w, n, n - 0) /\ Len(w) = 2 + (n - 0)
  BY DEF Batch
<1>2. n - 0 = n
  OBVIOUS
<1>3. Len(w) >= 3 /\ Len(w) <= 2 + n /\ Len(w) \in 2..Len(w)
  BY <1>1
<1>4. Last(w).role = "tool" /\ Last(w).calls = 0
  BY <1>1, <1>2, <1>3 DEF Framed, Last
<1> QED BY <1>1, <1>2, <1>4 DEF Whole, Askable

\* A whole window answers every call once.
LEMMA WholeAnswers ==
  ASSUME NEW w \in Seq(Message), w # <<>>, Whole(w)
  PROVE  Answered(w)
<1> DEFINE l == Len(w)
<1>1. DOMAIN w = 1..l /\ l \in Nat /\ l >= 1
  BY LenProperties, EmptySeq
<1>2. PICK n \in Nat : Framed(w, n, n)
  BY DEF Whole
<1> HIDE DEF l
<1>3. /\ w[1].calls = 0 /\ (n > 0 => l >= 2 + n /\ w[2].calls = n)
      /\ \A i \in 2..l : (i # 2 \/ n = 0) => w[i].calls = 0
      /\ \A i \in 2..l : w[i].role = "tool" <=> i >= 3 /\ i <= 2 + n
  BY <1>2 DEF Framed, l
<1>4. ASSUME NEW i \in 1..l, w[i].calls > 0
      PROVE  /\ i + w[i].calls <= l
             /\ \A j \in 1..l : j > i => (j <= i + w[i].calls <=> \A k \in (i + 1)..j : w[k].role = "tool")
  <2>1. i = 2 /\ n > 0 /\ w[i].calls = n /\ l >= 2 + n
    <3>1. i # 1
      BY <1>3, <1>4
    <3>2. i \in 2..l
      BY <1>1, <3>1
    <3>3. ~(0 > 0)
      OBVIOUS
    <3>4. ~(i # 2 \/ n = 0)
      BY <1>3, <1>4, <3>2, <3>3
    <3> QED BY <1>3, <3>4
  <2>2. ASSUME NEW j \in 1..l, j > 2
        PROVE  j <= 2 + n <=> \A k \in 3..j : w[k].role = "tool"
    <3>1. \A k \in 3..j : k \in 2..l /\ k >= 3 /\ k <= j
      BY <1>1, <2>2
    <3>2. j \in 3..j
      BY <2>2
    <3>3. j <= 2 + n => \A k \in 3..j : k <= 2 + n
      BY <3>1
    <3> QED BY <1>3, <3>1, <3>2, <3>3
  <2>3. 2 + 1 = 3
    OBVIOUS
  <2> QED BY <2>1, <2>2, <2>3
<1>5. ASSUME NEW j \in 1..l, j > 1, w[j].role = "tool"
      PROVE  \E i \in 1..(j - 1) : w[i].calls > 0
  <2>1. j \in 2..l
    BY <1>1, <1>5
  <2>2. j >= 3 /\ j <= 2 + n
    BY <1>3, <1>5, <2>1
  <2>3. n > 0 /\ 2 \in 1..(j - 1)
    BY <2>2
  <2> QED BY <1>3, <2>3
<1> QED BY <1>1, <1>4, <1>5 DEF Answered, l

LEMMA WindowedInit == Init => Windowed
<1> SUFFICES ASSUME Init PROVE Windowed
  OBVIOUS
<1>1. window = <<User>> /\ phase = "head"
  BY DEF Init
<1>2. Len(window) = 1 /\ window[1] = User /\ User.calls = 0 /\ User.role = "user"
  BY <1>1 DEF User
<1>3. Framed(window, 0, 0) /\ Askable(window)
  BY <1>2 DEF Framed, Askable, Last
<1> QED BY <1>1, <1>3 DEF Windowed, Whole

\* A clarification about a window that may be sent.
LEMMA ClarifyWindowed ==
  ASSUME NEW w \in Seq(Message), w # <<>>, Whole(w), Askable(w), Approved(w) \/ Declined(w)
  PROVE  Windowed'
<1>1. Whole(Append(w, User)) /\ Askable(Append(w, User))
  BY AppendWhole, PlainMessages
<1> QED BY <1>1 DEF Approved, Declined, Windowed

LEMMA ReplyWindowed ==
  ASSUME Typed, Windowed, HandleReply
  PROVE  Windowed'
<1>0. phase = "call" /\ Askable(window) /\ Whole(window)
  BY DEF HandleReply, ContextOverflow, LLMError, ClosingToolCalls, Disclosure, ToolCalls, SoftNudge,
         Nudge, NoProgress, Premature, FinalReply, Reply, Windowed
<1>s. Sent \in Seq(Message) /\ Sent # <<>> /\ Whole(Sent) /\ Askable(Sent)
  BY <1>0, SentWhole
<1>u. /\ Append(Sent, User) \in Seq(Message) /\ Append(Sent, User) # <<>>
      /\ Whole(Append(Sent, User)) /\ Askable(Append(Sent, User))
  BY <1>s, AppendWhole, PlainMessages
<1> HIDE DEF Sent
<1>a. ASSUME NEW b \in Bodies
      PROVE  /\ Whole(Append(Sent, Assistant(0, b)))
             /\ Sent \o <<Assistant(0, b)>> = Append(Sent, Assistant(0, b))
             /\ Sent \o <<Assistant(0, b), User>> = Append(Append(Sent, Assistant(0, b)), User)
             /\ Whole(Append(Append(Sent, Assistant(0, b)), User))
             /\ Askable(Append(Append(Sent, Assistant(0, b)), User))
  <2>1. /\ Assistant(0, b) \in Plain /\ Assistant(0, b) \in Message
        /\ User \in Plain /\ User \in Message /\ User.role # "assistant"
    BY PlainMessages, MessageTypes
  <2>2. /\ Append(Sent, Assistant(0, b)) \in Seq(Message) /\ Append(Sent, Assistant(0, b)) # <<>>
        /\ Whole(Append(Sent, Assistant(0, b)))
    BY <1>s, <2>1, AppendWhole
  <2>3. /\ Whole(Append(Append(Sent, Assistant(0, b)), User))
        /\ Askable(Append(Append(Sent, Assistant(0, b)), User))
    BY <2>1, <2>2, AppendWhole
  <2> QED BY <1>s, <2>1, <2>2, <2>3
<1>1. CASE ContextOverflow
  BY <1>0, <1>1 DEF ContextOverflow, Windowed
<1>2. CASE LLMError
  BY <1>2 DEF LLMError, Windowed
<1>3. CASE ClosingToolCalls \/ Disclosure
  BY <1>3, <1>u DEF ClosingToolCalls, Disclosure, DisclosureWindow, Windowed
<1>4. ASSUME NEW n \in 1..MaxBatch, NEW text \in Texts, ToolCalls(n, text) PROVE Windowed'
  <2>1. PICK b \in Bodies : CallMessage(n, text) = Assistant(n, b)
    BY DEF CallMessage, Texts, Bodies
  <2>2. Batch(window', n)
    BY <1>0, <1>4, <2>1, BatchOpens DEF ToolCalls
  <2> QED BY <1>4, <2>2 DEF ToolCalls, Windowed
<1>5. ASSUME NEW text \in Texts, SoftNudge(text) PROVE Windowed'
  <2>1. text \in Bodies
    BY DEF Texts, Bodies
  <2> QED BY <1>5, <1>a, <2>1 DEF SoftNudge, Windowed
<1>6. ASSUME NEW text \in Texts, Nudge(text) PROVE Windowed'
  BY <1>6, <1>s, <1>u DEF Nudge, Windowed
<1>7. ASSUME NEW text \in Texts, NoProgress(text) PROVE Windowed'
  BY <1>7, <1>s, ClarifyWindowed DEF NoProgress
<1>8. ASSUME NEW text \in Texts, FinalReply(text) PROVE Windowed'
  <2>1. text \in Bodies /\ "summary" \in Bodies /\ "none" \in Bodies
    BY DEF Texts, Bodies
  <2>2. Sent \o <<>> = Sent
    BY <1>s
  <2>3. ASSUME NEW pushed \in TextMessages(text) PROVE Whole(Sent \o pushed)
    BY <1>s, <1>a, <2>1, <2>2 DEF TextMessages
  <2>4. Whole(window')
    BY <1>8, <1>a, <2>1, <2>3 DEF FinalReply
  <2> QED BY <1>8, <2>4 DEF FinalReply, Windowed
<1> QED BY <1>1, <1>2, <1>3, <1>4, <1>5, <1>6, <1>7, <1>8 DEF HandleReply

\* Every call of a batch gets one result.
LEMMA CallAnswered ==
  ASSUME Typed, Windowed, Calling, NEW body \in Bodies, window' = Append(window, ToolResult(body)),
         pending' = pending - 1, phase' = IF pending = 1 THEN "settle" ELSE "batch"
  PROVE  Windowed'
<1>1. window \in Seq(Message) /\ pending \in Nat
  BY DEF Typed, TypeOK
<1>2. Batch(window', pending - 1)
  BY <1>1, BatchAnswered DEF Calling, Windowed
<1> QED BY <1>1, <1>2 DEF Windowed, Calling

LEMMA CallWindowed ==
  ASSUME Typed, Windowed, HandleCall
  PROVE  Windowed'
<1>1. ASSUME NEW ts, NEW body \in Bodies, Answer(ts, body) PROVE Windowed'
  BY <1>1, CallAnswered DEF Answer
<1>b. {"short", "long", "notice", "ack"} \subseteq Bodies
  BY DEF Bodies
<1>2. CASE SkipCall
  BY <1>2, <1>b, CallAnswered DEF SkipCall
<1>3. CASE WorkCall
  BY <1>1, <1>3, <1>b DEF WorkCall
<1>4. CASE UpdatePlan
  BY <1>1, <1>4, <1>b DEF UpdatePlan
<1>5. ASSUME NEW args \in CompleteArgs, CompleteTask(args) \/ AutoComplete(args) PROVE Windowed'
  BY <1>1, <1>5, <1>b DEF CompleteTask, AutoComplete
<1>6. ASSUME NEW args \in CompleteArgs, RefuseCompletion(args) PROVE Windowed'
  <2>1. RefusalBodies(args) \subseteq Bodies
    BY <1>b DEF RefusalBodies
  <2> QED BY <1>1, <1>6, <2>1 DEF RefuseCompletion
<1> QED BY <1>2, <1>3, <1>4, <1>5, <1>6 DEF HandleCall

LEMMA SettleWindowed ==
  ASSUME Typed, Windowed, Settle
  PROVE  Windowed'
<1>0. window \in Seq(Message) /\ window # <<>> /\ phase = "settle" /\ pending' = pending
  BY DEF Typed, TypeOK, Settle, StuckExit, TooManyFailures, ClosePlan, ContinuePlan, AfterBatch, Settling,
         settleUnchanged, batchVars
<1>1. Whole(window) /\ Askable(window)
  BY <1>0, BatchCloses DEF Windowed
<1>p. User \in Plain /\ System \in Plain /\ User.role # "assistant" /\ System.role # "assistant"
  BY PlainMessages
<1>i. \A b : b \in BOOLEAN => b \in {TRUE, FALSE}
  OBVIOUS
<1>2. Reminders \in Seq(Message) /\ Reminders # <<>> /\ Whole(Reminders) /\ Askable(Reminders)
  <2> DEFINE w == window \o If(suppressed /\ Open(tasks) # {}, User)
  <2>1. w \in Seq(Message) /\ w # <<>> /\ Whole(w) /\ Askable(w)
    <3>1. (suppressed /\ Open(tasks) # {}) \in BOOLEAN
      OBVIOUS
    <3> QED BY <1>0, <1>1, <1>p, <3>1, IfWhole
  <2> HIDE DEF w
  <2>2. DepthLimitReached \in BOOLEAN
    BY DEF DepthLimitReached
  <2>3. LET v == w \o If(DepthLimitReached, User)
        IN  v \in Seq(Message) /\ v # <<>> /\ Whole(v) /\ Askable(v)
    BY <1>p, <2>1, <2>2, IfWhole
  <2> QED BY <2>3 DEF Reminders, w
<1>3. CASE StuckExit
  BY <1>1, <1>3 DEF StuckExit, Windowed
<1>4. CASE TooManyFailures
  BY <1>0, <1>1, <1>4, ClarifyWindowed DEF TooManyFailures
<1>5. CASE ClosePlan
  <2>1. Whole(Append(Reminders, User)) /\ Askable(Append(Reminders, User))
    BY <1>2, <1>p, AppendWhole
  <2>2. Whole(Reminders \o If(AssistantText # "long", Assistant(0, PickTrailing(Reminders))))
    <3>1. Assistant(0, PickTrailing(Reminders)) \in Plain
      BY <1>2, PickTrailingType, PlainMessages
    <3>2. (AssistantText # "long") \in BOOLEAN
      OBVIOUS
    <3> QED BY <1>2, <3>1, <3>2, IfWhole
  <2> QED BY <1>5, <2>1, <2>2 DEF ClosePlan, Windowed
<1>6. CASE ContinuePlan
  <2>1. Focused \in Seq(Message) /\ Focused # <<>> /\ Whole(Focused) /\ Askable(Focused)
    <3>1. (Open(tasks) # {}) \in BOOLEAN
      OBVIOUS
    <3> QED BY <1>2, <1>p, <3>1, IfWhole DEF Focused
  <2> QED BY <1>6, <2>1, ClarifyWindowed DEF ContinuePlan, Windowed
<1> QED BY <1>3, <1>4, <1>5, <1>6 DEF Settle

LEMMA WindowedStep == Typed /\ Windowed /\ [Next]_vars => Windowed'
<1> SUFFICES ASSUME Typed, Windowed, [Next]_vars PROVE Windowed'
  OBVIOUS
<1>0. window \in Seq(Message) /\ window # <<>>
  BY DEF Typed, TypeOK
<1>1. CASE CallLLM
  BY <1>1 DEF CallLLM, Windowed
<1>2. CASE IterationLimit
  BY <1>0, <1>2, ClarifyWindowed DEF IterationLimit, Windowed
<1>3. CASE Finish
  <2>1. Assistant(0, "summary") \in Plain
    BY PlainMessages DEF Bodies
  <2>2. (~AllCompleted(tasks) /\ total > 0) \in BOOLEAN
    OBVIOUS
  <2>3. Whole(window')
    BY <1>0, <1>3, <2>1, <2>2, IfWhole DEF Finish, Windowed
  <2> QED BY <1>3, <2>3 DEF Finish, Windowed
<1>4. CASE Returned \/ UNCHANGED vars
  BY <1>4 DEF Returned, vars, batchVars, Windowed
<1> QED BY <1>1, <1>2, <1>3, <1>4, ReplyWindowed, CallWindowed, SettleWindowed DEF Next

\* Whatever skips, disclosures, popped replies and reminders a turn goes through,
\* every history sent to the LLM, or returned, answers each recorded tool call
\* exactly once, and no request ends with an assistant message.
THEOREM RequestsAreWellFormed == Spec => []RequestsWellFormed
<1>1. Typed /\ Windowed => RequestsWellFormed
  <2> SUFFICES ASSUME Typed, Windowed PROVE RequestsWellFormed
    OBVIOUS
  <2>1. window \in Seq(Message) /\ window # <<>>
    BY DEF Typed, TypeOK
  <2> QED BY <2>1, WholeAnswers DEF RequestsWellFormed, Windowed, Askable
<1> QED BY <1>1, TypedInit, TypedStep, WindowedInit, WindowedStep, PTL DEF Spec

-----------------------------------------------------------------------------
(* Acknowledgements.  The call that completes a task makes the rest of its    *)
(* batch be skipped, because the task after it has another id; and it counts  *)
(* as no failure, so no acknowledgement is the last message of a request.     *)

Silent(w) == Acknowledged(w) = {}
Once(w) == \A i, j \in Acknowledged(w) : i = j

Acks ==
  /\ Once(window)
  /\ phase \in {"batch", "settle"} /\ ~Silent(window) => tasks # <<>> /\ consecutive = 0 /\ transitioned
  /\ phase \in {"head", "call"} => Last(window).body # "ack"

\* Completing the current task of a plan leaves fewer open, and another current
\* one or none.
LEMMA MarkMoves ==
  ASSUME NEW ts \in Seq(Task), Ordered(ts), DistinctIds(ts), Open(ts) # {}
  PROVE  LET new == MarkCompleted(ts, Current(ts).id)
         IN  /\ new # <<>> /\ CurrentId(new) # CurrentId(ts)
             /\ Cardinality(Open(new)) < Cardinality(Open(ts))
<1> DEFINE new == MarkCompleted(ts, Current(ts).id)
<1>1. new \in Seq(Task)
  BY MarkType
<1>2. IdsOf(new) = IdsOf(ts)
  BY MarkRefines
<1>3. PICK i \in DOMAIN ts : Completed(ts) = 1..(i - 1) /\ Completed(new) = 1..i
  BY MarkRefines
<1>4. DOMAIN ts = 1..Len(ts) /\ Len(ts) \in Nat
  BY LenProperties
<1> HIDE DEF new
<1>5. DOMAIN new = DOMAIN ts /\ \A k \in DOMAIN ts : new[k].id = ts[k].id
  BY <1>2 DEF IdsOf
<1>6. Open(ts) = DOMAIN ts \ Completed(ts) /\ Open(new) = DOMAIN ts \ Completed(new)
  BY <1>5 DEF Open, Completed
<1>7. i \in Open(ts) /\ Open(new) = Open(ts) \ {i} /\ \A k \in Open(ts) : i <= k
  BY <1>3, <1>4, <1>6
<1>8. Cardinality(Open(new)) < Cardinality(Open(ts))
  <2>1. IsFiniteSet(Open(ts))
    <3>1. Open(ts) \subseteq 1..Len(ts)
      BY <1>4, <1>6
    <3>2. IsFiniteSet(1..Len(ts))
      BY <1>4, FS_Interval
    <3> QED BY <3>1, <3>2, FS_Subset
  <2>2. Cardinality(Open(new)) = Cardinality(Open(ts)) - 1 /\ Cardinality(Open(ts)) \in Nat
    BY <1>7, <2>1, FS_RemoveElement, FS_CardinalityType
  <2> QED BY <2>2
<1>9. Least(Open(ts)) = i
  <2>1. Open(ts) \subseteq Nat
    BY <1>4, <1>6
  <2>2. Least(Open(ts)) \in Open(ts) /\ Least(Open(ts)) <= i
    BY <1>7, <2>1, LeastPicks
  <2> QED BY <1>7, <2>1, <2>2
<1>10. CurrentId(ts) = {ts[i].id}
  BY <1>9 DEF CurrentId, Current
<1>11. CurrentId(new) # CurrentId(ts)
  <2>1. CASE Open(new) = {}
    BY <1>10, <2>1 DEF CurrentId
  <2>2. CASE Open(new) # {}
    <3>1. Open(new) \subseteq Nat
      BY <1>4, <1>6
    <3>2. Least(Open(new)) \in Open(new)
      BY <2>2, <3>1, LeastPicks
    <3>3. PICK k \in Open(new) : Least(Open(new)) = k
      BY <3>2
    <3>4. k # i /\ k \in DOMAIN ts /\ CurrentId(new) = {ts[k].id}
      BY <1>5, <1>6, <1>7, <2>2, <3>3 DEF CurrentId, Current
    <3> QED BY <1>10, <3>4 DEF DistinctIds
  <2> QED BY <2>1, <2>2
<1>12. new # <<>>
  BY <1>4, <1>5
<1> QED BY <1>8, <1>11, <1>12 DEF new

\* What a message at the end adds.
LEMMA AppendAcks ==
  ASSUME NEW w \in Seq(Message), NEW m \in Message
  PROVE  /\ Last(Append(w, m)) = m
         /\ Silent(w) => Once(Append(w, m))
         /\ m.body # "ack" /\ Silent(w) => Silent(Append(w, m))
         /\ m.body # "ack" /\ Once(w) => Once(Append(w, m))
<1> DEFINE v == Append(w, m)
           l == Len(w)
<1>1. v \in Seq(Message) /\ l \in Nat /\ Len(v) = l + 1 /\ v[l + 1] = m /\ \A i \in 1..l : v[i] = w[i]
  BY AppendAt
<1>2. DOMAIN w = 1..l /\ DOMAIN v = 1..(l + 1)
  BY <1>1, LenProperties
<1> HIDE DEF v, l
<1>3. \A i \in Acknowledged(v) : i \in Acknowledged(w) \/ (i = l + 1 /\ m.body = "ack")
  <2> SUFFICES ASSUME NEW i \in Acknowledged(v), i # l + 1 PROVE i \in Acknowledged(w)
    BY <1>1 DEF Acknowledged
  <2>1. i \in 1..l /\ v[i].body = "ack"
    BY <1>1, <1>2 DEF Acknowledged
  <2> QED BY <1>1, <1>2, <2>1 DEF Acknowledged
<1>4. Last(v) = m
  BY <1>1 DEF Last
<1> QED BY <1>3, <1>4 DEF Silent, Once, v

\* Reminders are no acknowledgements.
LEMMA IfAcks ==
  ASSUME NEW w \in Seq(Message), NEW b \in BOOLEAN, NEW m \in Message, m.body # "ack", Once(w)
  PROVE  /\ Once(w \o If(b, m)) /\ (Silent(w) => Silent(w \o If(b, m)))
         /\ w \o If(b, m) \in Seq(Message) /\ (b => Last(w \o If(b, m)).body # "ack")
<1>1. CASE b
  <2>1. w \o If(b, m) = Append(w, m)
    BY <1>1 DEF If
  <2> QED BY <2>1, AppendAcks, AppendType
<1>2. CASE ~b
  <2>1. w \o If(b, m) = w
    BY <1>2 DEF If
  <2> QED BY <1>2, <2>1
<1> QED BY <1>1, <1>2

LEMMA SilentIs ==
  ASSUME NEW w \in Seq(Message), w # <<>>, Silent(w)
  PROVE  Once(w) /\ Last(w).body # "ack"
<1>1. DOMAIN w = 1..Len(w) /\ Len(w) \in DOMAIN w
  BY LenProperties, EmptySeq
<1> QED BY <1>1 DEF Silent, Once, Acknowledged, Last

LEMMA SilentAcks == Typed' /\ Silent(window)' => Acks'
<1> SUFFICES ASSUME Typed', Silent(window') PROVE Acks'
  OBVIOUS
<1>1. window' \in Seq(Message) /\ window' # <<>>
  BY DEF Typed, TypeOK
<1> QED BY <1>1, SilentIs DEF Acks

\* The loop's own messages, and the model's texts, acknowledge nothing.
LEMMA NoAcks ==
  /\ User \in Message /\ User.body # "ack" /\ System \in Message /\ System.body # "ack"
  /\ \A n \in Nat, b \in Bodies : Assistant(n, b) \in Message /\ Assistant(n, b).body = b
  /\ \A b \in Bodies : ToolResult(b) \in Message /\ ToolResult(b).body = b
BY MessageTypes DEF User, System, Assistant, ToolResult

LEMMA AcksInit == Init => Acks
<1> SUFFICES ASSUME Init PROVE Acks
  OBVIOUS
<1>1. window = <<User>> /\ phase = "head"
  BY DEF Init
<1>2. User.body = "none"
  BY DEF User
<1>3. Silent(window) /\ Last(window).body # "ack"
  BY <1>1, <1>2 DEF Silent, Acknowledged, Last
<1> QED BY <1>1, <1>3 DEF Acks, Silent, Once

LEMMA ReplyAcks ==
  ASSUME Typed, Typed', Acks, HandleReply
  PROVE  Acks'
<1>0. phase = "call" /\ Last(window).body # "ack"
  BY DEF HandleReply, ContextOverflow, LLMError, ClosingToolCalls, Disclosure, ToolCalls, SoftNudge,
         Nudge, NoProgress, Premature, FinalReply, Reply, Acks
<1>s. Sent \in Seq(Message) /\ Silent(Sent)
  <2>1. Sent \in Seq(Message)
    BY SentType DEF Typed, TypeOK
  <2> QED BY <1>0, <2>1 DEF Sent, Silent, Acknowledged
<1> HIDE DEF Sent
<1>u. Append(Sent, User) \in Seq(Message) /\ Silent(Append(Sent, User))
  BY <1>s, NoAcks, AppendAcks, AppendType
<1>t. \A text \in Texts : text \in Bodies /\ text # "ack"
  BY DEF Texts, Bodies
<1>a. ASSUME NEW n \in Nat, NEW b \in Bodies, b # "ack"
      PROVE  /\ Silent(Append(Sent, Assistant(n, b))) /\ Silent(Sent \o <<Assistant(n, b)>>)
             /\ Silent(Sent \o <<Assistant(n, b), User>>)
  <2>1. /\ Assistant(n, b) \in Message /\ Assistant(n, b).body # "ack"
        /\ User \in Message /\ User.body # "ack"
    BY <1>a, NoAcks
  <2>2. /\ Append(Sent, Assistant(n, b)) \in Seq(Message) /\ Silent(Append(Sent, Assistant(n, b)))
    BY <1>s, <2>1, AppendAcks, AppendType
  <2>3. Silent(Append(Append(Sent, Assistant(n, b)), User))
    BY <2>1, <2>2, AppendAcks
  <2>4. /\ Sent \o <<Assistant(n, b)>> = Append(Sent, Assistant(n, b))
        /\ Sent \o <<Assistant(n, b), User>> = Append(Append(Sent, Assistant(n, b)), User)
    BY <1>s, <2>1
  <2> QED BY <2>2, <2>3, <2>4
<1>1. CASE ContextOverflow
  BY <1>0, <1>1 DEF ContextOverflow, Acks
<1>2. CASE LLMError
  BY <1>2 DEF LLMError, Acks
<1>3. CASE ClosingToolCalls \/ Disclosure
  BY <1>3, <1>u, SilentAcks DEF ClosingToolCalls, Disclosure, DisclosureWindow
<1>4. ASSUME NEW n \in 1..MaxBatch, NEW text \in Texts, ToolCalls(n, text) PROVE Acks'
  <2>1. n \in Nat
    BY LimitsAssumption
  <2>2. PICK b \in Bodies : b # "ack" /\ CallMessage(n, text) = Assistant(n, b)
    BY <1>t DEF CallMessage, Bodies
  <2> QED BY <1>4, <1>a, <2>1, <2>2, SilentAcks DEF ToolCalls
<1>5. ASSUME NEW text \in Texts, SoftNudge(text) PROVE Acks'
  BY <1>5, <1>a, <1>t, SilentAcks DEF SoftNudge
<1>6. ASSUME NEW text \in Texts, Nudge(text) PROVE Acks'
  BY <1>6, <1>s, <1>u, SilentAcks DEF Nudge
<1>7. ASSUME NEW text \in Texts, NoProgress(text) PROVE Acks'
  BY <1>7, <1>s, <1>u, SilentAcks DEF NoProgress, Approved, Declined
<1>8. ASSUME NEW text \in Texts, FinalReply(text) PROVE Acks'
  <2>1. "summary" \in Bodies /\ "none" \in Bodies
    BY DEF Bodies
  <2>2. Sent \o <<>> = Sent
    BY <1>s
  <2>3. ASSUME NEW pushed \in TextMessages(text) PROVE Silent(Sent \o pushed)
    BY <1>s, <1>a, <1>t, <2>1, <2>2 DEF TextMessages
  <2>4. Silent(window')
    BY <1>8, <1>a, <2>1, <2>3 DEF FinalReply
  <2> QED BY <2>4, SilentAcks
<1> QED BY <1>1, <1>2, <1>3, <1>4, <1>5, <1>6, <1>7, <1>8 DEF HandleReply

\* A call that finds no transition finds no acknowledgement either.
LEMMA CallAcks ==
  ASSUME Typed, Acks, CompletedInOrder, PlanDistinct, HandleCall
  PROVE  /\ Acks'
         /\ \A args \in CompleteArgs : CompleteTask(args) =>
              Cardinality(Open(tasks')) < Cardinality(Open(tasks))
<1>0. window \in Seq(Message) /\ tasks \in Seq(Task) /\ Ordered(tasks) /\ DistinctIds(tasks)
  BY DEF Typed, TypeOK, CompletedInOrder, PlanDistinct
<1>1. ASSUME NEW ts, NEW body \in Bodies, Answer(ts, body)
      PROVE  /\ body # "ack" => Acks'
             /\ body = "ack" /\ ts # <<>> /\ CurrentId(ts) # CurrentId(tasks) /\ consecutive' = 0 => Acks'
  <2>1. phase = "batch" /\ ~transitioned /\ Silent(window)
    BY <1>1 DEF Answer, Calling, Acks
  <2>2. ToolResult(body) \in Message /\ ToolResult(body).body = body
    BY NoAcks
  <2>3. Once(window') /\ (body # "ack" => Silent(window'))
    BY <1>0, <1>1, <2>1, <2>2, AppendAcks DEF Answer
  <2>4. phase' \in {"batch", "settle"} /\ tasks' = ts /\ transitioned' = (CurrentId(ts) # CurrentId(tasks))
    BY <1>1 DEF Answer, Transition
  <2> QED BY <2>3, <2>4 DEF Acks
<1>b. {"short", "long", "notice", "ack"} \subseteq Bodies
  BY DEF Bodies
<1>2. ASSUME SkipCall PROVE Acks'
  <2>1. ToolResult("notice") \in Message /\ ToolResult("notice").body # "ack"
    BY <1>b, NoAcks
  <2>2. Once(window') /\ (Silent(window) => Silent(window'))
    BY <1>0, <1>2, <2>1, AppendAcks DEF SkipCall, Acks
  <2>3. phase = "batch" /\ phase' \in {"batch", "settle"} /\ UNCHANGED <<tasks, consecutive, transitioned>>
    BY <1>2 DEF SkipCall, Calling, toolVars
  <2>4. ~Silent(window) => tasks' # <<>> /\ consecutive' = 0 /\ transitioned'
    BY <2>3 DEF Acks
  <2>5. phase' \notin {"head", "call"}
    BY <2>3
  <2> QED BY <2>2, <2>4, <2>5 DEF Acks
<1>w. ASSUME NEW ts, NEW body \in {"short", "long", "notice"}, Answer(ts, body) PROVE Acks'
  BY <1>1, <1>b, <1>w
<1>3. ASSUME WorkCall PROVE Acks'
  <2>1. PICK body \in {"short", "long", "notice"} : Answer(tasks, body)
    BY <1>3 DEF WorkCall
  <2> QED BY <1>w, <2>1
<1>4. ASSUME UpdatePlan PROVE Acks'
  <2>1. CASE Answer(tasks, "notice")
    BY <1>w, <2>1
  <2>2. CASE \E n \in 1..MaxReplanTasks, body \in {"short", "notice"},
                order \in Orders(Completed(tasks)), top \in LargestIds(tasks) :
               Answer(Replan(tasks, order, top, n), body)
    BY <1>w, <2>2
  <2> QED BY <1>4, <2>1, <2>2 DEF UpdatePlan
<1>5. ASSUME NEW args \in CompleteArgs, CompleteTask(args)
      PROVE  Acks' /\ Cardinality(Open(tasks')) < Cardinality(Open(tasks))
  <2>1. Open(tasks) # {} /\ args.id % IdModulus = Current(tasks).id
    BY <1>5, CompletesCurrent DEF CompleteTask
  <2>2. Answer(MarkCompleted(tasks, Current(tasks).id), "ack") /\ consecutive' = 0
    BY <1>5, <2>1 DEF CompleteTask, Succeeds
  <2>3. tasks' = MarkCompleted(tasks, Current(tasks).id)
    BY <2>2 DEF Answer
  <2> QED BY <1>0, <1>1, <1>b, <2>1, <2>2, <2>3, MarkMoves
<1>6. ASSUME NEW args \in CompleteArgs, AutoComplete(args) PROVE Acks'
  <2>1. Open(tasks) # {} /\ Answer(MarkCompleted(tasks, Current(tasks).id), "ack") /\ consecutive' = 0
    BY <1>6 DEF AutoComplete
  <2> QED BY <1>0, <1>1, <1>b, <2>1, MarkMoves
<1>7. ASSUME NEW args \in CompleteArgs, RefuseCompletion(args) PROVE Acks'
  <2>1. \A body \in RefusalBodies(args) : body \in Bodies /\ body # "ack"
    BY DEF RefusalBodies, Bodies
  <2> QED BY <1>1, <1>7, <2>1 DEF RefuseCompletion
<1> QED BY <1>2, <1>3, <1>4, <1>5, <1>6, <1>7 DEF HandleCall

LEMMA SettleAcks ==
  ASSUME Typed, Acks, Settle
  PROVE  Acks'
<1>0. /\ window \in Seq(Message) /\ window # <<>> /\ phase = "settle" /\ Once(window)
      /\ ~Silent(window) => tasks # <<>> /\ consecutive = 0
  BY DEF Typed, TypeOK, Acks, Settle, StuckExit, TooManyFailures, ClosePlan, ContinuePlan, AfterBatch, Settling
<1>m. User \in Message /\ User.body # "ack" /\ System \in Message /\ System.body # "ack"
  BY NoAcks
<1>1. Reminders \in Seq(Message) /\ Once(Reminders) /\ (Silent(window) => Silent(Reminders))
  <2> DEFINE w == window \o If(suppressed /\ Open(tasks) # {}, User)
  <2>1. (suppressed /\ Open(tasks) # {}) \in BOOLEAN /\ DepthLimitReached \in BOOLEAN
    BY DEF DepthLimitReached
  <2>2. w \in Seq(Message) /\ Once(w) /\ (Silent(window) => Silent(w))
    BY <1>0, <1>m, <2>1, IfAcks
  <2> HIDE DEF w
  <2>3. LET v == w \o If(DepthLimitReached, User)
        IN  v \in Seq(Message) /\ Once(v) /\ (Silent(w) => Silent(v))
    BY <1>m, <2>1, <2>2, IfAcks
  <2> QED BY <2>2, <2>3 DEF Reminders, w
<1>2. CASE StuckExit
  BY <1>0, <1>2 DEF StuckExit, Acks
<1>3. CASE TooManyFailures
  <2>1. Silent(window)
    <3>1. consecutive # 0
      BY <1>3, LimitsAssumption DEF TooManyFailures, FailureLimitReached
    <3> QED BY <1>0, <3>1
  <2>2. Once(window) /\ Last(window).body # "ack"
    BY <1>0, <2>1, SilentIs
  <2>3. Once(Append(window, User)) /\ Last(Append(window, User)) = User
    BY <1>0, <1>m, <2>1, AppendAcks
  <2>4. window' \in {window, Append(window, User)} /\ phase' \in {"head", "exit"}
    BY <1>3 DEF TooManyFailures, Approved, Declined
  <2> QED BY <1>m, <2>2, <2>3, <2>4 DEF Acks
<1>4. CASE ClosePlan
  <2>1. Once(Append(Reminders, User)) /\ Last(Append(Reminders, User)) = User
    BY <1>1, <1>m, AppendAcks
  <2>2. Once(Reminders \o If(AssistantText # "long", Assistant(0, PickTrailing(Reminders))))
    <3>1. PickTrailing(Reminders) \in Bodies /\ PickTrailing(Reminders) # "ack"
      <4>1. PickTrailing(Reminders) \in Bodies
        BY <1>1, PickTrailingType
      <4>2. PickTrailing(Reminders) # "ack"
        <5> DEFINE S == TrailingWith(Reminders, Substantive)
        <5>1. S \subseteq 1..Len(Reminders) /\ Len(Reminders) \in Nat /\ \A i \in S : Reminders[i].body \in Substantive
          <6>1. DOMAIN Reminders = 1..Len(Reminders) /\ Len(Reminders) \in Nat
            BY <1>1, LenProperties
          <6> QED BY <6>1 DEF TrailingWith, Trailing
        <5>2. CASE S # {}
          <6>1. Greatest(S) \in S
            BY <5>1, <5>2, GreatestPicks
          <6> QED BY <5>1, <5>2, <6>1 DEF PickTrailing, Substantive
        <5>3. CASE S = {}
          BY <5>3 DEF PickTrailing
        <5> QED BY <5>2, <5>3
      <4> QED BY <4>1, <4>2
    <3>2. (AssistantText # "long") \in BOOLEAN
      OBVIOUS
    <3>3. LET m == Assistant(0, PickTrailing(Reminders)) IN m \in Message /\ m.body # "ack"
      BY <3>1, NoAcks
    <3> QED BY <1>1, <3>2, <3>3, IfAcks
  <2> QED BY <1>4, <1>m, <2>1, <2>2 DEF ClosePlan, Acks
<1>5. CASE ContinuePlan
  <2>1. Focused \in Seq(Message) /\ Once(Focused) /\ Last(Focused).body # "ack"
    <3>1. (Open(tasks) # {}) \in BOOLEAN
      OBVIOUS
    <3>2. Focused \in Seq(Message) /\ Once(Focused) /\ (Silent(Reminders) => Silent(Focused))
          /\ (Open(tasks) # {} => Last(Focused).body # "ack")
      BY <1>1, <1>m, <3>1, IfAcks DEF Focused
    <3>3. CASE Open(tasks) = {}
      <4>1. tasks = <<>>
        BY <1>5, <3>3 DEF ContinuePlan, AllCompleted
      <4>2. Silent(Focused)
        BY <1>0, <1>1, <3>2, <4>1
      <4>3. Focused # <<>>
        <5>1. Reminders # <<>>
          BY <1>0, <1>m, IfType, ConcatType DEF Reminders
        <5> QED BY <1>1, <1>m, <3>1, <5>1, IfType, ConcatType DEF Focused
      <4> QED BY <3>2, <4>2, <4>3, SilentIs
    <3> QED BY <3>2, <3>3
  <2>2. Once(Append(Focused, User)) /\ Last(Append(Focused, User)) = User
    BY <1>m, <2>1, AppendAcks
  <2>3. window' \in {Focused, Append(Focused, User)} /\ phase' \in {"head", "exit"}
    BY <1>5 DEF ContinuePlan, Approved, Declined
  <2> QED BY <1>m, <2>1, <2>2, <2>3 DEF Acks
<1> QED BY <1>2, <1>3, <1>4, <1>5 DEF Settle

LEMMA AcksStep ==
  ASSUME Typed, Typed', Acks, CompletedInOrder, PlanDistinct, [Next]_vars
  PROVE  Acks'
<1>1. CASE CallLLM
  BY <1>1 DEF CallLLM, Acks
<1>2. CASE IterationLimit
  <2>1. Once(window) /\ Last(window).body # "ack" /\ window \in Seq(Message)
    BY <1>2 DEF IterationLimit, Acks, Typed, TypeOK
  <2>2. Once(Append(window, User)) /\ Last(Append(window, User)).body # "ack"
    BY <2>1, NoAcks, AppendAcks
  <2>3. window' \in {window, Append(window, User)} /\ phase' \in {"head", "exit"}
    BY <1>2 DEF IterationLimit, Approved, Declined
  <2> QED BY <2>1, <2>2, <2>3 DEF Acks
<1>3. CASE Finish
  <2>1. Assistant(0, "summary") \in Message /\ Assistant(0, "summary").body # "ack"
    BY NoAcks DEF Bodies
  <2>2. Once(window) /\ window \in Seq(Message) /\ (~AllCompleted(tasks) /\ total > 0) \in BOOLEAN
    BY DEF Acks, Typed, TypeOK
  <2>3. Once(window')
    BY <1>3, <2>1, <2>2, IfAcks DEF Finish
  <2> QED BY <1>3, <2>3 DEF Finish, Acks
<1>4. CASE Returned \/ UNCHANGED vars
  BY <1>4 DEF Returned, vars, toolVars, batchVars, Acks
<1> QED BY <1>1, <1>2, <1>3, <1>4, ReplyAcks, CallAcks, SettleAcks DEF Next

\* A completion that is accepted leaves fewer tasks open.
LEMMA CompletionsCount ==
  ASSUME Typed, Acks, CompletedInOrder, PlanDistinct, NEW args \in CompleteArgs, CompleteTask(args)
  PROVE  Cardinality(Open(tasks')) < Cardinality(Open(tasks))
BY CallAcks DEF HandleCall

\* A history without two acknowledgements has one at most.
LEMMA OnceCounts ==
  ASSUME NEW w, Once(w)
  PROVE  Cardinality(Acknowledged(w)) <= 1
<1>1. CASE Acknowledged(w) = {}
  BY <1>1, FS_EmptySet
<1>2. CASE Acknowledged(w) # {}
  <2>1. PICK i : i \in Acknowledged(w)
    BY <1>2
  <2>2. Acknowledged(w) = {i}
    BY <2>1 DEF Once
  <2> QED BY <2>2, FS_Singleton
<1> QED BY <1>1, <1>2

\* If plans start in order and with distinct ids, and as long as the ids of a
\* replan fit their width, a reply is acknowledged at most one completion, and
\* an acknowledged completion closes an open task.
THEOREM AcknowledgementsAreTrue ==
  ASSUME \A plan \in InitialPlans : Ordered(plan) /\ DistinctIds(plan)
  PROVE  Spec /\ []IdsFit => AcknowledgementsTrue
<1> DEFINE True == /\ Cardinality(Acknowledged(window')) <= 1
                   /\ (\E args \in CompleteArgs : CompleteTask(args)) =>
                        Cardinality(Open(tasks')) < Cardinality(Open(tasks))
<1>1. Init => PlanDistinct /\ CompletedInOrder
  BY DEF Init, PlanDistinct, CompletedInOrder
<1>0. \A plan \in InitialPlans : Ordered(plan)
  OBVIOUS
<1>2. Spec => [](Typed /\ CompletedInOrder)
  BY <1>0, InOrderHolds, TypedInit, TypedStep, PTL DEF Spec
<1>3. Typed /\ CompletedInOrder /\ PlanDistinct /\ IdsFit /\ [Next]_vars => PlanDistinct'
  BY RefinementStep
<1>4. Typed /\ Typed' /\ Acks /\ CompletedInOrder /\ PlanDistinct /\ [Next]_vars => Acks'
  BY AcksStep
<1>5. Typed /\ Acks /\ Acks' /\ CompletedInOrder /\ PlanDistinct => True
  BY CompletionsCount, OnceCounts DEF Acks
<1>6. Typed /\ Acks /\ Acks' /\ CompletedInOrder /\ PlanDistinct /\ [Next]_vars => [True]_vars
  BY <1>5
<1> QED BY <1>1, <1>2, <1>3, <1>4, <1>6, AcksInit, PTL DEF Spec, AcknowledgementsTrue

-----------------------------------------------------------------------------
(* ChatSession: the order in which transcripts are read.                   *)

\* A place in a transcript, whatever the transcript holds.
Spots == Files \X Nat

LEMMA FilesAre ==
  /\ \A f \in Files : f = <<f[1], f[2]>> /\ f[1] \in Keys /\ f[2] \in 1..MaxDay /\ f[2] \in Nat
  /\ \A f \in Files : \A k : Date(k, f) \in Int
  /\ \A f, g \in Files : f[1] = g[1] /\ f[2] = g[2] => f = g
  /\ Directory \in [Files -> Nat]
  /\ \A f, g \in Files : Directory[f] = Directory[g] => f = g
<1>1. \A f \in Files : f = <<f[1], f[2]>> /\ f[1] \in Keys /\ f[2] \in 1..MaxDay /\ f[2] \in Nat
  BY SessionAssumption DEF Files
<1>2. Directory \in [Files -> Nat] /\ \A f, g \in Files : Directory[f] = Directory[g] => f = g
  BY SessionAssumption DEF IsInjective
<1>3. \A f \in Files : \A k : Date(k, f) \in Int
  BY SessionAssumption DEF Date
<1>4. \A f, g \in Files : f[1] = g[1] /\ f[2] = g[2] => f = g
  BY <1>1
<1> QED BY <1>1, <1>2, <1>3, <1>4

\* Before orders the files strictly and totally.
LEMMA BeforeOrders ==
  ASSUME NEW k
  PROVE  /\ \A f \in Files : ~Before(k, f, f)
         /\ \A f, g, h \in Files : Before(k, f, g) /\ Before(k, g, h) => Before(k, f, h)
         /\ \A f, g \in Files : f = g \/ Before(k, f, g) \/ Before(k, g, f)
<1>1. \A f \in Files : Date(k, f) \in Int /\ Directory[f] \in Nat
  BY FilesAre
<1>2. \A f \in Files : ~Before(k, f, f)
  BY <1>1 DEF Before
<1>3. \A f, g, h \in Files : Before(k, f, g) /\ Before(k, g, h) => Before(k, f, h)
  <2> TAKE f, g, h \in Files
  <2> HIDE DEF Files
  <2> QED BY <1>1 DEF Before
<1>4. \A f, g \in Files : f = g \/ Before(k, f, g) \/ Before(k, g, f)
  <2> TAKE f, g \in Files
  <2>1. Directory[f] # Directory[g] \/ f = g
    BY FilesAre
  <2> QED BY <1>1, <2>1 DEF Before
<1> QED BY <1>2, <1>3, <1>4

\* Earlier orders the places strictly and totally.
LEMMA EarlierOrders ==
  ASSUME NEW k
  PROVE  /\ \A x \in Spots : ~Earlier(k, x, x)
         /\ \A x, y, z \in Spots : Earlier(k, x, y) /\ Earlier(k, y, z) => Earlier(k, x, z)
         /\ \A x, y \in Spots : x = y \/ Earlier(k, x, y) \/ Earlier(k, y, x)
<1>1. \A x \in Spots : x = <<x[1], x[2]>> /\ x[1] \in Files /\ x[2] \in Nat
  BY DEF Spots
<1>2. \A x \in Spots : ~Earlier(k, x, x)
  BY <1>1, BeforeOrders DEF Earlier
<1>3. \A x, y, z \in Spots : Earlier(k, x, y) /\ Earlier(k, y, z) => Earlier(k, x, z)
  <2> TAKE x, y, z \in Spots
  <2>1. x[2] < y[2] /\ y[2] < z[2] => x[2] < z[2]
    BY <1>1
  <2> QED BY <1>1, <2>1, BeforeOrders DEF Earlier
<1>4. \A x, y \in Spots : x = y \/ Earlier(k, x, y) \/ Earlier(k, y, x)
  <2> TAKE x, y \in Spots
  <2>1. x[2] < y[2] \/ y[2] < x[2] \/ x[2] = y[2]
    BY <1>1
  <2>2. x[1] = y[1] /\ x[2] = y[2] => x = y
    BY <1>1
  <2> QED BY <1>1, <2>1, <2>2, BeforeOrders DEF Earlier
<1> QED BY <1>2, <1>3, <1>4

\* A finite set of places has a latest one.
LEMMA LatestExists ==
  ASSUME NEW k, NEW S, S \subseteq Spots, IsFiniteSet(S), S # {}
  PROVE  \E m \in S : \A y \in S : ~Earlier(k, m, y)
<1> DEFINE After(x) == {y \in S : Earlier(k, x, y)}
           N == {Cardinality(After(x)) : x \in S}
<1>1. \A x \in S : IsFiniteSet(After(x)) /\ Cardinality(After(x)) \in Nat
  BY FS_Subset, FS_CardinalityType
<1>2. PICK n \in N : \A i \in N : n <= i
  <2>1. N \subseteq Nat /\ N # {}
    BY <1>1
  <2> HIDE DEF N
  <2> QED BY <2>1, SmallestExists
<1>3. PICK m \in S : n = Cardinality(After(m))
  BY <1>2
<1>4. ASSUME NEW y \in S, Earlier(k, m, y) PROVE FALSE
  <2>1. After(y) \subseteq After(m) /\ y \in After(m) /\ y \notin After(y)
    BY <1>4, EarlierOrders
  <2>2. Cardinality(After(y)) <= Cardinality(After(m)) /\ After(y) # After(m)
    BY <2>1, <1>1, FS_Subset
  <2>3. Cardinality(After(y)) # Cardinality(After(m))
    BY <2>1, <2>2, <1>1, FS_Subset
  <2>4. Cardinality(After(m)) <= Cardinality(After(y))
    BY <1>2, <1>3
  <2> HIDE DEF After
  <2> QED BY <2>2, <2>3, <2>4, <1>1, <1>4
<1> QED BY <1>4

\* And an earliest one.
LEMMA EarliestExists ==
  ASSUME NEW k, NEW S, S \subseteq Spots, IsFiniteSet(S), S # {}
  PROVE  \E m \in S : \A y \in S : y = m \/ Earlier(k, m, y)
<1> DEFINE Upto(x) == {y \in S : Earlier(k, y, x)}
           N == {Cardinality(Upto(x)) : x \in S}
<1>1. \A x \in S : IsFiniteSet(Upto(x)) /\ Cardinality(Upto(x)) \in Nat
  BY FS_Subset, FS_CardinalityType
<1>2. PICK n \in N : \A i \in N : n <= i
  <2>1. N \subseteq Nat /\ N # {}
    BY <1>1
  <2> HIDE DEF N
  <2> QED BY <2>1, SmallestExists
<1>3. PICK m \in S : n = Cardinality(Upto(m))
  BY <1>2
<1>4. ASSUME NEW y \in S, Earlier(k, y, m) PROVE FALSE
  <2>1. Upto(y) \subseteq Upto(m) /\ y \in Upto(m) /\ y \notin Upto(y)
    BY <1>4, EarlierOrders
  <2>2. Cardinality(Upto(y)) <= Cardinality(Upto(m)) /\ Upto(y) # Upto(m)
    BY <2>1, <1>1, FS_Subset
  <2>3. Cardinality(Upto(y)) # Cardinality(Upto(m))
    BY <2>1, <2>2, <1>1, FS_Subset
  <2>4. Cardinality(Upto(m)) <= Cardinality(Upto(y))
    BY <1>2, <1>3
  <2> HIDE DEF Upto
  <2> QED BY <2>2, <2>3, <2>4, <1>1, <1>4
<1> QED BY <1>4, EarlierOrders

-----------------------------------------------------------------------------
(* ChatSession: what stays visible of the rows H at the places D.          *)

Later(k, H, D, x) == {y \in D : Earlier(k, x, y) /\ IsMessage(H[y])}

\* A place is covered by a later summary or by a window of later messages.
Summed(k, H, D, x) == \E y \in D : Earlier(k, x, y) /\ ~IsMessage(H[y])
Outdated(k, H, D, x) ==
  IsMessage(H[x]) /\ Window > 0 /\ Cardinality(Later(k, H, D, x)) >= Window
Covered(k, H, D, x) == Summed(k, H, D, x) \/ Outdated(k, H, D, x)
Seen(k, H, D) == {x \in D : ~Covered(k, H, D, x)}

LEMMA LaterIsFinite ==
  ASSUME NEW k, NEW H, NEW D, IsFiniteSet(D), NEW x
  PROVE  IsFiniteSet(Later(k, H, D, x)) /\ Cardinality(Later(k, H, D, x)) \in Nat
BY FS_Subset, FS_CardinalityType DEF Later

\* A history shows the places that are not covered.
LEMMA VisibleIsSeen ==
  ASSUME NEW k, NEW H, NEW D, D \subseteq Spots, IsFiniteSet(D)
  PROVE  Visible(k, Restrict(H, D)) = Restrict(H, Seen(k, H, D))
<1> DEFINE h == Restrict(H, D)
           E == {x \in D : ~Summed(k, H, D, x)}
           g == Restrict(H, E)
           newer(x) == {y \in Newer(k, g, x) : IsMessage(g[y])}
           T == {x \in E : IsMessage(H[x]) /\ Window > 0 => Cardinality(newer(x)) < Window}
<1>1. FromLastSummary(k, h) = g
  <2>1. DOMAIN h = D /\ \A x \in D : h[x] = H[x]
    BY DEF Restrict
  <2>2. {x \in D : \A y \in Newer(k, h, x) : IsMessage(h[y])} = E
    BY <2>1 DEF Newer, Summed
  <2>3. Restrict(h, E) = g
    BY <2>1 DEF Restrict
  <2> QED BY <2>1, <2>2, <2>3 DEF FromLastSummary
<1>2. DOMAIN g = E /\ \A x \in E : g[x] = H[x]
  BY DEF Restrict
<1>3. InWindow(k, g) = Restrict(H, T)
  <2>1. {x \in E : IsMessage(g[x]) /\ Window > 0 => Cardinality(newer(x)) < Window} = T
    BY <1>2
  <2>2. Restrict(g, T) = Restrict(H, T)
    BY <1>2 DEF Restrict
  <2> HIDE DEF T, E
  <2> QED BY <1>2, <2>1, <2>2 DEF InWindow
<1>4. ASSUME NEW x \in E PROVE newer(x) = Later(k, H, D, x)
  <2>1. newer(x) \subseteq Later(k, H, D, x)
    BY <1>2 DEF Newer, Later
  <2>2. ASSUME NEW y \in Later(k, H, D, x) PROVE y \in newer(x)
    <3>1. y \in D /\ Earlier(k, x, y) /\ IsMessage(H[y]) /\ x \in D
      BY <2>2 DEF Later
    <3>2. \A z \in D : Earlier(k, y, z) => Earlier(k, x, z)
      BY <3>1, EarlierOrders
    <3>3. y \in E
      BY <3>1, <3>2 DEF Summed
    <3> QED BY <3>1, <3>3, <1>2 DEF Newer
  <2> QED BY <2>1, <2>2
<1>5. T = Seen(k, H, D)
  <2>1. ASSUME NEW x \in E
        PROVE  (IsMessage(H[x]) /\ Window > 0 => Cardinality(newer(x)) < Window)
                 <=> ~Outdated(k, H, D, x)
    <3>1. Cardinality(Later(k, H, D, x)) \in Nat /\ Window \in Nat
      BY LaterIsFinite, SessionAssumption
    <3>2. newer(x) = Later(k, H, D, x)
      BY <1>4
    <3> HIDE DEF newer
    <3> QED BY <3>1, <3>2 DEF Outdated
  <2> HIDE DEF newer
  <2> QED BY <2>1 DEF Seen, Covered
<1> HIDE DEF h, g, T
<1> QED BY <1>1, <1>3, <1>5 DEF Visible, h

\* More places cover more.
LEMMA CoveredGrows ==
  ASSUME NEW k, NEW H, NEW D, NEW E, D \subseteq E, IsFiniteSet(E), NEW x, Covered(k, H, D, x)
  PROVE  Covered(k, H, E, x)
<1>1. Summed(k, H, D, x) => Summed(k, H, E, x)
  BY DEF Summed
<1>2. IsFiniteSet(D)
  BY FS_Subset
<1>3. Cardinality(Later(k, H, D, x)) <= Cardinality(Later(k, H, E, x))
  <2>1. Later(k, H, D, x) \subseteq Later(k, H, E, x)
    BY DEF Later
  <2> QED BY <2>1, LaterIsFinite, FS_Subset
<1>4. Outdated(k, H, D, x) => Outdated(k, H, E, x)
  <2>1. Window \in Nat
    BY SessionAssumption
  <2> QED BY <1>2, <1>3, <2>1, LaterIsFinite DEF Outdated
<1> QED BY <1>1, <1>4 DEF Covered

\* What covers a place covers what is earlier.
LEMMA CoveredBefore ==
  ASSUME NEW k, NEW H, NEW D, D \subseteq Spots, IsFiniteSet(D), NEW x \in Spots,
         NEW y \in Spots, Earlier(k, x, y), IsMessage(H[x]) \/ ~IsMessage(H[y]),
         Covered(k, H, D, y)
  PROVE  Covered(k, H, D, x)
<1>1. \A z \in D : Earlier(k, y, z) => Earlier(k, x, z)
  BY EarlierOrders
<1>2. Summed(k, H, D, y) => Summed(k, H, D, x)
  BY <1>1 DEF Summed
<1>3. Outdated(k, H, D, y) => Outdated(k, H, D, x)
  <2>1. Later(k, H, D, y) \subseteq Later(k, H, D, x)
    BY <1>1 DEF Later
  <2>2. Cardinality(Later(k, H, D, y)) <= Cardinality(Later(k, H, D, x))
    BY <2>1, LaterIsFinite, FS_Subset
  <2>3. Window \in Nat
    BY SessionAssumption
  <2> QED BY <2>2, <2>3, LaterIsFinite DEF Outdated
<1> QED BY <1>2, <1>3 DEF Covered

\* Dropping covered places does not change what is seen.
LEMMA SeenAfterDrops ==
  ASSUME NEW k, NEW H, NEW D, NEW E, E \subseteq Spots, IsFiniteSet(E), D \subseteq E,
         \A x \in E \ D : Covered(k, H, D, x)
  PROVE  Seen(k, H, E) = Seen(k, H, D)
<1>1. IsFiniteSet(D) /\ D \subseteq Spots
  BY FS_Subset
<1>2. ASSUME NEW x \in Seen(k, H, E) PROVE x \in Seen(k, H, D)
  BY <1>1, CoveredGrows DEF Seen
<1>3. ASSUME NEW x \in Seen(k, H, D) PROVE x \in Seen(k, H, E)
  <2>1. x \in D /\ x \in E /\ x \in Spots /\ ~Covered(k, H, D, x)
    BY DEF Seen
  <2>2. ~Summed(k, H, E, x)
    <3>1. SUFFICES ASSUME NEW y \in E, Earlier(k, x, y), ~IsMessage(H[y]) PROVE FALSE
      BY DEF Summed
    <3>2. y \notin D
      BY <2>1, <3>1 DEF Covered, Summed
    <3>3. Covered(k, H, D, y)
      BY <3>2
    <3> QED BY <3>1, <3>3, <2>1, <1>1, CoveredBefore
  <2>3. ~Outdated(k, H, E, x)
    <3>1. SUFFICES ASSUME Outdated(k, H, E, x) PROVE FALSE
      OBVIOUS
    <3>2. ASSUME NEW m \in Later(k, H, E, x) PROVE m \in D
      <4>1. m \in E /\ Earlier(k, x, m) /\ IsMessage(H[m]) /\ IsMessage(H[x])
        BY <3>1 DEF Later, Outdated
      <4>2. SUFFICES ASSUME m \notin D PROVE FALSE
        OBVIOUS
      <4>3. Covered(k, H, D, m)
        BY <4>1, <4>2
      <4> QED BY <4>1, <4>3, <2>1, <1>1, CoveredBefore
    <3>3. Later(k, H, E, x) = Later(k, H, D, x)
      BY <3>2 DEF Later
    <3> QED BY <3>1, <3>3, <2>1 DEF Outdated, Covered
  <2> QED BY <2>1, <2>2, <2>3 DEF Seen, Covered
<1> QED BY <1>2, <1>3

\* What is not seen is covered by what is.
LEMMA SeenCovers ==
  ASSUME NEW k, NEW H, NEW D, D \subseteq Spots, IsFiniteSet(D), NEW x \in Spots,
         Covered(k, H, D, x)
  PROVE  Covered(k, H, Seen(k, H, D), x)
<1> DEFINE S == Seen(k, H, D)
<1>1. S \subseteq D /\ IsFiniteSet(S)
  BY FS_Subset DEF Seen
<1>2. ASSUME Summed(k, H, D, x) PROVE Summed(k, H, S, x)
  <2> DEFINE Z == {y \in D : Earlier(k, x, y) /\ ~IsMessage(H[y])}
  <2>1. Z # {} /\ Z \subseteq Spots /\ IsFiniteSet(Z)
    BY <1>2, FS_Subset DEF Summed
  <2>2. PICK z \in Z : \A y \in Z : ~Earlier(k, z, y)
    <3> HIDE DEF Z
    <3> QED BY <2>1, LatestExists
  <2>3. \A y \in D : Earlier(k, z, y) => Earlier(k, x, y)
    BY EarlierOrders
  <2>4. ~Summed(k, H, D, z)
    BY <2>2, <2>3 DEF Summed
  <2>5. z \in S
    BY <2>4 DEF Seen, Covered, Outdated
  <2> QED BY <2>5 DEF Summed
<1>3. ASSUME ~Summed(k, H, D, x), Outdated(k, H, D, x) PROVE Outdated(k, H, S, x)
  <2> DEFINE M == Later(k, H, D, x)
             K == Later(k, H, S, x)
  <2>1. K \subseteq M /\ IsFiniteSet(M) /\ IsFiniteSet(K)
    BY <1>1, LaterIsFinite DEF Later
  <2>2. Window \in Nat /\ Window > 0 /\ Cardinality(M) >= Window /\ IsMessage(H[x])
        /\ Cardinality(M) \in Nat /\ Cardinality(K) \in Nat
    BY <1>3, <2>1, SessionAssumption, FS_CardinalityType DEF Outdated
  <2>3. SUFFICES ASSUME Cardinality(K) < Window PROVE FALSE
    BY <2>2 DEF Outdated
  <2>4. M \ K # {} /\ M \ K \subseteq Spots /\ IsFiniteSet(M \ K)
    <3>1. M # K
      <4> HIDE DEF M, K
      <4> QED BY <2>2, <2>3
    <3>2. M \subseteq Spots
      BY DEF Later
    <3> QED BY <2>1, <3>1, <3>2, FS_Difference
  <2>5. PICK m \in M \ K : \A y \in M \ K : ~Earlier(k, m, y)
    <3> HIDE DEF M, K
    <3> QED BY <2>4, LatestExists
  <2>6. m \in D /\ Earlier(k, x, m) /\ IsMessage(H[m]) /\ m \notin S
    BY DEF Later
  <2>7. \A y \in D : Earlier(k, m, y) => Earlier(k, x, y)
    BY <2>6, EarlierOrders
  <2>8. ~Summed(k, H, D, m)
    BY <1>3, <2>7 DEF Summed
  <2>9. Outdated(k, H, D, m)
    BY <2>6, <2>8 DEF Seen, Covered
  <2>10. Later(k, H, D, m) \subseteq K
    <3>1. SUFFICES ASSUME NEW y \in Later(k, H, D, m) PROVE y \in K
      OBVIOUS
    <3>2. y \in D /\ Earlier(k, m, y) /\ IsMessage(H[y]) /\ Earlier(k, x, y)
      BY <2>7 DEF Later
    <3>3. y \in M
      BY <3>2 DEF Later
    <3> HIDE DEF M, K
    <3> QED BY <3>2, <3>3, <2>5
  <2>11. Cardinality(Later(k, H, D, m)) <= Cardinality(K)
    BY <2>10, <2>1, FS_Subset
  <2>12. Cardinality(Later(k, H, D, m)) \in Nat
    BY LaterIsFinite
  <2> HIDE DEF K, M
  <2> QED BY <2>2, <2>3, <2>9, <2>11, <2>12 DEF Outdated
<1> QED BY <1>2, <1>3 DEF Covered

\* No more messages are seen than the window has, and one summary at most, the
\* first row.
LEMMA SeenFits ==
  ASSUME NEW k, NEW H, NEW D, D \subseteq Spots, IsFiniteSet(D)
  PROVE  LET S == Seen(k, H, D)
         IN /\ Window > 0 => Cardinality({x \in S : IsMessage(H[x])}) <= Window
            /\ \A s, x \in S : ~IsMessage(H[s]) => ~Earlier(k, x, s)
<1> DEFINE S == Seen(k, H, D)
           K == {x \in S : IsMessage(H[x])}
<1>1. S \subseteq D /\ IsFiniteSet(S) /\ K \subseteq Spots /\ IsFiniteSet(K)
  <2>1. S \subseteq D /\ IsFiniteSet(S)
    BY FS_Subset DEF Seen
  <2> HIDE DEF S
  <2> QED BY <2>1, FS_Subset
<1>2. \A s, x \in S : ~IsMessage(H[s]) => ~Earlier(k, x, s)
  BY <1>1 DEF Seen, Covered, Summed
<1>3. ASSUME Window > 0 PROVE Cardinality(K) <= Window
  <2>1. Window \in Nat /\ Cardinality(K) \in Nat
    BY <1>1, SessionAssumption, FS_CardinalityType
  <2>2. CASE K = {}
    BY <2>1, <2>2, FS_EmptySet
  <2>3. CASE K # {}
    <3>1. PICK m \in K : \A y \in K : y = m \/ Earlier(k, m, y)
      <4> HIDE DEF K
      <4> QED BY <1>1, <2>3, EarliestExists
    <3>2. K \ {m} \subseteq Later(k, H, D, m)
      BY <3>1, <1>1 DEF Later
    <3>3. Cardinality(Later(k, H, D, m)) < Window
      <4>1. Cardinality(Later(k, H, D, m)) \in Nat
        BY LaterIsFinite
      <4> QED BY <4>1, <1>3, <2>1 DEF Seen, Covered, Outdated
    <3>4. Cardinality(K \ {m}) = Cardinality(K) - 1
      <4> HIDE DEF K
      <4> QED BY <1>1, FS_RemoveElement
    <3>5. Cardinality(K \ {m}) <= Cardinality(Later(k, H, D, m))
      <4> HIDE DEF K
      <4> QED BY <3>2, LaterIsFinite, FS_Subset
    <3>6. Cardinality(Later(k, H, D, m)) \in Nat
      BY LaterIsFinite
    <3> HIDE DEF K
    <3> QED BY <3>3, <3>4, <3>5, <3>6, <2>1
  <2> QED BY <2>2, <2>3
<1> QED BY <1>2, <1>3

-----------------------------------------------------------------------------
(* ChatSession: where the actors are.                                      *)

\* Where an actor is, or goes after what it is writing.
Toward(t, c) == IF c \in {"newline", "truncate", "write"} THEN t ELSE c

\* The operation o, stage s and continuation t of a process at c.
Route(o, s, t, c) ==
  /\ o \in {"turn", "compact", "clear", "clear_full"}
  /\ s \in {"early", "compact", "budget"}
  /\ c \in Points \ {"unlink"} /\ t \in Points
  /\ c = "newline" => t \in {"count", "loop", "idle", "list", "reset"}
  /\ c \in {"truncate", "write"} =>
       t \in {"header", "check", "summarise", "budget", "user", "idle", "reset"}
  /\ c \in {"flush", "mark"} => (t = "check" \/ (t = "summarise" /\ s = "compact"))
  /\ Toward(t, c) \in {"early", "check", "flush", "mark", "budget", "user", "loop"} => o = "turn"
  /\ Toward(t, c) \in {"summarise", "count"} =>
       o = "compact" \/ (o = "turn" /\ s \in {"compact", "budget"})
  /\ Toward(t, c) \in {"load", "header"} => o \in {"turn", "compact"}
  /\ Toward(t, c) \in {"remember", "reset"} => o \in {"clear", "clear_full"}
  /\ Toward(t, c) \in {"list", "archive", "counts"} => o = "clear_full"

DesktopRoute(o, t, c) ==
  /\ o \in {"turn", "create", "rename", "delete"}
  /\ c \in {"idle", "truncate", "write", "unlink"} /\ t \in {"idle", "unlink"}

Routes ==
  /\ pc = [a \in Actors |-> pc[a]] /\ then = [a \in Actors |-> then[a]]
  /\ op = [a \in Actors |-> op[a]] /\ stage = [p \in Procs |-> stage[p]]
  /\ \A p \in Procs : Route(op[p], stage[p], then[p], pc[p])
  /\ DesktopRoute(op[Desktop], then[Desktop], pc[Desktop])

LEMMA RoutesStart == SessionInit => Routes
BY SessionAssumption DEF SessionInit, Routes, Route, DesktopRoute, Toward, Actors, Points

\* A step of one process that takes its own route.
LEMMA RoutesKept ==
  ASSUME Routes, NEW p \in Procs,
         pc' = [pc EXCEPT ![p] = pc'[p]], then' = [then EXCEPT ![p] = then'[p]],
         op' = [op EXCEPT ![p] = op'[p]], stage' = [stage EXCEPT ![p] = stage'[p]],
         Route(op'[p], stage'[p], then'[p], pc'[p])
  PROVE  Routes'
<1>1. Desktop # p /\ p \in Actors /\ Desktop \in Actors
  BY SessionAssumption DEF Actors
<1>2. /\ pc' = [a \in Actors |-> pc'[a]] /\ then' = [a \in Actors |-> then'[a]]
      /\ op' = [a \in Actors |-> op'[a]] /\ stage' = [q \in Procs |-> stage'[q]]
  BY DEF Routes
<1>3. \A q \in Procs \ {p} : Route(op'[q], stage'[q], then'[q], pc'[q])
  BY DEF Routes, Actors
<1>4. DesktopRoute(op'[Desktop], then'[Desktop], pc'[Desktop])
  BY <1>1 DEF Routes
<1> QED BY <1>2, <1>3, <1>4 DEF Routes

\* A step of the desktop.
LEMMA RoutesKeptByDesktop ==
  ASSUME Routes,
         pc' = [pc EXCEPT ![Desktop] = pc'[Desktop]],
         then' = [then EXCEPT ![Desktop] = then'[Desktop]],
         op' = [op EXCEPT ![Desktop] = op'[Desktop]], stage' = stage,
         DesktopRoute(op'[Desktop], then'[Desktop], pc'[Desktop])
  PROVE  Routes'
<1>1. Desktop \notin Procs /\ Desktop \in Actors
  BY SessionAssumption DEF Actors
<1>2. /\ pc' = [a \in Actors |-> pc'[a]] /\ then' = [a \in Actors |-> then'[a]]
      /\ op' = [a \in Actors |-> op'[a]] /\ stage' = [q \in Procs |-> stage'[q]]
  BY DEF Routes
<1>3. \A q \in Procs : Route(op'[q], stage'[q], then'[q], pc'[q])
  BY <1>1 DEF Routes, Actors
<1> QED BY <1>2, <1>3 DEF Routes

LEMMA RoutesStep ==
  ASSUME Routes, SessionNext \/ UNCHANGED session
  PROVE  Routes'
<1>0. Procs \subseteq Actors /\ Desktop \in Actors /\ SessionOps \subseteq {"turn", "compact", "clear", "clear_full"}
  BY SessionAssumption DEF Actors
<1>1. ASSUME NEW p \in Procs, NEW o \in SessionOps, Start(p, o)
      PROVE  Routes'
  <2>1. /\ pc' = [pc EXCEPT ![p] = pc'[p]] /\ then' = [then EXCEPT ![p] = then'[p]]
        /\ op' = [op EXCEPT ![p] = op'[p]] /\ stage' = [stage EXCEPT ![p] = stage'[p]]
    BY <1>1, <1>0 DEF Start, Goto, local, Routes
  <2>2. Route(op'[p], stage'[p], then'[p], pc'[p])
    <3>1. /\ op'[p] = o /\ stage'[p] = stage[p] /\ then'[p] = then[p]
          /\ \/ pc'[p] \in {"idle", "read"}
             \/ pc'[p] = "load" /\ o \in {"turn", "compact"}
      BY <1>1, <1>0 DEF Start, Goto, Routes
    <3> QED BY <3>1, <1>1, <1>0 DEF Routes, Route, Toward, Points
  <2> QED BY <2>1, <2>2, RoutesKept
<1>2. ASSUME NEW p \in Procs, EnsureSession(p)
      PROVE  Routes'
  <2>1. /\ pc' = [pc EXCEPT ![p] = pc'[p]] /\ then' = [then EXCEPT ![p] = then'[p]]
        /\ op' = [op EXCEPT ![p] = op'[p]] /\ stage' = [stage EXCEPT ![p] = stage'[p]]
    BY <1>2, <1>0 DEF EnsureSession, Save, Goto, local, Routes
  <2>2. Route(op'[p], stage'[p], then'[p], pc'[p])
    BY <1>2, <1>0 DEF EnsureSession, Save, Goto, local, Routes, Route, Toward, Points
  <2> QED BY <2>1, <2>2, RoutesKept
<1>3. ASSUME NEW p \in Procs, EnsureHeader(p)
      PROVE  Routes'
  <2>1. /\ pc' = [pc EXCEPT ![p] = pc'[p]] /\ then' = [then EXCEPT ![p] = then'[p]]
        /\ op' = [op EXCEPT ![p] = op'[p]] /\ stage' = [stage EXCEPT ![p] = stage'[p]]
    BY <1>3, <1>0 DEF EnsureHeader, Goto, local, Routes
  <2>2. Route(op'[p], stage'[p], then'[p], pc'[p])
    BY <1>3, <1>0 DEF EnsureHeader, Goto, local, Routes, Route, Toward, Points
  <2> QED BY <2>1, <2>2, RoutesKept
<1>4. ASSUME NEW p \in Procs, ReadHistory(p)
      PROVE  Routes'
  <2>1. /\ pc' = [pc EXCEPT ![p] = pc'[p]] /\ then' = [then EXCEPT ![p] = then'[p]]
        /\ op' = [op EXCEPT ![p] = op'[p]] /\ stage' = [stage EXCEPT ![p] = stage'[p]]
    BY <1>4, <1>0 DEF ReadHistory, Goto, AfterRead, AfterFailedRead, local, Routes
  <2>2. Route(op'[p], stage'[p], then'[p], pc'[p])
    <3>1. /\ op'[p] = op[p] /\ then'[p] = then[p]
          /\ stage'[p] = IF op[p] = "compact" THEN "compact" ELSE "early"
          /\ pc'[p] \in {AfterRead(op[p]), AfterFailedRead(op[p])}
      BY <1>4, <1>0 DEF ReadHistory, Goto, Routes
    <3>2. pc[p] = "read" /\ Route(op[p], stage[p], then[p], pc[p])
      BY <1>4 DEF ReadHistory, Routes
    <3> QED BY <3>1, <3>2 DEF AfterRead, AfterFailedRead, Route, Toward, Points
  <2> QED BY <2>1, <2>2, RoutesKept
<1>5. ASSUME NEW p \in Procs, EarlyFlush(p)
      PROVE  Routes'
  <2>1. /\ pc' = [pc EXCEPT ![p] = pc'[p]] /\ then' = [then EXCEPT ![p] = then'[p]]
        /\ op' = [op EXCEPT ![p] = op'[p]] /\ stage' = [stage EXCEPT ![p] = stage'[p]]
    BY <1>5, <1>0 DEF EarlyFlush, FlushThen, Goto, local, Routes
  <2>2. Route(op'[p], stage'[p], then'[p], pc'[p])
    <3>1. /\ op'[p] = op[p] /\ stage'[p] = stage[p]
          /\ \/ pc'[p] = "flush" /\ then'[p] = "check"
             \/ pc'[p] = "check" /\ then'[p] = then[p]
      BY <1>5, <1>0 DEF EarlyFlush, FlushThen, Goto, local, Routes
    <3>2. pc[p] = "early" /\ Route(op[p], stage[p], then[p], pc[p])
      BY <1>5 DEF EarlyFlush, Routes
    <3>3. CASE pc'[p] = "flush" /\ then'[p] = "check"
      <4>1. op[p] = "turn" /\ stage[p] \in {"early", "compact", "budget"}
        BY <3>2 DEF Route, Toward
      <4>2. Toward(then'[p], pc'[p]) = "flush"
        BY <3>3 DEF Toward
      <4> QED BY <3>1, <3>3, <4>1, <4>2 DEF Route, Points
    <3>4. CASE pc'[p] = "check" /\ then'[p] = then[p]
      BY <3>1, <3>2, <3>4 DEF Route, Toward, Points
    <3> QED BY <3>1, <3>3, <3>4
  <2> QED BY <2>1, <2>2, RoutesKept
<1>6. ASSUME NEW p \in Procs, Check(p)
      PROVE  Routes'
  <2>1. /\ pc' = [pc EXCEPT ![p] = pc'[p]] /\ then' = [then EXCEPT ![p] = then'[p]]
        /\ op' = [op EXCEPT ![p] = op'[p]] /\ stage' = [stage EXCEPT ![p] = stage'[p]]
    BY <1>6, <1>0 DEF Check, FlushThen, Goto, local, Routes
  <2>2. Route(op'[p], stage'[p], then'[p], pc'[p])
    BY <1>6, <1>0 DEF Check, FlushThen, Goto, local, Routes, Route, Toward, Points
  <2> QED BY <2>1, <2>2, RoutesKept
<1>7. ASSUME NEW p \in Procs, NEW ok \in BOOLEAN, FlushTurn(p, ok)
      PROVE  Routes'
  <2>1. /\ pc' = [pc EXCEPT ![p] = pc'[p]] /\ then' = [then EXCEPT ![p] = then'[p]]
        /\ op' = [op EXCEPT ![p] = op'[p]] /\ stage' = [stage EXCEPT ![p] = stage'[p]]
    BY <1>7, <1>0 DEF FlushTurn, Goto, local, Routes
  <2>2. Route(op'[p], stage'[p], then'[p], pc'[p])
    BY <1>7, <1>0 DEF FlushTurn, Goto, local, Routes, Route, Toward, Points
  <2> QED BY <2>1, <2>2, RoutesKept
<1>8. ASSUME NEW p \in Procs, MarkFlushed(p)
      PROVE  Routes'
  <2>1. /\ pc' = [pc EXCEPT ![p] = pc'[p]] /\ then' = [then EXCEPT ![p] = then'[p]]
        /\ op' = [op EXCEPT ![p] = op'[p]] /\ stage' = [stage EXCEPT ![p] = stage'[p]]
    BY <1>8, <1>0 DEF MarkFlushed, Save, Goto, local, Routes
  <2>2. Route(op'[p], stage'[p], then'[p], pc'[p])
    BY <1>8, <1>0 DEF MarkFlushed, Save, Goto, local, Routes, Route, Toward, Points
  <2> QED BY <2>1, <2>2, RoutesKept
<1>9. ASSUME NEW p \in Procs, KeepAll(p)
      PROVE  Routes'
  <2>1. /\ pc' = [pc EXCEPT ![p] = pc'[p]] /\ then' = [then EXCEPT ![p] = then'[p]]
        /\ op' = [op EXCEPT ![p] = op'[p]] /\ stage' = [stage EXCEPT ![p] = stage'[p]]
    BY <1>9, <1>0 DEF KeepAll, Goto, local, Routes
  <2>2. Route(op'[p], stage'[p], then'[p], pc'[p])
    BY <1>9, <1>0 DEF KeepAll, AfterCompaction, Goto, local, Routes, Route, Toward, Points
  <2> QED BY <2>1, <2>2, RoutesKept
<1>10. ASSUME NEW p \in Procs, Summarise(p)
       PROVE  Routes'
  <2>1. /\ pc' = [pc EXCEPT ![p] = pc'[p]] /\ then' = [then EXCEPT ![p] = then'[p]]
        /\ op' = [op EXCEPT ![p] = op'[p]] /\ stage' = [stage EXCEPT ![p] = stage'[p]]
    BY <1>10, <1>0 DEF Summarise, PutRow, Goto, local, Routes
  <2>2. Route(op'[p], stage'[p], then'[p], pc'[p])
    BY <1>10, <1>0 DEF Summarise, PutRow, Goto, local, Routes, Route, Toward, Points
  <2> QED BY <2>1, <2>2, RoutesKept
<1>11. ASSUME NEW p \in Procs, CountCompaction(p)
       PROVE  Routes'
  <2>1. /\ pc' = [pc EXCEPT ![p] = pc'[p]] /\ then' = [then EXCEPT ![p] = then'[p]]
        /\ op' = [op EXCEPT ![p] = op'[p]] /\ stage' = [stage EXCEPT ![p] = stage'[p]]
    BY <1>11, <1>0 DEF CountCompaction, AfterCompaction, Save, Goto, local, Routes
  <2>2. Route(op'[p], stage'[p], then'[p], pc'[p])
    <3>1. /\ op'[p] = op[p] /\ stage'[p] = stage[p]
          /\ \/ pc'[p] = "truncate" /\ then'[p] = AfterCompaction(p)
             \/ pc'[p] = AfterCompaction(p) /\ then'[p] = then[p]
      BY <1>11, <1>0 DEF CountCompaction, Save, Goto, local, Routes
    <3>2. pc[p] = "count" /\ Route(op[p], stage[p], then[p], pc[p])
      BY <1>11 DEF CountCompaction, Routes
    <3>3. op[p] = "compact" \/ (op[p] = "turn" /\ stage[p] \in {"compact", "budget"})
      BY <3>2 DEF Route, Toward
    <3>4. \/ op[p] = "compact" /\ AfterCompaction(p) = "idle"
          \/ op[p] = "turn" /\ AfterCompaction(p) \in {"budget", "user"}
      BY <3>3 DEF AfterCompaction
    <3>5. stage[p] \in {"early", "compact", "budget"} /\ then[p] \in Points
      BY <3>2 DEF Route
    <3> QED BY <3>1, <3>4, <3>5 DEF Route, Toward, Points
  <2> QED BY <2>1, <2>2, RoutesKept
<1>12. ASSUME NEW p \in Procs, NEW remembers \in BOOLEAN, NEW over \in BOOLEAN,
              Budget(p, remembers, over)
       PROVE  Routes'
  <2>1. /\ pc' = [pc EXCEPT ![p] = pc'[p]] /\ then' = [then EXCEPT ![p] = then'[p]]
        /\ op' = [op EXCEPT ![p] = op'[p]] /\ stage' = [stage EXCEPT ![p] = stage'[p]]
    BY <1>12, <1>0 DEF Budget, Goto, local, Routes
  <2>2. Route(op'[p], stage'[p], then'[p], pc'[p])
    BY <1>12, <1>0 DEF Budget, Goto, local, Routes, Route, Toward, Points
  <2> QED BY <2>1, <2>2, RoutesKept
<1>13. ASSUME NEW p \in Procs, AppendUser(p)
       PROVE  Routes'
  <2>1. /\ pc' = [pc EXCEPT ![p] = pc'[p]] /\ then' = [then EXCEPT ![p] = then'[p]]
        /\ op' = [op EXCEPT ![p] = op'[p]] /\ stage' = [stage EXCEPT ![p] = stage'[p]]
    BY <1>13, <1>0 DEF AppendUser, PutRow, Goto, local, Routes
  <2>2. Route(op'[p], stage'[p], then'[p], pc'[p])
    BY <1>13, <1>0 DEF AppendUser, PutRow, Goto, local, Routes, Route, Toward, Points
  <2> QED BY <2>1, <2>2, RoutesKept
<1>14. ASSUME NEW p \in Procs, AgentLoopFails(p)
       PROVE  Routes'
  <2>1. /\ pc' = [pc EXCEPT ![p] = pc'[p]] /\ then' = [then EXCEPT ![p] = then'[p]]
        /\ op' = [op EXCEPT ![p] = op'[p]] /\ stage' = [stage EXCEPT ![p] = stage'[p]]
    BY <1>14, <1>0 DEF AgentLoopFails, Goto, local, Routes
  <2>2. Route(op'[p], stage'[p], then'[p], pc'[p])
    BY <1>14, <1>0 DEF AgentLoopFails, Goto, local, Routes, Route, Toward, Points
  <2> QED BY <2>1, <2>2, RoutesKept
<1>15. ASSUME NEW p \in Procs, AppendAssistant(p)
       PROVE  Routes'
  <2>1. /\ pc' = [pc EXCEPT ![p] = pc'[p]] /\ then' = [then EXCEPT ![p] = then'[p]]
        /\ op' = [op EXCEPT ![p] = op'[p]] /\ stage' = [stage EXCEPT ![p] = stage'[p]]
    BY <1>15, <1>0 DEF AppendAssistant, PutRow, Goto, local, Routes
  <2>2. Route(op'[p], stage'[p], then'[p], pc'[p])
    BY <1>15, <1>0 DEF AppendAssistant, PutRow, Goto, local, Routes, Route, Toward, Points
  <2> QED BY <2>1, <2>2, RoutesKept
<1>16. ASSUME NEW p \in Procs, RememberNothing(p)
       PROVE  Routes'
  <2>1. /\ pc' = [pc EXCEPT ![p] = pc'[p]] /\ then' = [then EXCEPT ![p] = then'[p]]
        /\ op' = [op EXCEPT ![p] = op'[p]] /\ stage' = [stage EXCEPT ![p] = stage'[p]]
    BY <1>16, <1>0 DEF RememberNothing, EndOfClear, Goto, local, Routes
  <2>2. Route(op'[p], stage'[p], then'[p], pc'[p])
    BY <1>16, <1>0 DEF RememberNothing, EndOfClear, Goto, local, Routes, Route, Toward, Points
  <2> QED BY <2>1, <2>2, RoutesKept
<1>17. ASSUME NEW p \in Procs, Remember(p)
       PROVE  Routes'
  <2>1. /\ pc' = [pc EXCEPT ![p] = pc'[p]] /\ then' = [then EXCEPT ![p] = then'[p]]
        /\ op' = [op EXCEPT ![p] = op'[p]] /\ stage' = [stage EXCEPT ![p] = stage'[p]]
    BY <1>17, <1>0 DEF Remember, EndOfClear, PutRow, Goto, local, Routes
  <2>2. Route(op'[p], stage'[p], then'[p], pc'[p])
    BY <1>17, <1>0 DEF Remember, EndOfClear, PutRow, Goto, local, Routes, Route, Toward, Points
  <2> QED BY <2>1, <2>2, RoutesKept
<1>18. ASSUME NEW p \in Procs, ListFiles(p)
       PROVE  Routes'
  <2>1. /\ pc' = [pc EXCEPT ![p] = pc'[p]] /\ then' = [then EXCEPT ![p] = then'[p]]
        /\ op' = [op EXCEPT ![p] = op'[p]] /\ stage' = [stage EXCEPT ![p] = stage'[p]]
    BY <1>18, <1>0 DEF ListFiles, Goto, local, Routes
  <2>2. Route(op'[p], stage'[p], then'[p], pc'[p])
    BY <1>18, <1>0 DEF ListFiles, Goto, local, Routes, Route, Toward, Points
  <2> QED BY <2>1, <2>2, RoutesKept
<1>19. ASSUME NEW p \in Procs, Archive(p)
       PROVE  Routes'
  <2>1. /\ pc' = [pc EXCEPT ![p] = pc'[p]] /\ then' = [then EXCEPT ![p] = then'[p]]
        /\ op' = [op EXCEPT ![p] = op'[p]] /\ stage' = [stage EXCEPT ![p] = stage'[p]]
    BY <1>19, <1>0 DEF Archive, RemoveFile, Goto, local, Routes
  <2>2. Route(op'[p], stage'[p], then'[p], pc'[p])
    BY <1>19, <1>0 DEF Archive, RemoveFile, Goto, local, Routes, Route, Toward, Points
  <2> QED BY <2>1, <2>2, RoutesKept
<1>20. ASSUME NEW p \in Procs, ResetCounts(p)
       PROVE  Routes'
  <2>1. /\ pc' = [pc EXCEPT ![p] = pc'[p]] /\ then' = [then EXCEPT ![p] = then'[p]]
        /\ op' = [op EXCEPT ![p] = op'[p]] /\ stage' = [stage EXCEPT ![p] = stage'[p]]
    BY <1>20, <1>0 DEF ResetCounts, Save, Goto, local, Routes
  <2>2. Route(op'[p], stage'[p], then'[p], pc'[p])
    <3>1. /\ op'[p] = op[p] /\ stage'[p] = stage[p]
          /\ \/ pc'[p] = "truncate" /\ then'[p] = "reset"
             \/ pc'[p] = "reset" /\ then'[p] = then[p]
      BY <1>20, <1>0 DEF ResetCounts, Save, Goto, local, Routes
    <3>2. pc[p] = "counts" /\ Route(op[p], stage[p], then[p], pc[p])
      BY <1>20 DEF ResetCounts, Routes
    <3>3. op[p] = "clear_full" /\ stage[p] \in {"early", "compact", "budget"}
          /\ then[p] \in Points
      BY <3>2 DEF Route, Toward
    <3> QED BY <3>1, <3>3 DEF Route, Toward, Points
  <2> QED BY <2>1, <2>2, RoutesKept
<1>21. ASSUME NEW p \in Procs, ResetSession(p)
       PROVE  Routes'
  <2>1. /\ pc' = [pc EXCEPT ![p] = pc'[p]] /\ then' = [then EXCEPT ![p] = then'[p]]
        /\ op' = [op EXCEPT ![p] = op'[p]] /\ stage' = [stage EXCEPT ![p] = stage'[p]]
    BY <1>21, <1>0 DEF ResetSession, Goto, local, Routes
  <2>2. Route(op'[p], stage'[p], then'[p], pc'[p])
    BY <1>21, <1>0 DEF ResetSession, Goto, local, Routes, Route, Toward, Points
  <2> QED BY <2>1, <2>2, RoutesKept
<1>22. ASSUME NEW p \in Procs, Newline(p)
       PROVE  Routes'
  <2>1. /\ pc' = [pc EXCEPT ![p] = pc'[p]] /\ then' = [then EXCEPT ![p] = then'[p]]
        /\ op' = [op EXCEPT ![p] = op'[p]] /\ stage' = [stage EXCEPT ![p] = stage'[p]]
    BY <1>22, <1>0 DEF Newline, Goto, local, Routes
  <2>2. Route(op'[p], stage'[p], then'[p], pc'[p])
    BY <1>22, <1>0 DEF Newline, Goto, local, Routes, Route, Toward, Points
  <2> QED BY <2>1, <2>2, RoutesKept
<1>23. ASSUME NEW a \in Actors, Truncate(a)
       PROVE  Routes'
  <2>1. CASE a \in Procs
    <3>1. /\ pc' = [pc EXCEPT ![a] = pc'[a]] /\ then' = [then EXCEPT ![a] = then'[a]]
          /\ op' = [op EXCEPT ![a] = op'[a]] /\ stage' = [stage EXCEPT ![a] = stage'[a]]
      BY <1>23, <2>1, <1>0 DEF Truncate, Goto, local, Routes
    <3>2. Route(op'[a], stage'[a], then'[a], pc'[a])
      BY <1>23, <2>1, <1>0 DEF Truncate, Goto, local, Routes, Route, Toward, Points
    <3> QED BY <2>1, <3>1, <3>2, RoutesKept
  <2>2. CASE a = Desktop
    <3>1. /\ pc' = [pc EXCEPT ![a] = pc'[a]] /\ then' = [then EXCEPT ![a] = then'[a]]
          /\ op' = [op EXCEPT ![a] = op'[a]] /\ stage' = stage
      BY <1>23, <2>2, <1>0 DEF Truncate, Goto, local, Routes
    <3>2. DesktopRoute(op'[a], then'[a], pc'[a])
      BY <1>23, <2>2, <1>0 DEF Truncate, Goto, local, Routes, DesktopRoute
    <3> QED BY <2>2, <3>1, <3>2, RoutesKeptByDesktop
  <2> QED BY <2>1, <2>2 DEF Actors
<1>24. ASSUME NEW a \in Actors, Write(a)
       PROVE  Routes'
  <2>1. CASE a \in Procs
    <3>1. /\ pc' = [pc EXCEPT ![a] = pc'[a]] /\ then' = [then EXCEPT ![a] = then'[a]]
          /\ op' = [op EXCEPT ![a] = op'[a]] /\ stage' = [stage EXCEPT ![a] = stage'[a]]
      BY <1>24, <2>1, <1>0 DEF Write, Goto, local, Routes
    <3>2. Route(op'[a], stage'[a], then'[a], pc'[a])
      BY <1>24, <2>1, <1>0 DEF Write, Goto, local, Routes, Route, Toward, Points
    <3> QED BY <2>1, <3>1, <3>2, RoutesKept
  <2>2. CASE a = Desktop
    <3>1. /\ pc' = [pc EXCEPT ![a] = pc'[a]] /\ then' = [then EXCEPT ![a] = then'[a]]
          /\ op' = [op EXCEPT ![a] = op'[a]] /\ stage' = stage
      BY <1>24, <2>2, <1>0 DEF Write, Goto, local, Routes
    <3>2. DesktopRoute(op'[a], then'[a], pc'[a])
      BY <1>24, <2>2, <1>0 DEF Write, Goto, local, Routes, DesktopRoute
    <3> QED BY <2>2, <3>1, <3>2, RoutesKeptByDesktop
  <2> QED BY <2>1, <2>2 DEF Actors
<1>25. ASSUME NEW a \in Actors, Crash(a)
       PROVE  Routes'
  <2>1. CASE a \in Procs
    <3>1. /\ pc' = [pc EXCEPT ![a] = pc'[a]] /\ then' = [then EXCEPT ![a] = then'[a]]
          /\ op' = [op EXCEPT ![a] = op'[a]] /\ stage' = [stage EXCEPT ![a] = stage'[a]]
      BY <1>25, <2>1, <1>0 DEF Crash, Goto, local, Routes
    <3>2. Route(op'[a], stage'[a], then'[a], pc'[a])
      BY <1>25, <2>1, <1>0 DEF Crash, Goto, local, Routes, Route, Toward, Points
    <3> QED BY <2>1, <3>1, <3>2, RoutesKept
  <2>2. CASE a = Desktop
    <3>1. /\ pc' = [pc EXCEPT ![a] = pc'[a]] /\ then' = [then EXCEPT ![a] = then'[a]]
          /\ op' = [op EXCEPT ![a] = op'[a]] /\ stage' = stage
      BY <1>25, <2>2, <1>0 DEF Crash, Goto, local, Routes
    <3>2. DesktopRoute(op'[a], then'[a], pc'[a])
      BY <1>25, <2>2, <1>0 DEF Crash, Goto, local, Routes, DesktopRoute
    <3> QED BY <2>2, <3>1, <3>2, RoutesKeptByDesktop
  <2> QED BY <2>1, <2>2 DEF Actors
<1>26. ASSUME NEW k \in Keys, CreateSession(k)
       PROVE  Routes'
  <2>1. /\ pc' = [pc EXCEPT ![Desktop] = pc'[Desktop]]
        /\ then' = [then EXCEPT ![Desktop] = then'[Desktop]]
        /\ op' = [op EXCEPT ![Desktop] = op'[Desktop]] /\ stage' = stage
    BY <1>26, <1>0 DEF CreateSession, DesktopStarts, Save, Goto, Routes
  <2>2. DesktopRoute(op'[Desktop], then'[Desktop], pc'[Desktop])
    BY <1>26, <1>0, SessionAssumption DEF CreateSession, DesktopStarts, Save, Goto, Routes, DesktopRoute
  <2> QED BY <2>1, <2>2, RoutesKeptByDesktop
<1>27. ASSUME NEW k \in Keys, RenameSession(k)
       PROVE  Routes'
  <2>1. /\ pc' = [pc EXCEPT ![Desktop] = pc'[Desktop]]
        /\ then' = [then EXCEPT ![Desktop] = then'[Desktop]]
        /\ op' = [op EXCEPT ![Desktop] = op'[Desktop]] /\ stage' = stage
    BY <1>27, <1>0 DEF RenameSession, DesktopStarts, Save, Goto, Routes
  <2>2. DesktopRoute(op'[Desktop], then'[Desktop], pc'[Desktop])
    BY <1>27, <1>0, SessionAssumption DEF RenameSession, DesktopStarts, Save, Goto, Routes, DesktopRoute
  <2> QED BY <2>1, <2>2, RoutesKeptByDesktop
<1>28. ASSUME NEW k \in Keys, DeleteSession(k)
       PROVE  Routes'
  <2>1. /\ pc' = [pc EXCEPT ![Desktop] = pc'[Desktop]]
        /\ then' = [then EXCEPT ![Desktop] = then'[Desktop]]
        /\ op' = [op EXCEPT ![Desktop] = op'[Desktop]] /\ stage' = stage
    BY <1>28, <1>0 DEF DeleteSession, DesktopStarts, Save, Goto, Routes
  <2>2. DesktopRoute(op'[Desktop], then'[Desktop], pc'[Desktop])
    BY <1>28, <1>0, SessionAssumption DEF DeleteSession, DesktopStarts, Save, Goto, Routes, DesktopRoute
  <2> QED BY <2>1, <2>2, RoutesKeptByDesktop
<1>29. ASSUME UnlinkTranscripts
       PROVE  Routes'
  <2>1. /\ pc' = [pc EXCEPT ![Desktop] = pc'[Desktop]]
        /\ then' = [then EXCEPT ![Desktop] = then'[Desktop]]
        /\ op' = [op EXCEPT ![Desktop] = op'[Desktop]] /\ stage' = stage
    BY <1>29, <1>0 DEF UnlinkTranscripts, RemoveFile, Goto, Routes
  <2>2. DesktopRoute(op'[Desktop], then'[Desktop], pc'[Desktop])
    BY <1>29, <1>0, SessionAssumption DEF UnlinkTranscripts, RemoveFile, Goto, Routes, DesktopRoute
  <2> QED BY <2>1, <2>2, RoutesKeptByDesktop
<1>30. ASSUME NextDay
       PROVE  Routes'
  BY <1>30 DEF NextDay, local, Routes, Route
<1>31. ASSUME Rest \/ UNCHANGED session
       PROVE  Routes'
  BY <1>31 DEF Rest, session, local, Routes, Route
<1> QED
  BY <1>1, <1>2, <1>3, <1>4, <1>5, <1>6, <1>7, <1>8, <1>9, <1>10, <1>11, <1>12, <1>13, <1>14, <1>15, <1>16, <1>17, <1>18, <1>19, <1>20, <1>21, <1>22, <1>23, <1>24, <1>25, <1>26, <1>27, <1>28, <1>29, <1>30, <1>31
  DEF SessionNext, Turn, Clear, DesktopStep

-----------------------------------------------------------------------------
(* ChatSession: types of the files and of the session store.               *)

Logs ==
  /\ files \in [Files -> Seq(Row)] /\ ragged \subseteq {f \in Files : files[f] # <<>>}
  /\ \A f \in Files : /\ Len(files[f]) < said
                      /\ \A i \in DOMAIN files[f] : files[f][i].id < said
  /\ said \in Nat \ {0} /\ day \in 1..MaxDay
  /\ line \in [Procs -> [file : Files, id : Nat]]

LEMMA RowsOfFile ==
  ASSUME Logs, NEW f \in Files, NEW i \in DOMAIN files[f]
  PROVE  files[f][i] \in Row
<1>1. files[f] \in Seq(Row)
  BY DEF Logs
<1> QED BY <1>1

LEMMA TodayIsFile ==
  ASSUME NEW p \in Procs, day \in 1..MaxDay
  PROVE  Today(p) \in Files /\ Today(p)[1] = KeyOf[p] /\ KeyOf[p] \in Keys
BY SessionAssumption DEF Today, Files

\* What a row that is written does to its file.
LEMMA PutAppends ==
  ASSUME Logs, NEW p \in Procs, NEW kind \in {"message", "compaction", "cleared"}, NEW l,
         PutRow(p, kind, l)
  PROVE  LET f == Today(p)
             row == [kind |-> kind, id |-> said, glued |-> f \in ragged]
         IN /\ row \in Row /\ f \in Files
            /\ DOMAIN files' = Files
            /\ files'[f] \in Seq(Row) /\ Len(files'[f]) = Len(files[f]) + 1
            /\ files'[f][Len(files[f]) + 1] = row
            /\ \A i \in DOMAIN files[f] : files'[f][i] = files[f][i]
            /\ \A g \in Files \ {f} : files'[g] = files[g]
            /\ said' = said + 1
<1> DEFINE f == Today(p)
           row == [kind |-> kind, id |-> said, glued |-> f \in ragged]
<1>1. f \in Files
  BY TodayIsFile DEF Logs
<1>2. row \in Row
  BY DEF Row, Logs
<1>3. files' = [files EXCEPT ![f] = Append(@, row)] /\ said' = said + 1
  BY DEF PutRow
<1>4. files[f] \in Seq(Row)
  BY <1>1 DEF Logs
<1> HIDE DEF f, row
<1>5. DOMAIN files' = Files /\ files'[f] = Append(files[f], row)
      /\ \A g \in Files \ {f} : files'[g] = files[g]
  BY <1>1, <1>3 DEF Logs
<1>6. /\ Append(files[f], row) \in Seq(Row)
      /\ Len(Append(files[f], row)) = Len(files[f]) + 1
      /\ Append(files[f], row)[Len(files[f]) + 1] = row
      /\ \A i \in DOMAIN files[f] : Append(files[f], row)[i] = files[f][i]
  BY <1>2, <1>4
<1>7. QED
  BY <1>1, <1>2, <1>3, <1>5, <1>6 DEF f, row

LEMMA LogsPut ==
  ASSUME Logs, NEW p \in Procs, NEW kind \in {"message", "compaction", "cleared"}, NEW l,
         PutRow(p, kind, l), day' = day
  PROVE  Logs'
<1> DEFINE f == Today(p)
           row == [kind |-> kind, id |-> said, glued |-> f \in ragged]
<1>1. /\ row \in Row /\ f \in Files
      /\ DOMAIN files' = Files
      /\ files'[f] \in Seq(Row) /\ Len(files'[f]) = Len(files[f]) + 1
      /\ files'[f][Len(files[f]) + 1] = row
      /\ \A i \in DOMAIN files[f] : files'[f][i] = files[f][i]
      /\ \A g \in Files \ {f} : files'[g] = files[g]
      /\ said' = said + 1
  BY PutAppends
<1>2. row.id = said
  OBVIOUS
<1>3. files' = [files EXCEPT ![f] = files'[f]]
  BY DEF PutRow, Logs
<1>4. ragged' = ragged \cup {f} /\ line' = [line EXCEPT ![p] = [file |-> f, id |-> said]]
  BY DEF PutRow
<1> HIDE DEF f, row
<1>5. files' \in [Files -> Seq(Row)]
  BY <1>1, <1>3 DEF Logs
<1>6. files'[f] # <<>>
  BY <1>1 DEF Logs
<1>7. ragged' \subseteq {g \in Files : files'[g] # <<>>}
  BY <1>1, <1>4, <1>6 DEF Logs
<1>8. said' \in Nat \ {0} /\ day' \in 1..MaxDay
  BY <1>1 DEF Logs
<1>9. line' \in [Procs -> [file : Files, id : Nat]]
  BY <1>1, <1>4 DEF Logs
<1>10. ASSUME NEW g \in Files
       PROVE  Len(files'[g]) < said' /\ \A i \in DOMAIN files'[g] : files'[g][i].id < said'
  <2>1. CASE g # f
    <3>1. files'[g] = files[g]
      BY <1>1, <2>1
    <3>2. Len(files[g]) < said /\ Len(files[g]) \in Nat /\ said \in Nat
      BY DEF Logs
    <3>3. \A i \in DOMAIN files[g] : files[g][i].id < said /\ files[g][i].id \in Nat
      BY RowsOfFile DEF Logs, Row
    <3> QED BY <3>1, <3>2, <3>3, <1>1
  <2>2. CASE g = f
    <3>1. Len(files[f]) < said /\ Len(files[f]) \in Nat /\ said \in Nat
      BY <1>1 DEF Logs
    <3>2. \A i \in DOMAIN files[f] : files[f][i].id < said /\ files[f][i].id \in Nat
      BY <1>1, RowsOfFile DEF Logs, Row
    <3>3. ASSUME NEW i \in DOMAIN files'[f] PROVE files'[f][i].id < said'
      <4>1. i \in DOMAIN files[f] \/ i = Len(files[f]) + 1
        BY <1>1, <3>1 DEF Logs
      <4> QED BY <4>1, <3>1, <3>2, <1>1, <1>2
    <3> QED BY <2>2, <3>1, <3>3, <1>1
  <2> QED BY <2>1, <2>2
<1> QED BY <1>5, <1>7, <1>8, <1>9, <1>10 DEF Logs

LEMMA LogsRemove ==
  ASSUME Logs, NEW f \in Files, RemoveFile(f), UNCHANGED <<said, day, line>>
  PROVE  Logs'
<1>1. files' = [files EXCEPT ![f] = <<>>] /\ ragged' = ragged \ {f}
  BY DEF RemoveFile
<1>2. files' \in [Files -> Seq(Row)]
  BY <1>1 DEF Logs
<1>3. ragged' \subseteq {g \in Files : files'[g] # <<>>}
  BY <1>1 DEF Logs
<1>4. \A g \in Files : /\ Len(files'[g]) < said'
                       /\ \A i \in DOMAIN files'[g] : files'[g][i].id < said'
  BY <1>1 DEF Logs
<1> QED BY <1>2, <1>3, <1>4 DEF Logs

LEMMA LogsStart == SessionInit => Logs
<1> SUFFICES ASSUME SessionInit PROVE Logs
  OBVIOUS
<1>1. files = [f \in Files |-> <<>>] /\ ragged = {} /\ day = 1 /\ said = 1
      /\ line = [p \in Procs |-> [file |-> <<Default, 1>>, id |-> 0]]
  BY DEF SessionInit
<1>2. <<Default, 1>> \in Files /\ 1 \in 1..MaxDay
  BY SessionAssumption DEF Files
<1>3. files \in [Files -> Seq(Row)] /\ \A f \in Files : Len(files[f]) = 0
  BY <1>1
<1> QED BY <1>1, <1>2, <1>3 DEF Logs

LEMMA LogsStep ==
  ASSUME Logs, todo \in [Procs -> SUBSET Files], SessionNext \/ UNCHANGED session
  PROVE  Logs'
<1>1. ASSUME NEW p \in Procs, NEW o \in SessionOps, Start(p, o)
      PROVE  Logs'
  BY <1>1 DEF Start, disk, Logs
<1>2. ASSUME NEW p \in Procs, EnsureSession(p)
      PROVE  Logs'
  BY <1>2 DEF EnsureSession, disk, Logs
<1>3. ASSUME NEW p \in Procs, EnsureHeader(p)
      PROVE  Logs'
  BY <1>3 DEF EnsureHeader, disk, Logs
<1>4. ASSUME NEW p \in Procs, ReadHistory(p)
      PROVE  Logs'
  BY <1>4 DEF ReadHistory, disk, Logs
<1>5. ASSUME NEW p \in Procs, EarlyFlush(p)
      PROVE  Logs'
  BY <1>5 DEF EarlyFlush, disk, Logs
<1>6. ASSUME NEW p \in Procs, Check(p)
      PROVE  Logs'
  BY <1>6 DEF Check, disk, Logs
<1>7. ASSUME NEW p \in Procs, NEW ok \in BOOLEAN, FlushTurn(p, ok)
      PROVE  Logs'
  BY <1>7 DEF FlushTurn, disk, Logs
<1>8. ASSUME NEW p \in Procs, MarkFlushed(p)
      PROVE  Logs'
  BY <1>8 DEF MarkFlushed, disk, Logs
<1>9. ASSUME NEW p \in Procs, KeepAll(p)
      PROVE  Logs'
  BY <1>9 DEF KeepAll, disk, Logs
<1>10. ASSUME NEW p \in Procs, Summarise(p)
       PROVE  Logs'
  BY <1>10, LogsPut DEF Summarise
<1>11. ASSUME NEW p \in Procs, CountCompaction(p)
       PROVE  Logs'
  BY <1>11 DEF CountCompaction, disk, Logs
<1>12. ASSUME NEW p \in Procs, NEW remembers \in BOOLEAN, NEW over \in BOOLEAN,
              Budget(p, remembers, over)
       PROVE  Logs'
  BY <1>12 DEF Budget, disk, Logs
<1>13. ASSUME NEW p \in Procs, AppendUser(p)
       PROVE  Logs'
  BY <1>13, LogsPut DEF AppendUser
<1>14. ASSUME NEW p \in Procs, AgentLoopFails(p)
       PROVE  Logs'
  BY <1>14 DEF AgentLoopFails, disk, Logs
<1>15. ASSUME NEW p \in Procs, AppendAssistant(p)
       PROVE  Logs'
  BY <1>15, LogsPut DEF AppendAssistant
<1>16. ASSUME NEW p \in Procs, RememberNothing(p)
       PROVE  Logs'
  BY <1>16 DEF RememberNothing, disk, Logs
<1>17. ASSUME NEW p \in Procs, Remember(p)
       PROVE  Logs'
  BY <1>17, LogsPut DEF Remember
<1>18. ASSUME NEW p \in Procs, ListFiles(p)
       PROVE  Logs'
  BY <1>18 DEF ListFiles, disk, Logs
<1>19. ASSUME NEW p \in Procs, Archive(p)
       PROVE  Logs'
  <2>1. CASE UNCHANGED <<files, ragged>>
    BY <1>19, <2>1 DEF Archive, Logs
  <2>2. CASE \E f \in First(KeyOf[p], todo[p]) : RemoveFile(f)
    <3>1. First(KeyOf[p], todo[p]) \subseteq Files
      BY DEF First
    <3> QED BY <1>19, <2>2, <3>1, LogsRemove DEF Archive
  <2> QED BY <1>19, <2>1, <2>2 DEF Archive
<1>20. ASSUME NEW p \in Procs, ResetCounts(p)
       PROVE  Logs'
  BY <1>20 DEF ResetCounts, disk, Logs
<1>21. ASSUME NEW p \in Procs, ResetSession(p)
       PROVE  Logs'
  BY <1>21 DEF ResetSession, disk, Logs
<1>22. ASSUME NEW p \in Procs, Newline(p)
       PROVE  Logs'
  BY <1>22 DEF Newline, Logs
<1>23. ASSUME NEW a \in Actors, Truncate(a)
       PROVE  Logs'
  BY <1>23 DEF Truncate, disk, Logs
<1>24. ASSUME NEW a \in Actors, Write(a)
       PROVE  Logs'
  BY <1>24 DEF Write, disk, Logs
<1>25. ASSUME NEW a \in Actors, Crash(a)
       PROVE  Logs'
  BY <1>25 DEF Crash, disk, Logs
<1>26. ASSUME NEW k \in Keys, CreateSession(k)
       PROVE  Logs'
  BY <1>26 DEF CreateSession, DesktopStarts, disk, Logs
<1>27. ASSUME NEW k \in Keys, RenameSession(k)
       PROVE  Logs'
  BY <1>27 DEF RenameSession, DesktopStarts, disk, Logs
<1>28. ASSUME NEW k \in Keys, DeleteSession(k)
       PROVE  Logs'
  BY <1>28 DEF DeleteSession, DesktopStarts, disk, Logs
<1>29. ASSUME UnlinkTranscripts
       PROVE  Logs'
  <2>1. CASE UNCHANGED <<files, ragged>>
    BY <1>29, <2>1 DEF UnlinkTranscripts, Logs
  <2>2. CASE \E f \in TranscriptsOf(subject) : RemoveFile(f)
    BY <1>29, <2>2, LogsRemove DEF UnlinkTranscripts, TranscriptsOf
  <2> QED BY <1>29, <2>1, <2>2 DEF UnlinkTranscripts, First
<1>30. ASSUME NextDay
       PROVE  Logs'
  BY <1>30, SessionAssumption DEF NextDay, local, Logs
<1>31. ASSUME Rest \/ UNCHANGED session
       PROVE  Logs'
  BY <1>31 DEF Rest, session, disk, local, Logs
<1> QED
  BY <1>1, <1>2, <1>3, <1>4, <1>5, <1>6, <1>7, <1>8, <1>9, <1>10, <1>11, <1>12, <1>13, <1>14, <1>15, <1>16, <1>17, <1>18, <1>19, <1>20, <1>21, <1>22, <1>23, <1>24, <1>25, <1>26, <1>27, <1>28, <1>29, <1>30, <1>31
  DEF SessionNext, Turn, Clear, DesktopStep

Index ==
  /\ IsStore(store) /\ torn \in BOOLEAN /\ cycle \in [Procs -> Nat]
  /\ snap = [a \in Actors |-> snap[a]] /\ \A a \in Actors : IsStore(snap[a])

LEMMA StoresAre ==
  /\ IsStore(<< >>) /\ NewEntry \in Entry /\ Incomplete \in Entry
  /\ \A s, k, e : IsStore(s) /\ k \in Keys /\ e \in Entry => IsStore(With(s, k, e))
  /\ \A s, k : IsStore(s) => IsStore(Without(s, k))
  /\ \A s, k : IsStore(s) /\ k \in DOMAIN s => s[k] \in Entry
<1>1. IsStore(<< >>) /\ NewEntry \in Entry /\ Incomplete \in Entry
  BY DEF IsStore, NewEntry, Incomplete, Entry
<1>2. ASSUME NEW s, NEW k \in Keys, NEW e \in Entry, IsStore(s) PROVE IsStore(With(s, k, e))
  <2> DEFINE t == With(s, k, e)
  <2>1. DOMAIN t = DOMAIN s \cup {k} /\ t = [j \in DOMAIN s \cup {k} |-> IF j = k THEN e ELSE s[j]]
    BY DEF With
  <2>2. \A j \in DOMAIN s : s[j] \in Entry
    BY <1>2 DEF IsStore
  <2>3. t \in [DOMAIN s \cup {k} -> Entry]
    BY <2>1, <2>2
  <2>4. IsStore(t)
    <3> HIDE DEF t
    <3> QED BY <2>1, <2>3, <1>2 DEF IsStore
  <2> QED BY <2>4
<1>3. ASSUME NEW s, NEW k, IsStore(s) PROVE IsStore(Without(s, k))
  BY <1>3 DEF IsStore, Without
<1>4. ASSUME NEW s, NEW k, IsStore(s), k \in DOMAIN s PROVE s[k] \in Entry
  BY <1>4 DEF IsStore
<1> QED BY <1>1, <1>2, <1>3, <1>4

\* A store in which one entry has changed.
LEMMA EntryChanged ==
  ASSUME NEW s, IsStore(s), NEW k \in DOMAIN s, NEW e \in Entry
  PROVE  IsStore([s EXCEPT ![k] = e])
BY DEF IsStore

LEMMA IndexSaved ==
  ASSUME Index, NEW a \in Actors, NEW s, IsStore(s), snap' = [snap EXCEPT ![a] = s],
         UNCHANGED <<store, torn, cycle>>
  PROVE  Index'
<1>1. snap' = [b \in Actors |-> snap'[b]] /\ snap'[a] = s
      /\ \A b \in Actors \ {a} : snap'[b] = snap[b]
  BY DEF Index
<1>2. \A b \in Actors : IsStore(snap'[b])
  BY <1>1 DEF Index
<1>3. IsStore(store')
  BY DEF Index
<1> QED BY <1>1, <1>2, <1>3 DEF Index

LEMMA IndexStep ==
  ASSUME Index, SessionNext \/ UNCHANGED session
  PROVE  Index'
<1>0. Procs \subseteq Actors /\ Desktop \in Actors /\ \A p \in Procs : KeyOf[p] \in Keys
  BY SessionAssumption DEF Actors
<1>1. ASSUME NEW p \in Procs, NEW o \in SessionOps, Start(p, o)
      PROVE  Index'
  BY <1>1 DEF Start, PutRow, disk, local, Index
<1>2. ASSUME NEW p \in Procs, EnsureSession(p)
      PROVE  Index'
  <2> DEFINE k == KeyOf[p]
             e == IF k \in DOMAIN store THEN store[k] ELSE NewEntry
  <2>1. CASE Loadable
    <3>1. e \in Entry /\ k \in Keys /\ IsStore(store)
      BY <1>0, StoresAre DEF Index
    <3>2. IsStore(With(store, k, e))
      BY <3>1, StoresAre
    <3>3. snap' = [snap EXCEPT ![p] = With(store, k, e)]
      BY <1>2, <2>1 DEF EnsureSession, Save
    <3> QED BY <1>2, <1>0, <3>2, <3>3, IndexSaved DEF EnsureSession, disk
  <2>2. CASE ~Loadable
    BY <1>2, <2>2 DEF EnsureSession, disk, Index
  <2> QED BY <2>1, <2>2
<1>3. ASSUME NEW p \in Procs, EnsureHeader(p)
      PROVE  Index'
  BY <1>3 DEF EnsureHeader, PutRow, disk, local, Index
<1>4. ASSUME NEW p \in Procs, ReadHistory(p)
      PROVE  Index'
  BY <1>4 DEF ReadHistory, PutRow, disk, local, Index
<1>5. ASSUME NEW p \in Procs, EarlyFlush(p)
      PROVE  Index'
  <2>1. CASE UNCHANGED cycle
    BY <1>5, <2>1 DEF EarlyFlush, disk, Index
  <2>2. CASE NeedsFlush(KeyOf[p]) /\ cycle' = [cycle EXCEPT ![p] = store[KeyOf[p]].count + 1]
    <3> DEFINE n == store[KeyOf[p]].count + 1
    <3>1. n \in Nat
      BY <2>2, StoresAre DEF NeedsFlush, Holds, Index, Entry
    <3>2. cycle' = [cycle EXCEPT ![p] = n]
      BY <2>2
    <3> HIDE DEF n
    <3> QED BY <1>5, <3>1, <3>2 DEF EarlyFlush, disk, Index
  <2> QED BY <1>5, <2>1, <2>2 DEF EarlyFlush, FlushThen
<1>6. ASSUME NEW p \in Procs, Check(p)
      PROVE  Index'
  <2>1. CASE UNCHANGED cycle
    BY <1>6, <2>1 DEF Check, disk, Index
  <2>2. CASE NeedsFlush(KeyOf[p]) /\ cycle' = [cycle EXCEPT ![p] = store[KeyOf[p]].count + 1]
    <3> DEFINE n == store[KeyOf[p]].count + 1
    <3>1. n \in Nat
      BY <2>2, StoresAre DEF NeedsFlush, Holds, Index, Entry
    <3>2. cycle' = [cycle EXCEPT ![p] = n]
      BY <2>2
    <3> HIDE DEF n
    <3> QED BY <1>6, <3>1, <3>2 DEF Check, disk, Index
  <2> QED BY <1>6, <2>1, <2>2 DEF Check, FlushThen
<1>7. ASSUME NEW p \in Procs, NEW ok \in BOOLEAN, FlushTurn(p, ok)
      PROVE  Index'
  BY <1>7 DEF FlushTurn, PutRow, disk, local, Index
<1>8. ASSUME NEW p \in Procs, MarkFlushed(p)
      PROVE  Index'
  <2> DEFINE k == KeyOf[p]
             e == [store[k] EXCEPT !.flushed = cycle[p]]
  <2>1. CASE Holds(k)
    <3>1. k \in DOMAIN store /\ store[k] \in Entry /\ cycle[p] \in Nat /\ IsStore(store)
      BY <2>1, StoresAre DEF Index, Holds
    <3>2. e \in Entry
      BY <3>1 DEF Entry
    <3>3. snap' = [snap EXCEPT ![p] = [store EXCEPT ![k] = e]]
      BY <1>8, <2>1 DEF MarkFlushed, Save
    <3>4. IsStore([store EXCEPT ![k] = e])
      <4> HIDE DEF e
      <4> QED BY <3>1, <3>2, EntryChanged
    <3> HIDE DEF e
    <3> QED BY <1>8, <1>0, <3>3, <3>4, IndexSaved DEF MarkFlushed, disk
  <2>2. CASE ~Holds(k)
    BY <1>8, <2>2 DEF MarkFlushed, disk, Index
  <2> QED BY <2>1, <2>2
<1>9. ASSUME NEW p \in Procs, KeepAll(p)
      PROVE  Index'
  BY <1>9 DEF KeepAll, PutRow, disk, local, Index
<1>10. ASSUME NEW p \in Procs, Summarise(p)
       PROVE  Index'
  BY <1>10 DEF Summarise, PutRow, disk, local, Index
<1>11. ASSUME NEW p \in Procs, CountCompaction(p)
       PROVE  Index'
  <2> DEFINE k == KeyOf[p]
             e == [store[k] EXCEPT !.count = store[k].count + 1]
  <2>1. CASE Holds(k)
    <3>1. k \in DOMAIN store /\ store[k] \in Entry /\ cycle[p] \in Nat /\ IsStore(store)
      BY <2>1, StoresAre DEF Index, Holds
    <3>2. e \in Entry
      BY <3>1 DEF Entry
    <3>3. snap' = [snap EXCEPT ![p] = [store EXCEPT ![k] = e]]
      BY <1>11, <2>1 DEF CountCompaction, Save
    <3>4. IsStore([store EXCEPT ![k] = e])
      <4> HIDE DEF e
      <4> QED BY <3>1, <3>2, EntryChanged
    <3> HIDE DEF e
    <3> QED BY <1>11, <1>0, <3>3, <3>4, IndexSaved DEF CountCompaction, disk
  <2>2. CASE ~Holds(k)
    BY <1>11, <2>2 DEF CountCompaction, disk, Index
  <2> QED BY <2>1, <2>2
<1>12. ASSUME NEW p \in Procs, NEW remembers \in BOOLEAN, NEW over \in BOOLEAN,
              Budget(p, remembers, over)
       PROVE  Index'
  BY <1>12 DEF Budget, PutRow, disk, local, Index
<1>13. ASSUME NEW p \in Procs, AppendUser(p)
       PROVE  Index'
  BY <1>13 DEF AppendUser, PutRow, disk, local, Index
<1>14. ASSUME NEW p \in Procs, AgentLoopFails(p)
       PROVE  Index'
  BY <1>14 DEF AgentLoopFails, PutRow, disk, local, Index
<1>15. ASSUME NEW p \in Procs, AppendAssistant(p)
       PROVE  Index'
  BY <1>15 DEF AppendAssistant, PutRow, disk, local, Index
<1>16. ASSUME NEW p \in Procs, RememberNothing(p)
       PROVE  Index'
  BY <1>16 DEF RememberNothing, PutRow, disk, local, Index
<1>17. ASSUME NEW p \in Procs, Remember(p)
       PROVE  Index'
  BY <1>17 DEF Remember, PutRow, disk, local, Index
<1>18. ASSUME NEW p \in Procs, ListFiles(p)
       PROVE  Index'
  BY <1>18 DEF ListFiles, PutRow, disk, local, Index
<1>19. ASSUME NEW p \in Procs, Archive(p)
       PROVE  Index'
  BY <1>19 DEF Archive, PutRow, disk, local, Index
<1>20. ASSUME NEW p \in Procs, ResetCounts(p)
       PROVE  Index'
  <2> DEFINE s == [k \in DOMAIN store |-> IF k = KeyOf[p] THEN ResetEntry(store[k]) ELSE store[k]]
  <2>1. CASE Loadable
    <3>1. \A k \in DOMAIN store : store[k] \in Entry
      BY StoresAre DEF Index
    <3>2. \A k \in DOMAIN store : ResetEntry(store[k]) \in Entry
      BY <3>1 DEF ResetEntry, Entry
    <3>3. IsStore(s)
      BY <3>1, <3>2 DEF Index, IsStore
    <3>4. snap' = [snap EXCEPT ![p] = s]
      BY <1>20, <2>1 DEF ResetCounts, Save
    <3> HIDE DEF s
    <3> QED BY <1>20, <1>0, <3>3, <3>4, IndexSaved DEF ResetCounts, disk
  <2>2. CASE ~Loadable
    BY <1>20, <2>2 DEF ResetCounts, disk, Index
  <2> QED BY <2>1, <2>2
<1>21. ASSUME NEW p \in Procs, ResetSession(p)
       PROVE  Index'
  BY <1>21 DEF ResetSession, PutRow, disk, local, Index
<1>22. ASSUME NEW p \in Procs, Newline(p)
       PROVE  Index'
  BY <1>22 DEF Newline, PutRow, disk, local, Index
<1>23. ASSUME NEW a \in Actors, Truncate(a)
       PROVE  Index'
  BY <1>23 DEF Truncate, Index
<1>24. ASSUME NEW a \in Actors, Write(a)
       PROVE  Index'
  BY <1>24 DEF Write, Index
<1>25. ASSUME NEW a \in Actors, Crash(a)
       PROVE  Index'
  BY <1>25 DEF Crash, PutRow, disk, local, Index
<1>26. ASSUME NEW k \in Keys, CreateSession(k)
       PROVE  Index'
  <2>1. IsStore(With(DesktopStore, k, NewEntry))
    BY StoresAre DEF DesktopStore, Index
  <2>2. snap' = [snap EXCEPT ![Desktop] = With(DesktopStore, k, NewEntry)]
    BY <1>26 DEF CreateSession, Save
  <2> QED BY <1>26, <1>0, <2>1, <2>2, IndexSaved DEF CreateSession, DesktopStarts, disk
<1>27. ASSUME NEW k \in Keys, RenameSession(k)
       PROVE  Index'
  <2>1. IsStore(DesktopStore) /\ IsStore(With(DesktopStore, k, Incomplete))
    BY StoresAre DEF DesktopStore, Index
  <2>2. UNCHANGED <<store, torn, cycle>>
    BY <1>27 DEF RenameSession, DesktopStarts, disk
  <2>3. CASE UNCHANGED snap
    BY <2>2, <2>3 DEF Index
  <2>4. CASE \E s \in {DesktopStore, With(DesktopStore, k, Incomplete)} :
               snap' = [snap EXCEPT ![Desktop] = s]
    BY <1>0, <2>1, <2>2, <2>4, IndexSaved
  <2> QED BY <1>27, <2>3, <2>4 DEF RenameSession, Save
<1>28. ASSUME NEW k \in Keys, DeleteSession(k)
       PROVE  Index'
  <2>1. IsStore(Without(DesktopStore, k))
    BY StoresAre DEF DesktopStore, Index
  <2>2. snap' = [snap EXCEPT ![Desktop] = Without(DesktopStore, k)]
    BY <1>28 DEF DeleteSession, Save
  <2> QED BY <1>28, <1>0, <2>1, <2>2, IndexSaved DEF DeleteSession, DesktopStarts, disk
<1>29. ASSUME UnlinkTranscripts
       PROVE  Index'
  BY <1>29 DEF UnlinkTranscripts, PutRow, disk, local, Index
<1>30. ASSUME NextDay
       PROVE  Index'
  BY <1>30 DEF NextDay, local, Index
<1>31. ASSUME Rest \/ UNCHANGED session
       PROVE  Index'
  BY <1>31 DEF Rest, session, disk, local, Index
<1> QED
  BY <1>1, <1>2, <1>3, <1>4, <1>5, <1>6, <1>7, <1>8, <1>9, <1>10, <1>11, <1>12, <1>13, <1>14, <1>15, <1>16, <1>17, <1>18, <1>19, <1>20, <1>21, <1>22, <1>23, <1>24, <1>25, <1>26, <1>27, <1>28, <1>29, <1>30, <1>31
  DEF SessionNext, Turn, Clear, DesktopStep

-----------------------------------------------------------------------------
(* ChatSession: histories and caches while said is n.                      *)

HistoryFor(h, n) == Rows(h) /\ DOMAIN h \subseteq Files \X (1..n)
ReadFor(c, n) ==
  /\ c = [offset |-> c.offset, rows |-> c.rows]
  /\ c.offset \in 0..(n - 1) /\ Rows(c.rows) /\ DOMAIN c.rows \subseteq 1..c.offset
CacheFor(c, n) ==
  /\ DOMAIN c \subseteq Files /\ c = [f \in DOMAIN c |-> c[f]]
  /\ \A f \in DOMAIN c : ReadFor(c[f], n)

Memory ==
  /\ history = [p \in Procs |-> history[p]] /\ cache = [p \in Procs |-> cache[p]]
  /\ \A p \in Procs : HistoryFor(history[p], said) /\ CacheFor(cache[p], said)

LEMMA FilesAreFinite == IsFiniteSet(Files)
<1>1. IsFiniteSet(1..MaxDay)
  <2>1. 1 \in Nat /\ MaxDay \in Nat
    BY SessionAssumption
  <2> QED BY <2>1, FS_Interval
<1> QED BY <1>1, SessionAssumption, FS_Product DEF Files

LEMMA HistoriesAreFinite ==
  ASSUME NEW n \in Nat, NEW h, HistoryFor(h, n)
  PROVE  /\ IsFiniteSet(DOMAIN h) /\ DOMAIN h \subseteq Spots /\ Size(h) \in Nat
         /\ Restrict(h, DOMAIN h) = h
<1>1. IsFiniteSet(Files \X (1..n))
  <2>1. IsFiniteSet(1..n)
    BY FS_Interval
  <2> QED BY <2>1, FilesAreFinite, FS_Product
<1>2. DOMAIN h \subseteq Files \X (1..n) /\ h = [x \in DOMAIN h |-> h[x]]
  BY DEF HistoryFor, Rows
<1>3. IsFiniteSet(DOMAIN h)
  BY <1>1, <1>2, FS_Subset
<1>4. DOMAIN h \subseteq Spots
  BY <1>2 DEF Spots
<1> QED BY <1>2, <1>3, <1>4, FS_CardinalityType DEF Size, Restrict

LEMMA MemoryGrows ==
  ASSUME NEW m \in Nat, NEW n \in Nat, m <= n
  PROVE  /\ \A h : HistoryFor(h, m) => HistoryFor(h, n)
         /\ \A c : CacheFor(c, m) => CacheFor(c, n)
<1>1. Files \X (1..m) \subseteq Files \X (1..n) /\ 0..(m - 1) \subseteq 0..(n - 1)
  OBVIOUS
<1> QED BY <1>1 DEF HistoryFor, CacheFor, ReadFor

\* Reading a file on.
LEMMA CatchUpReads ==
  ASSUME Logs, NEW f \in Files, NEW c, ReadFor(c, said)
  PROVE  /\ ReadFor(CatchUp(c, files[f]), said) /\ ReadFor(Rewound(c, files[f]), said)
         /\ CatchUp(c, files[f]).offset = Len(files[f])
         /\ \A i \in DOMAIN CatchUp(c, files[f]).rows :
              CatchUp(c, files[f]).rows[i] =
                IF i > Rewound(c, files[f]).offset THEN files[f][i]
                ELSE Rewound(c, files[f]).rows[i]
         /\ DOMAIN CatchUp(c, files[f]).rows =
              DOMAIN Rewound(c, files[f]).rows
                \cup ((Rewound(c, files[f]).offset + 1)..Len(files[f]))
<1> DEFINE log == files[f]
           b == Rewound(c, log)
           D == DOMAIN b.rows \cup ((b.offset + 1)..Len(log))
           r == [i \in D |-> IF i > b.offset THEN log[i] ELSE b.rows[i]]
<1>1. log \in Seq(Row) /\ Len(log) \in Nat /\ Len(log) < said /\ said \in Nat \ {0}
  BY DEF Logs
<1>2. ReadFor(Uncached, said)
  BY <1>1 DEF ReadFor, Uncached, Rows
<1>3. ReadFor(b, said) /\ b.offset <= Len(log)
  BY <1>1, <1>2 DEF Rewound, ReadFor, Uncached
<1>4. CatchUp(c, log) = [offset |-> Len(log), rows |-> r]
  BY DEF CatchUp
<1>5. b.offset \in Nat /\ DOMAIN b.rows \subseteq 1..b.offset /\ \A i \in DOMAIN b.rows : b.rows[i] \in Row
  BY <1>3 DEF ReadFor, Rows
<1> HIDE DEF b, log
<1>6. D \subseteq 1..Len(log)
  BY <1>1, <1>3, <1>5
<1>7. \A i \in D : r[i] \in Row
  <2> TAKE i \in D
  <2>1. CASE i > b.offset
    BY <2>1, <1>1, <1>6
  <2>2. CASE ~(i > b.offset)
    <3>1. i \in DOMAIN b.rows
      BY <2>2, <1>1, <1>5
    <3> QED BY <2>2, <3>1, <1>5
  <2> QED BY <2>1, <2>2
<1>8. Rows(r) /\ DOMAIN r = D
  <2>1. r \in [D -> Row]
    BY <1>7
  <2> HIDE DEF r, D
  <2> QED BY <2>1 DEF Rows
<1>9. ReadFor(CatchUp(c, log), said)
  <2> HIDE DEF r, D
  <2> QED BY <1>1, <1>4, <1>6, <1>8 DEF ReadFor
<1> QED BY <1>3, <1>4, <1>8, <1>9 DEF b, log

LEMMA OfFileReads ==
  ASSUME Logs, NEW c, CacheFor(c, said), NEW f
  PROVE  ReadFor(OfFile(c, f), said)
<1>1. ReadFor(Uncached, said)
  BY DEF ReadFor, Uncached, Rows, Logs
<1> QED BY <1>1 DEF OfFile, CacheFor

LEMMA CaughtUpReads ==
  ASSUME Logs, NEW k, NEW c, CacheFor(c, said), NEW bad
  PROVE  CacheFor(CaughtUp(k, c, bad), said) /\ DOMAIN CaughtUp(k, c, bad) = Listed(k)
<1> DEFINE d == CaughtUp(k, c, bad)
<1>1. Listed(k) \subseteq Files
  BY DEF Listed
<1>2. ASSUME NEW f \in Listed(k) PROVE ReadFor(d[f], said)
  <2>1. ReadFor(OfFile(c, f), said)
    BY OfFileReads
  <2>2. ReadFor(CatchUp(OfFile(c, f), files[f]), said)
        /\ ReadFor(Rewound(OfFile(c, f), files[f]), said)
    BY <1>1, <2>1, CatchUpReads
  <2> QED BY <2>1, <2>2 DEF CaughtUp
<1>3. d = [f \in Listed(k) |-> d[f]]
  BY DEF CaughtUp
<1> HIDE DEF d
<1>4. DOMAIN d = Listed(k)
  BY <1>3
<1> QED BY <1>1, <1>2, <1>3, <1>4 DEF CacheFor, d

\* The rows of a cache that holds all listed files.
LEMMA JoinedReads ==
  ASSUME Logs, NEW k, NEW c, CacheFor(c, said), DOMAIN c = Listed(k)
  PROVE  LET h == Joined(k, [f \in Listed(k) |-> c[f].rows])
         IN /\ HistoryFor(h, said)
            /\ \A x : x \in DOMAIN h <=> /\ x \in Spots /\ x[1] \in Listed(k)
                                         /\ x[2] \in DOMAIN c[x[1]].rows
            /\ \A x \in DOMAIN h : h[x] = c[x[1]].rows[x[2]]
<1> DEFINE r == [f \in Listed(k) |-> c[f].rows]
           D == UNION {{f} \X DOMAIN r[f] : f \in Listed(k)}
           h == Joined(k, r)
<1>1. DOMAIN h = D /\ h = [x \in D |-> r[x[1]][x[2]]]
  BY DEF Joined
<1>2. \A f \in Listed(k) : f \in Files /\ r[f] = c[f].rows /\ ReadFor(c[f], said)
  BY DEF Listed, CacheFor
<1>3. \A f \in Listed(k) : DOMAIN r[f] \subseteq 1..(said - 1)
  BY <1>2 DEF ReadFor, Logs
<1>4. \A f \in Listed(k) : \A i \in DOMAIN r[f] : r[f][i] \in Row
  BY <1>2 DEF ReadFor, Rows
<1>5. \A x \in D : x = <<x[1], x[2]>> /\ x[1] \in Listed(k) /\ x[2] \in DOMAIN r[x[1]]
  OBVIOUS
<1>6. \A x : x = <<x[1], x[2]>> /\ x[1] \in Listed(k) /\ x[2] \in DOMAIN r[x[1]] => x \in D
  OBVIOUS
<1>7. D \subseteq Files \X (1..said)
  <2> SUFFICES ASSUME NEW x \in D PROVE x \in Files \X (1..said)
    OBVIOUS
  <2>1. x = <<x[1], x[2]>> /\ x[1] \in Files /\ x[2] \in 1..(said - 1)
    BY <1>2, <1>3, <1>5
  <2> HIDE DEF D
  <2> QED BY <2>1 DEF Logs
<1>8. h \in [D -> Row]
  <2>1. \A x \in D : r[x[1]][x[2]] \in Row
    BY <1>4, <1>5
  <2> HIDE DEF D, r, h
  <2> QED BY <1>1, <2>1
<1>9. HistoryFor(h, said)
  <2> HIDE DEF D, h, r
  <2> QED BY <1>1, <1>7, <1>8 DEF HistoryFor, Rows
<1>10. \A x : x \in D <=> x \in Spots /\ x[1] \in Listed(k) /\ x[2] \in DOMAIN c[x[1]].rows
  <2>1. ASSUME NEW x \in D PROVE x \in Spots /\ x[1] \in Listed(k) /\ x[2] \in DOMAIN c[x[1]].rows
    <3>1. x = <<x[1], x[2]>> /\ x[1] \in Listed(k) /\ x[2] \in DOMAIN r[x[1]]
      BY <1>5
    <3>2. x[1] \in Files /\ x[2] \in Nat
      BY <3>1, <1>2, <1>3 DEF Logs
    <3> HIDE DEF D
    <3>3. x[2] \in DOMAIN c[x[1]].rows
      BY <3>1, <1>2
    <3> QED BY <3>1, <3>2, <3>3 DEF Spots
  <2>2. ASSUME NEW x \in Spots, x[1] \in Listed(k), x[2] \in DOMAIN c[x[1]].rows PROVE x \in D
    <3>1. x = <<x[1], x[2]>>
      BY DEF Spots
    <3>2. x[2] \in DOMAIN r[x[1]]
      BY <2>2, <1>2
    <3> QED BY <2>2, <3>1, <3>2, <1>6
  <2> QED BY <2>1, <2>2
<1>11. \A x \in D : h[x] = c[x[1]].rows[x[2]]
  <2> TAKE x \in D
  <2>1. x[1] \in Listed(k)
    BY <1>5
  <2>2. h[x] = r[x[1]][x[2]]
    BY <1>1
  <2> QED BY <2>1, <2>2, <1>2
<1> QED BY <1>1, <1>9, <1>10, <1>11

LEMMA VisibleReads ==
  ASSUME NEW n \in Nat, NEW k, NEW h, HistoryFor(h, n)
  PROVE  /\ Visible(k, h) = Restrict(h, Seen(k, h, DOMAIN h))
         /\ HistoryFor(Visible(k, h), n)
         /\ DOMAIN Visible(k, h) = Seen(k, h, DOMAIN h)
         /\ Seen(k, h, DOMAIN h) \subseteq DOMAIN h
<1>1. IsFiniteSet(DOMAIN h) /\ DOMAIN h \subseteq Spots /\ Restrict(h, DOMAIN h) = h
  BY HistoriesAreFinite
<1>2. Visible(k, h) = Restrict(h, Seen(k, h, DOMAIN h))
  BY <1>1, VisibleIsSeen
<1>3. Seen(k, h, DOMAIN h) \subseteq DOMAIN h
  BY DEF Seen
<1>4. \A S \in SUBSET (DOMAIN h) : HistoryFor(Restrict(h, S), n) /\ DOMAIN Restrict(h, S) = S
  BY DEF HistoryFor, Rows, Restrict
<1> QED BY <1>2, <1>3, <1>4

\* A compaction keeps the recent rows and puts its summary in the place of the
\* newest other one.
Recent(k, h) == {x \in DOMAIN h : Cardinality(Newer(k, h, x)) < KeepRecent}

Replaces(k, h, g, seam) ==
  /\ seam \in DOMAIN h \ Recent(k, h)
  /\ \A x \in DOMAIN h \ Recent(k, h) : ~Earlier(k, seam, x)
  /\ DOMAIN g = Recent(k, h) \cup {seam}
  /\ \A x \in Recent(k, h) : g[x] = h[x]
  /\ g[seam].kind = "compaction"

LEMMA CompactedReads ==
  ASSUME Logs, NEW k, NEW h, HistoryFor(h, said), Size(h) > KeepRecent
  PROVE  /\ HistoryFor(Compacted(k, h), said)
         /\ \E seam : Replaces(k, h, Compacted(k, h), seam)
<1> DEFINE R == Recent(k, h)
           O == DOMAIN h \ R
           seam == CHOOSE x \in O : \A y \in O : ~Earlier(k, x, y)
           row == [kind |-> "compaction", id |-> said, glued |-> FALSE]
           g == [x \in R \cup {seam} |-> IF x = seam THEN row ELSE h[x]]
<1>1. IsFiniteSet(DOMAIN h) /\ DOMAIN h \subseteq Spots /\ said \in Nat
  BY HistoriesAreFinite DEF Logs
<1>2. R \subseteq DOMAIN h
  BY DEF Recent
<1>3. O # {}
  <2>1. SUFFICES ASSUME O = {} PROVE FALSE
    OBVIOUS
  <2>2. Size(h) \in Nat /\ KeepRecent \in Nat /\ DOMAIN h # {}
    BY <1>1, HistoriesAreFinite, SessionAssumption, FS_EmptySet DEF Size
  <2>3. PICK m \in DOMAIN h : \A y \in DOMAIN h : y = m \/ Earlier(k, m, y)
    BY <1>1, <2>2, EarliestExists
  <2>4. DOMAIN h \ {m} \subseteq Newer(k, h, m) /\ IsFiniteSet(Newer(k, h, m))
    BY <2>3, <1>1, FS_Subset DEF Newer
  <2>5. Cardinality(DOMAIN h \ {m}) = Size(h) - 1
    BY <1>1, FS_RemoveElement DEF Size
  <2>6. Cardinality(DOMAIN h \ {m}) <= Cardinality(Newer(k, h, m))
    BY <2>4, FS_Subset
  <2>7. Cardinality(Newer(k, h, m)) < KeepRecent
    BY <2>1 DEF Recent
  <2>8. Cardinality(Newer(k, h, m)) \in Nat
    BY <2>4, FS_CardinalityType
  <2> HIDE DEF O, R
  <2> QED BY <2>2, <2>5, <2>6, <2>7, <2>8
<1>4. O \subseteq Spots /\ IsFiniteSet(O)
  BY <1>1, FS_Difference
<1>5. \E x \in O : \A y \in O : ~Earlier(k, x, y)
  <2> HIDE DEF O
  <2> QED BY <1>3, <1>4, LatestExists
<1>6. seam \in O /\ \A y \in O : ~Earlier(k, seam, y)
  <2> HIDE DEF O
  <2> QED BY <1>5
<1>7. Compacted(k, h) = g
  BY DEF Compacted, Recent
<1>8. row \in Row /\ row.kind = "compaction"
  BY DEF Row, Logs
<1>9. R \cup {seam} \subseteq DOMAIN h
  BY <1>2, <1>6
<1>10. DOMAIN g = R \cup {seam} /\ g[seam] = row /\ \A x \in R : g[x] = h[x]
  <2>1. seam \notin R
    BY <1>6
  <2> HIDE DEF R, seam, row
  <2> QED BY <2>1
<1>11. HistoryFor(g, said)
  <2>1. g \in [R \cup {seam} -> Row]
    <3>1. \A x \in DOMAIN h : h[x] \in Row
      BY DEF HistoryFor, Rows
    <3> HIDE DEF R, seam, row
    <3> QED BY <3>1, <1>8, <1>9
  <2> HIDE DEF R, seam, row, g
  <2> QED BY <2>1, <1>9, <1>10 DEF HistoryFor, Rows
<1> HIDE DEF seam, g, row
<1>12. Replaces(k, h, g, seam)
  BY <1>6, <1>8, <1>10 DEF Replaces
<1> QED BY <1>7, <1>11, <1>12

LEMMA LastFileIsLast ==
  ASSUME NEW k
  PROVE  LastFile(k) \in Files /\ \A g \in Files : ~Before(k, LastFile(k), g)
<1> DEFINE S == Files \X {1}
<1>1. S \subseteq Spots /\ IsFiniteSet(S)
  <2>1. IsFiniteSet({1})
    BY FS_Singleton
  <2>2. IsFiniteSet(S)
    BY <2>1, FilesAreFinite, FS_Product
  <2>3. S \subseteq Spots
    BY DEF Spots
  <2> QED BY <2>2, <2>3
<1>2. S # {}
  <2>1. <<Default, 1>> \in Files
    BY SessionAssumption DEF Files
  <2>2. << <<Default, 1>>, 1 >> \in S
    BY <2>1
  <2> QED BY <2>2
<1>3. PICK m \in S : \A y \in S : ~Earlier(k, m, y)
  <2> HIDE DEF S
  <2> QED BY <1>1, <1>2, LatestExists
<1>4. PICK f \in Files : m = <<f, 1>>
  OBVIOUS
<1>5. ASSUME NEW g \in Files PROVE ~Before(k, f, g)
  <2>1. ~Earlier(k, <<f, 1>>, <<g, 1>>)
    BY <1>3, <1>4
  <2>2. CASE f = g
    BY <2>2, BeforeOrders
  <2>3. CASE f # g
    BY <2>1, <2>3 DEF Earlier
  <2> QED BY <2>2, <2>3
<1> QED BY <1>5 DEF LastFile

\* The memory context comes behind all rows.
LEMMA ContextReads ==
  ASSUME Logs, NEW k \in Keys, NEW h, HistoryFor(h, said)
  PROVE  LET end == <<LastFile(k), said>>
         IN /\ HistoryFor(WithContext(k, h), said)
            /\ DOMAIN WithContext(k, h) = DOMAIN h \cup {end}
            /\ WithContext(k, h)[end].kind = "context"
            /\ \A x \in DOMAIN h \ {end} : WithContext(k, h)[x] = h[x]
            /\ end \in Spots
            /\ \A x \in DOMAIN h : ~Earlier(k, end, x)
<1> DEFINE end == <<LastFile(k), said>>
           row == [kind |-> "context", id |-> 0, glued |-> FALSE]
           g == WithContext(k, h)
<1>1. g = [x \in DOMAIN h \cup {end} |-> IF x = end THEN row ELSE h[x]]
  BY DEF WithContext
<1>2. row \in Row /\ row.kind = "context"
  BY DEF Row
<1>3. end \in Files \X (1..said) /\ end[1] = LastFile(k) /\ end[2] = said /\ said \in Nat
  BY LastFileIsLast DEF Logs
<1>4. ASSUME NEW x \in DOMAIN h PROVE ~Earlier(k, end, x)
  <2>1. x[1] \in Files /\ x[2] <= said /\ x[2] \in Nat
    BY DEF HistoryFor, Logs
  <2>2. ~Before(k, end[1], x[1])
    BY <1>3, <2>1, LastFileIsLast
  <2> HIDE DEF end
  <2> QED BY <1>3, <2>1, <2>2 DEF Earlier
<1>5. \A x \in DOMAIN h : h[x] \in Row
  BY DEF HistoryFor, Rows
<1>6. end \in Spots
  BY <1>3 DEF Spots
<1> HIDE DEF row, end, g
<1>7. g \in [DOMAIN h \cup {end} -> Row]
  BY <1>1, <1>2, <1>5
<1>8. HistoryFor(g, said)
  BY <1>1, <1>3, <1>7 DEF HistoryFor, Rows
<1> QED BY <1>1, <1>2, <1>4, <1>6, <1>8 DEF end, g

\* What a process has read, if it could read everything.
ReadOn(p) == CaughtUp(KeyOf[p], cache[p], {})
AllRows(p) == Joined(KeyOf[p], [f \in Listed(KeyOf[p]) |-> ReadOn(p)[f].rows])
NowSeen(p) == Seen(KeyOf[p], AllRows(p), DOMAIN AllRows(p))

LEMMA ReadOnReads ==
  ASSUME Logs, Memory, NEW p \in Procs
  PROVE  /\ CacheFor(ReadOn(p), said) /\ DOMAIN ReadOn(p) = Listed(KeyOf[p])
         /\ HistoryFor(AllRows(p), said)
         /\ \A x : x \in DOMAIN AllRows(p) <=>
                     /\ x \in Spots /\ x[1] \in Listed(KeyOf[p])
                     /\ x[2] \in DOMAIN ReadOn(p)[x[1]].rows
         /\ \A x \in DOMAIN AllRows(p) : AllRows(p)[x] = ReadOn(p)[x[1]].rows[x[2]]
<1>1. CacheFor(cache[p], said)
  BY DEF Memory
<1>2. CacheFor(ReadOn(p), said) /\ DOMAIN ReadOn(p) = Listed(KeyOf[p])
  BY <1>1, CaughtUpReads DEF ReadOn
<1> QED BY <1>2, JoinedReads DEF AllRows

LEMMA ReadingReads ==
  ASSUME Logs, Memory, NEW p \in Procs, ReadHistory(p)
  PROVE  \/ /\ UNCHANGED history /\ Goto(p, AfterFailedRead(op[p]))
            /\ \E bad \in SUBSET Listed(KeyOf[p]) :
                 cache' = [cache EXCEPT ![p] = CaughtUp(KeyOf[p], cache[p], bad)]
         \/ /\ history' = [history EXCEPT ![p] = Restrict(AllRows(p), NowSeen(p))]
            /\ cache' = [cache EXCEPT ![p] = [f \in Listed(KeyOf[p]) |->
                 [offset |-> ReadOn(p)[f].offset,
                  rows |-> Restrict(ReadOn(p)[f].rows,
                             {i \in DOMAIN ReadOn(p)[f].rows : <<f, i>> \in NowSeen(p)})]]]
            /\ Goto(p, AfterRead(op[p]))
<1> DEFINE k == KeyOf[p]
           bad == Broken(k, cache[p])
           rows == Visible(k, AllRows(p))
<1>1. CASE bad # {}
  <2>1. UNCHANGED history /\ Goto(p, AfterFailedRead(op[p]))
        /\ cache' = [cache EXCEPT ![p] = CaughtUp(k, cache[p], bad)]
    BY <1>1 DEF ReadHistory
  <2>2. bad \in SUBSET Listed(k)
    BY DEF Broken
  <2> HIDE DEF bad
  <2> QED BY <2>1, <2>2
<1>2. CASE bad = {}
  <2>1. /\ history' = [history EXCEPT ![p] = rows]
        /\ cache' = [cache EXCEPT ![p] = [f \in Listed(k) |->
             [ReadOn(p)[f] EXCEPT !.rows = Restrict(@,
                {i \in DOMAIN ReadOn(p)[f].rows : <<f, i>> \in DOMAIN rows})]]]
        /\ Goto(p, AfterRead(op[p]))
    <3> DEFINE now == CaughtUp(k, cache[p], bad)
               seen == Visible(k, Joined(k, [f \in Listed(k) |-> now[f].rows]))
    <3>1. /\ history' = [history EXCEPT ![p] = seen]
          /\ cache' = [cache EXCEPT ![p] = [f \in Listed(k) |->
               [now[f] EXCEPT !.rows = Restrict(@,
                  {i \in DOMAIN now[f].rows : <<f, i>> \in DOMAIN seen})]]]
          /\ Goto(p, AfterRead(op[p]))
      BY <1>2 DEF ReadHistory, HistoryFrom
    <3>2. now = ReadOn(p)
      BY <1>2 DEF ReadOn
    <3>3. seen = rows
      <4> HIDE DEF now
      <4> QED BY <3>2 DEF AllRows
    <3> HIDE DEF now, seen, rows, bad
    <3> QED BY <3>1, <3>2, <3>3
  <2>2. HistoryFor(AllRows(p), said) /\ CacheFor(ReadOn(p), said) /\ said \in Nat
        /\ DOMAIN ReadOn(p) = Listed(k)
    BY ReadOnReads DEF Logs
  <2>3. rows = Restrict(AllRows(p), NowSeen(p)) /\ DOMAIN rows = NowSeen(p)
    BY <2>2, VisibleReads DEF NowSeen
  <2>4. \A f \in Listed(k) :
          [ReadOn(p)[f] EXCEPT !.rows = Restrict(@,
             {i \in DOMAIN ReadOn(p)[f].rows : <<f, i>> \in DOMAIN rows})]
          = [offset |-> ReadOn(p)[f].offset,
             rows |-> Restrict(ReadOn(p)[f].rows,
                        {i \in DOMAIN ReadOn(p)[f].rows : <<f, i>> \in NowSeen(p)})]
    <3> TAKE f \in Listed(k)
    <3>1. ReadOn(p)[f] = [offset |-> ReadOn(p)[f].offset, rows |-> ReadOn(p)[f].rows]
      BY <2>2 DEF CacheFor, ReadFor
    <3> HIDE DEF rows
    <3> QED BY <2>3, <3>1
  <2> HIDE DEF rows
  <2> QED BY <2>1, <2>3, <2>4
<1> QED BY <1>1, <1>2

LEMMA MemoryStart == SessionInit => Memory
BY DEF SessionInit, Memory, HistoryFor, Rows, CacheFor, EmptyCache

\* A process forgets or keeps what it cached.
LEMMA MemoryKept ==
  ASSUME Memory, Logs, said' \in {said, said + 1}, NEW p \in Procs,
         \/ UNCHANGED history
         \/ \E h : HistoryFor(h, said) /\ history' = [history EXCEPT ![p] = h],
         \/ UNCHANGED cache
         \/ \E c : CacheFor(c, said) /\ cache' = [cache EXCEPT ![p] = c]
  PROVE  Memory'
<1>1. said \in Nat /\ said' \in Nat /\ said <= said'
  BY DEF Logs
<1>2. /\ history' = [q \in Procs |-> history'[q]] /\ cache' = [q \in Procs |-> cache'[q]]
      /\ \A q \in Procs : HistoryFor(history'[q], said) /\ CacheFor(cache'[q], said)
  BY DEF Memory
<1>3. \A q \in Procs : HistoryFor(history'[q], said') /\ CacheFor(cache'[q], said')
  BY <1>1, <1>2, MemoryGrows
<1> QED BY <1>2, <1>3 DEF Memory

LEMMA MemoryStep ==
  ASSUME Memory, Logs, SessionNext \/ UNCHANGED session
  PROVE  Memory'
<1>0. /\ \A p \in Procs : KeyOf[p] \in Keys
      /\ CacheFor(EmptyCache, said) /\ HistoryFor(<<>>, said)
  BY SessionAssumption DEF CacheFor, EmptyCache, HistoryFor, Rows
<1>1. ASSUME NEW p \in Procs, NEW o \in SessionOps, Start(p, o)
      PROVE  Memory'
  BY <1>1, <1>0, MemoryKept DEF Start
<1>2. ASSUME NEW p \in Procs, EnsureSession(p)
      PROVE  Memory'
  BY <1>2, MemoryKept DEF EnsureSession, PutRow
<1>3. ASSUME NEW p \in Procs, EnsureHeader(p)
      PROVE  Memory'
  BY <1>3, MemoryKept DEF EnsureHeader, PutRow
<1>4. ASSUME NEW p \in Procs, ReadHistory(p)
      PROVE  Memory'
  <2>1. CacheFor(cache[p], said) /\ said \in Nat
    BY DEF Memory, Logs
  <2>2. CASE /\ UNCHANGED history
             /\ \E bad \in SUBSET Listed(KeyOf[p]) :
                  cache' = [cache EXCEPT ![p] = CaughtUp(KeyOf[p], cache[p], bad)]
    <3>1. PICK bad : cache' = [cache EXCEPT ![p] = CaughtUp(KeyOf[p], cache[p], bad)]
      BY <2>2
    <3>2. CacheFor(CaughtUp(KeyOf[p], cache[p], bad), said)
      BY <2>1, CaughtUpReads
    <3> QED BY <1>4, <2>2, <3>1, <3>2, MemoryKept DEF ReadHistory
  <2>3. CASE /\ history' = [history EXCEPT ![p] = Restrict(AllRows(p), NowSeen(p))]
             /\ cache' = [cache EXCEPT ![p] = [f \in Listed(KeyOf[p]) |->
                  [offset |-> ReadOn(p)[f].offset,
                   rows |-> Restrict(ReadOn(p)[f].rows,
                              {i \in DOMAIN ReadOn(p)[f].rows : <<f, i>> \in NowSeen(p)})]]]
    <3> DEFINE kept(f) == {i \in DOMAIN ReadOn(p)[f].rows : <<f, i>> \in NowSeen(p)}
               c == [f \in Listed(KeyOf[p]) |->
                       [offset |-> ReadOn(p)[f].offset,
                        rows |-> Restrict(ReadOn(p)[f].rows, kept(f))]]
    <3>1. HistoryFor(AllRows(p), said) /\ CacheFor(ReadOn(p), said)
          /\ DOMAIN ReadOn(p) = Listed(KeyOf[p])
      BY ReadOnReads
    <3>2. HistoryFor(Restrict(AllRows(p), NowSeen(p)), said)
      BY <2>1, <3>1, VisibleReads DEF NowSeen
    <3>3. ASSUME NEW f \in Listed(KeyOf[p]) PROVE ReadFor(c[f], said)
      <4>1. ReadFor(ReadOn(p)[f], said) /\ f \in Files
        BY <3>1 DEF CacheFor
      <4>2. \A S \in SUBSET DOMAIN ReadOn(p)[f].rows :
              Rows(Restrict(ReadOn(p)[f].rows, S)) /\ DOMAIN Restrict(ReadOn(p)[f].rows, S) = S
        BY <4>1 DEF ReadFor, Rows, Restrict
      <4>3. kept(f) \in SUBSET DOMAIN ReadOn(p)[f].rows
        OBVIOUS
      <4> HIDE DEF kept
      <4> QED BY <4>1, <4>2, <4>3 DEF ReadFor
    <3>4. CacheFor(c, said)
      <4>1. c = [f \in Listed(KeyOf[p]) |-> c[f]]
        OBVIOUS
      <4> HIDE DEF c
      <4> QED BY <3>3, <4>1 DEF CacheFor, Listed
    <3> HIDE DEF c
    <3>5. cache' = [cache EXCEPT ![p] = c]
      BY <2>3 DEF c
    <3> QED BY <1>4, <2>3, <3>2, <3>4, <3>5, MemoryKept DEF ReadHistory
  <2> QED BY <1>4, <2>2, <2>3, ReadingReads
<1>5. ASSUME NEW p \in Procs, EarlyFlush(p)
      PROVE  Memory'
  BY <1>5, MemoryKept DEF EarlyFlush, PutRow
<1>6. ASSUME NEW p \in Procs, Check(p)
      PROVE  Memory'
  BY <1>6, MemoryKept DEF Check, PutRow
<1>7. ASSUME NEW p \in Procs, NEW ok \in BOOLEAN, FlushTurn(p, ok)
      PROVE  Memory'
  BY <1>7, MemoryKept DEF FlushTurn, PutRow
<1>8. ASSUME NEW p \in Procs, MarkFlushed(p)
      PROVE  Memory'
  BY <1>8, MemoryKept DEF MarkFlushed, PutRow
<1>9. ASSUME NEW p \in Procs, KeepAll(p)
      PROVE  Memory'
  BY <1>9, MemoryKept DEF KeepAll, PutRow
<1>10. ASSUME NEW p \in Procs, Summarise(p)
       PROVE  Memory'
  <2>1. HistoryFor(Compacted(KeyOf[p], history[p]), said)
    BY <1>10, CompactedReads DEF Summarise, Memory
  <2> QED BY <1>10, <2>1, MemoryKept DEF Summarise, PutRow
<1>11. ASSUME NEW p \in Procs, CountCompaction(p)
       PROVE  Memory'
  BY <1>11, MemoryKept DEF CountCompaction, PutRow
<1>12. ASSUME NEW p \in Procs, NEW remembers \in BOOLEAN, NEW over \in BOOLEAN,
              Budget(p, remembers, over)
       PROVE  Memory'
  <2> DEFINE h == IF remembers THEN WithContext(KeyOf[p], history[p]) ELSE history[p]
  <2>1. HistoryFor(h, said)
    BY <1>0, ContextReads DEF Memory
  <2>2. history' = [history EXCEPT ![p] = h] /\ UNCHANGED cache /\ said' = said
    BY <1>12 DEF Budget
  <2> HIDE DEF h
  <2> QED BY <2>1, <2>2, MemoryKept
<1>13. ASSUME NEW p \in Procs, AppendUser(p)
       PROVE  Memory'
  BY <1>13, MemoryKept DEF AppendUser, PutRow
<1>14. ASSUME NEW p \in Procs, AgentLoopFails(p)
       PROVE  Memory'
  BY <1>14, MemoryKept DEF AgentLoopFails, PutRow
<1>15. ASSUME NEW p \in Procs, AppendAssistant(p)
       PROVE  Memory'
  BY <1>15, MemoryKept DEF AppendAssistant, PutRow
<1>16. ASSUME NEW p \in Procs, RememberNothing(p)
       PROVE  Memory'
  BY <1>16, MemoryKept DEF RememberNothing, PutRow
<1>17. ASSUME NEW p \in Procs, Remember(p)
       PROVE  Memory'
  BY <1>17, MemoryKept DEF Remember, PutRow
<1>18. ASSUME NEW p \in Procs, ListFiles(p)
       PROVE  Memory'
  BY <1>18, MemoryKept DEF ListFiles, PutRow
<1>19. ASSUME NEW p \in Procs, Archive(p)
       PROVE  Memory'
  BY <1>19, MemoryKept DEF Archive, PutRow
<1>20. ASSUME NEW p \in Procs, ResetCounts(p)
       PROVE  Memory'
  BY <1>20, MemoryKept DEF ResetCounts, PutRow
<1>21. ASSUME NEW p \in Procs, ResetSession(p)
       PROVE  Memory'
  BY <1>21, <1>0, MemoryKept DEF ResetSession
<1>22. ASSUME NEW p \in Procs, Newline(p)
       PROVE  Memory'
  BY <1>22, MemoryKept DEF Newline, PutRow
<1>23. ASSUME NEW a \in Actors, Truncate(a)
       PROVE  Memory'
  BY <1>23 DEF Truncate, DesktopStarts, Memory
<1>24. ASSUME NEW a \in Actors, Write(a)
       PROVE  Memory'
  BY <1>24 DEF Write, DesktopStarts, Memory
<1>25. ASSUME NEW a \in Actors, Crash(a)
       PROVE  Memory'
  <2>1. \A p \in Procs : CacheFor(cache'[p], said) /\ HistoryFor(history[p], said)
    BY <1>0, <1>25 DEF Crash, Memory
  <2> QED BY <1>25, <2>1 DEF Crash, Memory
<1>26. ASSUME NEW k \in Keys, CreateSession(k)
       PROVE  Memory'
  BY <1>26 DEF CreateSession, DesktopStarts, Memory
<1>27. ASSUME NEW k \in Keys, RenameSession(k)
       PROVE  Memory'
  BY <1>27 DEF RenameSession, DesktopStarts, Memory
<1>28. ASSUME NEW k \in Keys, DeleteSession(k)
       PROVE  Memory'
  BY <1>28 DEF DeleteSession, DesktopStarts, Memory
<1>29. ASSUME UnlinkTranscripts
       PROVE  Memory'
  BY <1>29 DEF UnlinkTranscripts, DesktopStarts, Memory
<1>30. ASSUME NextDay
       PROVE  Memory'
  BY <1>30 DEF NextDay, local, Memory
<1>31. ASSUME Rest \/ UNCHANGED session
       PROVE  Memory'
  BY <1>31 DEF Rest, session, local, Memory
<1> QED
  BY <1>1, <1>2, <1>3, <1>4, <1>5, <1>6, <1>7, <1>8, <1>9, <1>10, <1>11, <1>12, <1>13, <1>14, <1>15, <1>16, <1>17, <1>18, <1>19, <1>20, <1>21, <1>22, <1>23, <1>24, <1>25, <1>26, <1>27, <1>28, <1>29, <1>30, <1>31
  DEF SessionNext, Turn, Clear, DesktopStep

Tallies ==
  /\ open \in [Procs -> BOOLEAN] /\ todo \in [Procs -> SUBSET Files] /\ subject \in Keys
  /\ ops \in 0..MaxOps /\ crashes \in 0..MaxCrashes
  /\ flushes \in [Keys -> 0..2] /\ cleared \in [Keys -> Nat]

LEMMA TalliesStart == SessionInit => Tallies
BY SessionAssumption DEF SessionInit, Tallies

LEMMA TalliesStep ==
  ASSUME Tallies, Logs, SessionNext \/ UNCHANGED session
  PROVE  Tallies'
<1>0. /\ \A p \in Procs : KeyOf[p] \in Keys /\ Listed(KeyOf[p]) \subseteq Files
      /\ said \in Nat /\ MaxOps \in Nat /\ MaxCrashes \in Nat /\ ops \in Nat /\ crashes \in Nat
  BY SessionAssumption DEF Listed, Logs, Tallies
<1>1. ASSUME NEW p \in Procs, NEW o \in SessionOps, Start(p, o)
      PROVE  Tallies'
  BY <1>1, <1>0 DEF Start, DesktopStarts, disk, local, observed, Tallies
<1>2. ASSUME NEW p \in Procs, EnsureSession(p)
      PROVE  Tallies'
  BY <1>2, <1>0 DEF EnsureSession, DesktopStarts, disk, local, observed, Tallies
<1>3. ASSUME NEW p \in Procs, EnsureHeader(p)
      PROVE  Tallies'
  BY <1>3, <1>0 DEF EnsureHeader, DesktopStarts, disk, local, observed, Tallies
<1>4. ASSUME NEW p \in Procs, ReadHistory(p)
      PROVE  Tallies'
  BY <1>4, <1>0 DEF ReadHistory, DesktopStarts, disk, local, observed, Tallies
<1>5. ASSUME NEW p \in Procs, EarlyFlush(p)
      PROVE  Tallies'
  BY <1>5, <1>0 DEF EarlyFlush, DesktopStarts, disk, local, observed, Tallies
<1>6. ASSUME NEW p \in Procs, Check(p)
      PROVE  Tallies'
  BY <1>6, <1>0 DEF Check, DesktopStarts, disk, local, observed, Tallies
<1>7. ASSUME NEW p \in Procs, NEW ok \in BOOLEAN, FlushTurn(p, ok)
      PROVE  Tallies'
  <2> DEFINE n == IF ok /\ flushes[KeyOf[p]] < 2 THEN flushes[KeyOf[p]] + 1 ELSE flushes[KeyOf[p]]
  <2>1. n \in 0..2
    BY <1>0 DEF Tallies
  <2>2. flushes' = [flushes EXCEPT ![KeyOf[p]] = n]
    BY <1>7 DEF FlushTurn
  <2>3. UNCHANGED <<open, todo, subject, ops, crashes, cleared>>
    BY <1>7 DEF FlushTurn
  <2> HIDE DEF n
  <2> QED BY <1>0, <2>1, <2>2, <2>3 DEF Tallies
<1>8. ASSUME NEW p \in Procs, MarkFlushed(p)
      PROVE  Tallies'
  BY <1>8, <1>0 DEF MarkFlushed, DesktopStarts, disk, local, observed, Tallies
<1>9. ASSUME NEW p \in Procs, KeepAll(p)
      PROVE  Tallies'
  BY <1>9, <1>0 DEF KeepAll, DesktopStarts, disk, local, observed, Tallies
<1>10. ASSUME NEW p \in Procs, Summarise(p)
       PROVE  Tallies'
  BY <1>10, <1>0 DEF Summarise, DesktopStarts, disk, local, observed, Tallies
<1>11. ASSUME NEW p \in Procs, CountCompaction(p)
       PROVE  Tallies'
  BY <1>11, <1>0 DEF CountCompaction, DesktopStarts, disk, local, observed, Tallies
<1>12. ASSUME NEW p \in Procs, NEW remembers \in BOOLEAN, NEW over \in BOOLEAN,
              Budget(p, remembers, over)
       PROVE  Tallies'
  BY <1>12, <1>0 DEF Budget, DesktopStarts, disk, local, observed, Tallies
<1>13. ASSUME NEW p \in Procs, AppendUser(p)
       PROVE  Tallies'
  BY <1>13, <1>0 DEF AppendUser, DesktopStarts, disk, local, observed, Tallies
<1>14. ASSUME NEW p \in Procs, AgentLoopFails(p)
       PROVE  Tallies'
  BY <1>14, <1>0 DEF AgentLoopFails, DesktopStarts, disk, local, observed, Tallies
<1>15. ASSUME NEW p \in Procs, AppendAssistant(p)
       PROVE  Tallies'
  BY <1>15, <1>0 DEF AppendAssistant, DesktopStarts, disk, local, observed, Tallies
<1>16. ASSUME NEW p \in Procs, RememberNothing(p)
       PROVE  Tallies'
  BY <1>16, <1>0 DEF RememberNothing, DesktopStarts, disk, local, observed, Tallies
<1>17. ASSUME NEW p \in Procs, Remember(p)
       PROVE  Tallies'
  BY <1>17, <1>0 DEF Remember, DesktopStarts, disk, local, observed, Tallies
<1>18. ASSUME NEW p \in Procs, ListFiles(p)
       PROVE  Tallies'
  BY <1>18, <1>0 DEF ListFiles, DesktopStarts, disk, local, observed, Tallies
<1>19. ASSUME NEW p \in Procs, Archive(p)
       PROVE  Tallies'
  BY <1>19, <1>0 DEF Archive, DesktopStarts, disk, local, observed, Tallies
<1>20. ASSUME NEW p \in Procs, ResetCounts(p)
       PROVE  Tallies'
  BY <1>20, <1>0 DEF ResetCounts, DesktopStarts, disk, local, observed, Tallies
<1>21. ASSUME NEW p \in Procs, ResetSession(p)
       PROVE  Tallies'
  BY <1>21, <1>0 DEF ResetSession, DesktopStarts, disk, local, observed, Tallies
<1>22. ASSUME NEW p \in Procs, Newline(p)
       PROVE  Tallies'
  BY <1>22, <1>0 DEF Newline, DesktopStarts, disk, local, observed, Tallies
<1>23. ASSUME NEW a \in Actors, Truncate(a)
       PROVE  Tallies'
  BY <1>23, <1>0 DEF Truncate, DesktopStarts, disk, local, observed, Tallies
<1>24. ASSUME NEW a \in Actors, Write(a)
       PROVE  Tallies'
  BY <1>24, <1>0 DEF Write, DesktopStarts, disk, local, observed, Tallies
<1>25. ASSUME NEW a \in Actors, Crash(a)
       PROVE  Tallies'
  BY <1>25, <1>0 DEF Crash, DesktopStarts, disk, local, observed, Tallies
<1>26. ASSUME NEW k \in Keys, CreateSession(k)
       PROVE  Tallies'
  BY <1>26, <1>0 DEF CreateSession, DesktopStarts, disk, local, observed, Tallies
<1>27. ASSUME NEW k \in Keys, RenameSession(k)
       PROVE  Tallies'
  BY <1>27, <1>0 DEF RenameSession, DesktopStarts, disk, local, observed, Tallies
<1>28. ASSUME NEW k \in Keys, DeleteSession(k)
       PROVE  Tallies'
  BY <1>28, <1>0 DEF DeleteSession, DesktopStarts, disk, local, observed, Tallies
<1>29. ASSUME UnlinkTranscripts
       PROVE  Tallies'
  BY <1>29, <1>0 DEF UnlinkTranscripts, DesktopStarts, disk, local, observed, Tallies
<1>30. ASSUME NextDay
       PROVE  Tallies'
  BY <1>30 DEF NextDay, local, observed, Tallies
<1>31. ASSUME Rest \/ UNCHANGED session
       PROVE  Tallies'
  BY <1>31 DEF Rest, session, disk, local, observed, Tallies
<1> QED
  BY <1>1, <1>2, <1>3, <1>4, <1>5, <1>6, <1>7, <1>8, <1>9, <1>10, <1>11, <1>12, <1>13, <1>14, <1>15, <1>16, <1>17, <1>18, <1>19, <1>20, <1>21, <1>22, <1>23, <1>24, <1>25, <1>26, <1>27, <1>28, <1>29, <1>30, <1>31
  DEF SessionNext, Turn, Clear, DesktopStep

\* The types, with the route of every process, are inductive.
SessionTypes == Routes /\ Logs /\ Index /\ Memory /\ Tallies

LEMMA TypesStart == SessionInit => SessionTypes
<1> SUFFICES ASSUME SessionInit PROVE SessionTypes
  OBVIOUS
<1>1. Index
  BY StoresAre DEF SessionInit, Index
<1> QED BY <1>1, RoutesStart, LogsStart, MemoryStart, TalliesStart DEF SessionTypes

LEMMA TypesStep ==
  ASSUME SessionTypes, SessionNext \/ UNCHANGED session
  PROVE  SessionTypes'
BY RoutesStep, LogsStep, IndexStep, MemoryStep, TalliesStep DEF SessionTypes, Tallies

LEMMA TypesImply == SessionTypes => SessionTypeOK
<1> SUFFICES ASSUME SessionTypes PROVE SessionTypeOK
  OBVIOUS
<1>1. /\ pc \in [Actors -> Points] /\ then \in [Actors -> Points]
      /\ op \in [Actors -> {"turn", "compact", "clear", "clear_full", "create",
                            "rename", "delete"}]
      /\ stage \in [Procs -> {"early", "compact", "budget"}]
  BY DEF SessionTypes, Routes, Route, DesktopRoute, Actors, Points
<1>2. \A p \in Procs : HistoryFor(history[p], said) /\ CacheFor(cache[p], said)
  BY DEF SessionTypes, Memory
<1>3. \A p \in Procs :
       /\ Rows(history[p]) /\ DOMAIN history[p] \subseteq Places
       /\ DOMAIN cache[p] \subseteq Files
       /\ cache[p] = [f \in DOMAIN cache[p] |-> cache[p][f]]
       /\ \A f \in DOMAIN cache[p] : Cached(cache[p][f])
  BY <1>2 DEF HistoryFor, CacheFor, ReadFor, Places, Cached
<1> QED BY <1>1, <1>3 DEF SessionTypes, SessionTypeOK, Logs, Index, Memory, Tallies

\* Every variable keeps its type, for any processes, keys, days and thresholds.
THEOREM SessionTypeCorrect == SessionSpec => []SessionTypeOK
<1>1. SessionTypes /\ [SessionNext]_session => SessionTypes'
  BY TypesStep
<1> QED BY <1>1, TypesStart, TypesImply, PTL DEF SessionSpec

-----------------------------------------------------------------------------
(* ChatSession: a clear archives the files of its own session.             *)

\* No session's name extends another one's, and each session has one process.
NamesDiffer == \A k, j \in Keys : <<k, j>> \in NamePrefix => k = j
KeysDiffer == \A p, q \in Procs : KeyOf[p] = KeyOf[q] => p = q

OwnFiles(p) == {f \in Files : f[1] = KeyOf[p]}
NamedFiles(p) == {f \in Files : <<KeyOf[p], f[1]>> \in NamePrefix}

LEMMA ListedAreOwn ==
  ASSUME NamesDiffer, NEW p \in Procs
  PROVE  Listed(KeyOf[p]) = {f \in OwnFiles(p) : files[f] # <<>>}
<1>1. KeyOf[p] \in Keys /\ \A f \in Files : f[1] \in Keys
  BY SessionAssumption, FilesAre
<1>2. \A f \in Files : <<KeyOf[p], f[1]>> \in NamePrefix <=> f[1] = KeyOf[p]
  BY <1>1, SessionAssumption DEF NamesDiffer
<1> QED BY <1>2 DEF Listed, OwnFiles

\* How a step changes the files.
LEMMA FilesStep ==
  ASSUME todo \in [Procs -> SUBSET Files], SessionNext \/ UNCHANGED session
  PROVE  \/ UNCHANGED files
         \/ \E p \in Procs, kind \in {"message", "compaction", "cleared"}, l \in Points :
              PutRow(p, kind, l)
         \/ \E p \in Procs, f \in Files : pc[p] = "archive" /\ f \in todo[p] /\ RemoveFile(f)
         \/ \E f \in TranscriptsOf(subject) : pc[Desktop] = "unlink" /\ RemoveFile(f)
<1> DEFINE Goal ==
             \/ UNCHANGED files
             \/ \E p \in Procs, kind \in {"message", "compaction", "cleared"}, l \in Points :
                  PutRow(p, kind, l)
             \/ \E p \in Procs, f \in Files : pc[p] = "archive" /\ f \in todo[p] /\ RemoveFile(f)
             \/ \E f \in TranscriptsOf(subject) : pc[Desktop] = "unlink" /\ RemoveFile(f)
<1>1. ASSUME NEW p \in Procs, NEW o \in SessionOps, Start(p, o)
      PROVE  Goal
  BY <1>1 DEF Start, disk
<1>2. ASSUME NEW p \in Procs, EnsureSession(p)
      PROVE  Goal
  BY <1>2 DEF EnsureSession, disk
<1>3. ASSUME NEW p \in Procs, EnsureHeader(p)
      PROVE  Goal
  BY <1>3 DEF EnsureHeader, disk
<1>4. ASSUME NEW p \in Procs, ReadHistory(p)
      PROVE  Goal
  BY <1>4 DEF ReadHistory, disk
<1>5. ASSUME NEW p \in Procs, EarlyFlush(p)
      PROVE  Goal
  BY <1>5 DEF EarlyFlush, disk
<1>6. ASSUME NEW p \in Procs, Check(p)
      PROVE  Goal
  BY <1>6 DEF Check, disk
<1>7. ASSUME NEW p \in Procs, NEW ok \in BOOLEAN, FlushTurn(p, ok)
      PROVE  Goal
  BY <1>7 DEF FlushTurn, disk
<1>8. ASSUME NEW p \in Procs, MarkFlushed(p)
      PROVE  Goal
  BY <1>8 DEF MarkFlushed, disk
<1>9. ASSUME NEW p \in Procs, KeepAll(p)
      PROVE  Goal
  BY <1>9 DEF KeepAll, disk
<1>10. ASSUME NEW p \in Procs, Summarise(p)
       PROVE  Goal
  BY <1>10 DEF Summarise, EndOfClear, Points
<1>11. ASSUME NEW p \in Procs, CountCompaction(p)
       PROVE  Goal
  BY <1>11 DEF CountCompaction, disk
<1>12. ASSUME NEW p \in Procs, NEW remembers \in BOOLEAN, NEW over \in BOOLEAN,
              Budget(p, remembers, over)
       PROVE  Goal
  BY <1>12 DEF Budget, disk
<1>13. ASSUME NEW p \in Procs, AppendUser(p)
       PROVE  Goal
  BY <1>13 DEF AppendUser, EndOfClear, Points
<1>14. ASSUME NEW p \in Procs, AgentLoopFails(p)
       PROVE  Goal
  BY <1>14 DEF AgentLoopFails, disk
<1>15. ASSUME NEW p \in Procs, AppendAssistant(p)
       PROVE  Goal
  BY <1>15 DEF AppendAssistant, EndOfClear, Points
<1>16. ASSUME NEW p \in Procs, RememberNothing(p)
       PROVE  Goal
  BY <1>16 DEF RememberNothing, disk
<1>17. ASSUME NEW p \in Procs, Remember(p)
       PROVE  Goal
  BY <1>17 DEF Remember, EndOfClear, Points
<1>18. ASSUME NEW p \in Procs, ListFiles(p)
       PROVE  Goal
  BY <1>18 DEF ListFiles, disk
<1>19. ASSUME NEW p \in Procs, Archive(p)
       PROVE  Goal
  BY <1>19 DEF Archive, First
<1>20. ASSUME NEW p \in Procs, ResetCounts(p)
       PROVE  Goal
  BY <1>20 DEF ResetCounts, disk
<1>21. ASSUME NEW p \in Procs, ResetSession(p)
       PROVE  Goal
  BY <1>21 DEF ResetSession, disk
<1>22. ASSUME NEW p \in Procs, Newline(p)
       PROVE  Goal
  BY <1>22 DEF Newline, disk
<1>23. ASSUME NEW a \in Actors, Truncate(a)
       PROVE  Goal
  BY <1>23 DEF Truncate, disk
<1>24. ASSUME NEW a \in Actors, Write(a)
       PROVE  Goal
  BY <1>24 DEF Write, disk
<1>25. ASSUME NEW a \in Actors, Crash(a)
       PROVE  Goal
  BY <1>25 DEF Crash, disk
<1>26. ASSUME NEW k \in Keys, CreateSession(k)
       PROVE  Goal
  BY <1>26 DEF CreateSession, DesktopStarts, disk
<1>27. ASSUME NEW k \in Keys, RenameSession(k)
       PROVE  Goal
  BY <1>27 DEF RenameSession, DesktopStarts, disk
<1>28. ASSUME NEW k \in Keys, DeleteSession(k)
       PROVE  Goal
  BY <1>28 DEF DeleteSession, DesktopStarts, disk
<1>29. ASSUME UnlinkTranscripts
       PROVE  Goal
  <2>1. CASE UNCHANGED files
    BY <2>1
  <2>2. CASE \E f \in TranscriptsOf(subject) : RemoveFile(f)
    BY <1>29, <2>2 DEF UnlinkTranscripts, First
  <2> HIDE DEF Goal
  <2> QED BY <1>29, <2>1, <2>2 DEF UnlinkTranscripts, First
<1>30. ASSUME NextDay
       PROVE  Goal
  BY <1>30 DEF NextDay, disk
<1>31. ASSUME Rest \/ UNCHANGED session
       PROVE  Goal
  BY <1>31 DEF Rest, session, disk
<1> QED
  BY <1>1, <1>2, <1>3, <1>4, <1>5, <1>6, <1>7, <1>8, <1>9, <1>10, <1>11, <1>12, <1>13, <1>14, <1>15, <1>16, <1>17, <1>18, <1>19, <1>20, <1>21, <1>22, <1>23, <1>24, <1>25, <1>26, <1>27, <1>28, <1>29, <1>30, <1>31
  DEF SessionNext, Turn, Clear, DesktopStep

ArchivesNamed == \A p \in Procs : pc[p] = "archive" => todo[p] \subseteq NamedFiles(p)

LEMMA ArchivesNamedStep ==
  ASSUME SessionTypes, ArchivesNamed, SessionNext \/ UNCHANGED session
  PROVE  ArchivesNamed'
<1>0. /\ Procs \subseteq Actors /\ Desktop \notin Procs
      /\ pc = [a \in Actors |-> pc[a]] /\ todo \in [Procs -> SUBSET Files]
      /\ \A p \in Procs : pc[p] \in {"newline", "truncate", "write", "flush", "mark"} => then[p] # "archive"
  BY SessionAssumption DEF SessionTypes, Routes, Route, Tallies, Actors
<1>1. ASSUME NEW p \in Procs, NEW o \in SessionOps, Start(p, o)
      PROVE  ArchivesNamed'
  BY <1>1, <1>0 DEF Start, Goto, local, ArchivesNamed, NamedFiles
<1>2. ASSUME NEW p \in Procs, EnsureSession(p)
      PROVE  ArchivesNamed'
  BY <1>2, <1>0 DEF EnsureSession, Save, Goto, local, ArchivesNamed, NamedFiles
<1>3. ASSUME NEW p \in Procs, EnsureHeader(p)
      PROVE  ArchivesNamed'
  BY <1>3, <1>0 DEF EnsureHeader, Goto, local, ArchivesNamed, NamedFiles
<1>4. ASSUME NEW p \in Procs, ReadHistory(p)
      PROVE  ArchivesNamed'
  <2>1. AfterRead(op[p]) # "archive" /\ AfterFailedRead(op[p]) # "archive"
    <3>1. op[p] \in {"turn", "compact", "clear", "clear_full"}
      BY DEF SessionTypes, Routes, Route
    <3> QED BY <3>1 DEF AfterRead, AfterFailedRead
  <2> QED BY <1>4, <1>0, <2>1 DEF ReadHistory, Goto, ArchivesNamed, NamedFiles
<1>5. ASSUME NEW p \in Procs, EarlyFlush(p)
      PROVE  ArchivesNamed'
  BY <1>5, <1>0 DEF EarlyFlush, FlushThen, Goto, local, ArchivesNamed, NamedFiles
<1>6. ASSUME NEW p \in Procs, Check(p)
      PROVE  ArchivesNamed'
  BY <1>6, <1>0 DEF Check, FlushThen, Goto, local, ArchivesNamed, NamedFiles
<1>7. ASSUME NEW p \in Procs, NEW ok \in BOOLEAN, FlushTurn(p, ok)
      PROVE  ArchivesNamed'
  BY <1>7, <1>0 DEF FlushTurn, Goto, local, ArchivesNamed, NamedFiles
<1>8. ASSUME NEW p \in Procs, MarkFlushed(p)
      PROVE  ArchivesNamed'
  BY <1>8, <1>0 DEF MarkFlushed, Save, Goto, local, ArchivesNamed, NamedFiles
<1>9. ASSUME NEW p \in Procs, KeepAll(p)
      PROVE  ArchivesNamed'
  <2>1. AfterCompaction(p) # "archive"
    <3>1. op[p] = "compact" \/ (op[p] = "turn" /\ stage[p] \in {"compact", "budget"})
      BY <1>9 DEF KeepAll, SessionTypes, Routes, Route, Toward
    <3> QED BY <3>1 DEF AfterCompaction
  <2> QED BY <1>9, <1>0, <2>1 DEF KeepAll, Save, Goto, ArchivesNamed, NamedFiles
<1>10. ASSUME NEW p \in Procs, Summarise(p)
       PROVE  ArchivesNamed'
  BY <1>10, <1>0 DEF Summarise, PutRow, Goto, local, ArchivesNamed, NamedFiles
<1>11. ASSUME NEW p \in Procs, CountCompaction(p)
       PROVE  ArchivesNamed'
  <2>1. AfterCompaction(p) # "archive"
    <3>1. op[p] = "compact" \/ (op[p] = "turn" /\ stage[p] \in {"compact", "budget"})
      BY <1>11 DEF CountCompaction, SessionTypes, Routes, Route, Toward
    <3> QED BY <3>1 DEF AfterCompaction
  <2> QED BY <1>11, <1>0, <2>1 DEF CountCompaction, Save, Goto, ArchivesNamed, NamedFiles
<1>12. ASSUME NEW p \in Procs, NEW remembers \in BOOLEAN, NEW over \in BOOLEAN,
              Budget(p, remembers, over)
       PROVE  ArchivesNamed'
  BY <1>12, <1>0 DEF Budget, Goto, local, ArchivesNamed, NamedFiles
<1>13. ASSUME NEW p \in Procs, AppendUser(p)
       PROVE  ArchivesNamed'
  BY <1>13, <1>0 DEF AppendUser, PutRow, Goto, local, ArchivesNamed, NamedFiles
<1>14. ASSUME NEW p \in Procs, AgentLoopFails(p)
       PROVE  ArchivesNamed'
  BY <1>14, <1>0 DEF AgentLoopFails, Goto, local, ArchivesNamed, NamedFiles
<1>15. ASSUME NEW p \in Procs, AppendAssistant(p)
       PROVE  ArchivesNamed'
  BY <1>15, <1>0 DEF AppendAssistant, PutRow, Goto, local, ArchivesNamed, NamedFiles
<1>16. ASSUME NEW p \in Procs, RememberNothing(p)
       PROVE  ArchivesNamed'
  BY <1>16, <1>0 DEF RememberNothing, EndOfClear, Goto, local, ArchivesNamed, NamedFiles
<1>17. ASSUME NEW p \in Procs, Remember(p)
       PROVE  ArchivesNamed'
  BY <1>17, <1>0 DEF Remember, EndOfClear, PutRow, Goto, local, ArchivesNamed, NamedFiles
<1>18. ASSUME NEW p \in Procs, ListFiles(p)
       PROVE  ArchivesNamed'
  BY <1>18, <1>0 DEF ListFiles, Listed, Goto, ArchivesNamed, NamedFiles
<1>19. ASSUME NEW p \in Procs, Archive(p)
       PROVE  ArchivesNamed'
  BY <1>19, <1>0 DEF Archive, RemoveFile, Goto, local, ArchivesNamed, NamedFiles
<1>20. ASSUME NEW p \in Procs, ResetCounts(p)
       PROVE  ArchivesNamed'
  BY <1>20, <1>0 DEF ResetCounts, Save, Goto, local, ArchivesNamed, NamedFiles
<1>21. ASSUME NEW p \in Procs, ResetSession(p)
       PROVE  ArchivesNamed'
  BY <1>21, <1>0 DEF ResetSession, Goto, local, ArchivesNamed, NamedFiles
<1>22. ASSUME NEW p \in Procs, Newline(p)
       PROVE  ArchivesNamed'
  BY <1>22, <1>0 DEF Newline, Goto, local, ArchivesNamed, NamedFiles
<1>23. ASSUME NEW a \in Actors, Truncate(a)
       PROVE  ArchivesNamed'
  BY <1>23, <1>0 DEF Truncate, Goto, local, ArchivesNamed, NamedFiles
<1>24. ASSUME NEW a \in Actors, Write(a)
       PROVE  ArchivesNamed'
  BY <1>24, <1>0 DEF Write, Goto, local, ArchivesNamed, NamedFiles
<1>25. ASSUME NEW a \in Actors, Crash(a)
       PROVE  ArchivesNamed'
  BY <1>25, <1>0 DEF Crash, Goto, local, ArchivesNamed, NamedFiles
<1>26. ASSUME NEW k \in Keys, CreateSession(k)
       PROVE  ArchivesNamed'
  BY <1>26, <1>0 DEF CreateSession, DesktopStarts, Save, Goto, local, ArchivesNamed, NamedFiles
<1>27. ASSUME NEW k \in Keys, RenameSession(k)
       PROVE  ArchivesNamed'
  BY <1>27, <1>0 DEF RenameSession, DesktopStarts, Save, Goto, local, ArchivesNamed, NamedFiles
<1>28. ASSUME NEW k \in Keys, DeleteSession(k)
       PROVE  ArchivesNamed'
  BY <1>28, <1>0 DEF DeleteSession, DesktopStarts, Save, Goto, local, ArchivesNamed, NamedFiles
<1>29. ASSUME UnlinkTranscripts
       PROVE  ArchivesNamed'
  BY <1>29, <1>0 DEF UnlinkTranscripts, RemoveFile, Goto, local, ArchivesNamed, NamedFiles
<1>30. ASSUME NextDay
       PROVE  ArchivesNamed'
  BY <1>30 DEF NextDay, local, ArchivesNamed, NamedFiles
<1>31. ASSUME Rest \/ UNCHANGED session
       PROVE  ArchivesNamed'
  BY <1>31 DEF Rest, session, local, ArchivesNamed, NamedFiles
<1> QED
  BY <1>1, <1>2, <1>3, <1>4, <1>5, <1>6, <1>7, <1>8, <1>9, <1>10, <1>11, <1>12, <1>13, <1>14, <1>15, <1>16, <1>17, <1>18, <1>19, <1>20, <1>21, <1>22, <1>23, <1>24, <1>25, <1>26, <1>27, <1>28, <1>29, <1>30, <1>31
  DEF SessionNext, Turn, Clear, DesktopStep

\* Without such names the files are the session's own.
ArchivesOwn == \A p \in Procs : pc[p] = "archive" => todo[p] \subseteq OwnFiles(p)

LEMMA ArchivesOwnStep ==
  ASSUME NamesDiffer, SessionTypes, ArchivesOwn, SessionNext \/ UNCHANGED session
  PROVE  ArchivesOwn'
<1>1. \A p \in Procs : NamedFiles(p) = OwnFiles(p)
  BY SessionAssumption, FilesAre DEF NamesDiffer, NamedFiles, OwnFiles
<1>2. ArchivesNamed
  BY <1>1 DEF ArchivesOwn, ArchivesNamed
<1>3. ArchivesNamed'
  BY <1>2, ArchivesNamedStep
<1> QED BY <1>1, <1>3 DEF ArchivesOwn, ArchivesNamed

\* A transcript disappears only in a clear of a process whose key its name begins
\* with, or in a deletion by the desktop of a session whose key and a dash it
\* begins with, whatever the sessions are called.
THEOREM OwnTranscriptsAreCleared == SessionSpec => OwnTranscriptsCleared
<1> DEFINE Inv == SessionTypes /\ ArchivesNamed
           Own == \A f \in Files : Len(files'[f]) < Len(files[f]) =>
                    \/ \E p \in Procs : pc[p] = "archive" /\ <<KeyOf[p], f[1]>> \in NamePrefix
                    \/ pc[Desktop] = "unlink" /\ <<subject, f[1]>> \in DashPrefix
<1>1. SessionInit => Inv
  BY TypesStart, SessionAssumption DEF SessionInit, ArchivesNamed, Actors
<1>2. Inv /\ [SessionNext]_session => Inv'
  BY TypesStep, ArchivesNamedStep
<1>3. ASSUME Inv, [SessionNext]_session PROVE Own \/ UNCHANGED session
  <2>1. \/ UNCHANGED files
        \/ \E p \in Procs, kind \in {"message", "compaction", "cleared"}, l \in Points :
              PutRow(p, kind, l)
        \/ \E p \in Procs, f \in Files : pc[p] = "archive" /\ f \in todo[p] /\ RemoveFile(f)
        \/ \E f \in TranscriptsOf(subject) : pc[Desktop] = "unlink" /\ RemoveFile(f)
    BY <1>3, FilesStep DEF SessionTypes, Tallies
  <2>2. files \in [Files -> Seq(Row)] /\ Logs
    BY <1>3 DEF SessionTypes, Logs
  <2>3. CASE UNCHANGED files
    BY <2>2, <2>3
  <2>4. ASSUME NEW p \in Procs, NEW kind \in {"message", "compaction", "cleared"}, NEW l,
               PutRow(p, kind, l)
        PROVE  Own
    <3>1. \A f \in Files : Len(files'[f]) \in {Len(files[f]), Len(files[f]) + 1}
      BY <2>2, <2>4, PutAppends
    <3> QED BY <2>2, <3>1
  <2>5. ASSUME NEW p \in Procs, NEW g \in Files, pc[p] = "archive", g \in todo[p], RemoveFile(g)
        PROVE  Own
    <3>1. <<KeyOf[p], g[1]>> \in NamePrefix
      BY <1>3, <2>5 DEF ArchivesNamed, NamedFiles
    <3>2. \A f \in Files : f = g \/ files'[f] = files[f]
      BY <2>2, <2>5 DEF RemoveFile
    <3> QED BY <2>2, <2>5, <3>1, <3>2
  <2>6. ASSUME NEW g \in TranscriptsOf(subject), pc[Desktop] = "unlink", RemoveFile(g)
        PROVE  Own
    <3>1. <<subject, g[1]>> \in DashPrefix /\ g \in Files
      BY DEF TranscriptsOf
    <3>2. \A f \in Files : f = g \/ files'[f] = files[f]
      BY <2>2, <2>6 DEF RemoveFile
    <3> QED BY <2>2, <2>6, <3>1, <3>2
  <2> QED BY <2>1, <2>3, <2>4, <2>5, <2>6
<1>4. Inv /\ [SessionNext]_session => [Own]_session
  BY <1>3
<1> QED BY <1>1, <1>2, <1>4, PTL DEF SessionSpec, OwnTranscriptsCleared

-----------------------------------------------------------------------------
(* ChatSession: what the others leave alone.                               *)

ActsOf(q) ==
  \/ (\E o \in SessionOps : Start(q, o)) \/ Turn(q) \/ Clear(q) \/ Newline(q)
  \/ Truncate(q) \/ Write(q) \/ Crash(q)

Kept(q) ==
  /\ UNCHANGED <<pc[q], then[q], op[q], stage[q], open[q], cache[q], history[q], todo[q],
                 cleared[KeyOf[q]]>>
  /\ \A f \in OwnFiles(q) : files'[f] = files[f] \/ (files'[f] = <<>> /\ pc[Desktop] = "unlink")
  /\ said' \in {said, said + 1}

LEMMA OthersKeep ==
  ASSUME KeysDiffer, SessionTypes, ArchivesOwn, SessionNext \/ UNCHANGED session,
         NEW q \in Procs, ~ActsOf(q)
  PROVE  Kept(q)
<1>0. /\ Procs \subseteq Actors /\ Desktop \notin Procs /\ Desktop # q
      /\ \A p \in Procs : p # q => KeyOf[p] # KeyOf[q]
      /\ \A p \in Procs, f \in OwnFiles(q) : p # q => f # Today(p)
      /\ Logs
  BY SessionAssumption DEF SessionTypes, Actors, KeysDiffer, OwnFiles, Today
<1>t. /\ pc = [a \in Actors |-> pc[a]] /\ then = [a \in Actors |-> then[a]]
      /\ op = [a \in Actors |-> op[a]] /\ stage = [p \in Procs |-> stage[p]]
      /\ history = [p \in Procs |-> history[p]] /\ cache = [p \in Procs |-> cache[p]]
      /\ open \in [Procs -> BOOLEAN] /\ todo \in [Procs -> SUBSET Files]
      /\ cleared \in [Keys -> Nat] /\ DOMAIN files = Files
  BY DEF SessionTypes, Routes, Memory, Tallies, Logs
<1>1. ASSUME NEW p \in Procs, NEW o \in SessionOps, Start(p, o)
      PROVE  Kept(q)
  <2>1. p # q
    BY <1>1 DEF ActsOf, Turn, Clear
  <2> QED BY <1>1, <1>0, <1>t, <2>1 DEF Start, Goto, disk, observed, Kept
<1>2. ASSUME NEW p \in Procs, EnsureSession(p)
      PROVE  Kept(q)
  <2>1. p # q
    BY <1>2 DEF ActsOf, Turn, Clear
  <2> QED BY <1>2, <1>0, <1>t, <2>1 DEF EnsureSession, Save, Goto, disk, observed, Kept
<1>3. ASSUME NEW p \in Procs, EnsureHeader(p)
      PROVE  Kept(q)
  <2>1. p # q
    BY <1>3 DEF ActsOf, Turn, Clear
  <2> QED BY <1>3, <1>0, <1>t, <2>1 DEF EnsureHeader, Goto, disk, observed, Kept
<1>4. ASSUME NEW p \in Procs, ReadHistory(p)
      PROVE  Kept(q)
  <2>1. p # q
    BY <1>4 DEF ActsOf, Turn, Clear
  <2> QED BY <1>4, <1>0, <1>t, <2>1 DEF ReadHistory, Goto, AfterRead, AfterFailedRead, disk, observed, Kept
<1>5. ASSUME NEW p \in Procs, EarlyFlush(p)
      PROVE  Kept(q)
  <2>1. p # q
    BY <1>5 DEF ActsOf, Turn, Clear
  <2> QED BY <1>5, <1>0, <1>t, <2>1 DEF EarlyFlush, FlushThen, Goto, disk, observed, Kept
<1>6. ASSUME NEW p \in Procs, Check(p)
      PROVE  Kept(q)
  <2>1. p # q
    BY <1>6 DEF ActsOf, Turn, Clear
  <2> QED BY <1>6, <1>0, <1>t, <2>1 DEF Check, FlushThen, Goto, disk, observed, Kept
<1>7. ASSUME NEW p \in Procs, NEW ok \in BOOLEAN, FlushTurn(p, ok)
      PROVE  Kept(q)
  <2>1. p # q
    BY <1>7 DEF ActsOf, Turn, Clear
  <2> QED BY <1>7, <1>0, <1>t, <2>1 DEF FlushTurn, Goto, disk, observed, Kept
<1>8. ASSUME NEW p \in Procs, MarkFlushed(p)
      PROVE  Kept(q)
  <2>1. p # q
    BY <1>8 DEF ActsOf, Turn, Clear
  <2> QED BY <1>8, <1>0, <1>t, <2>1 DEF MarkFlushed, Save, Goto, disk, observed, Kept
<1>9. ASSUME NEW p \in Procs, KeepAll(p)
      PROVE  Kept(q)
  <2>1. p # q
    BY <1>9 DEF ActsOf, Turn, Clear
  <2> QED BY <1>9, <1>0, <1>t, <2>1 DEF KeepAll, AfterCompaction, Goto, disk, observed, Kept
<1>10. ASSUME NEW p \in Procs, Summarise(p)
       PROVE  Kept(q)
  <2>1. p # q
    BY <1>10 DEF ActsOf, Turn, Clear
  <2>2. PutRow(p, "compaction", "count")
    BY <1>10 DEF Summarise
  <2>3. \A f \in OwnFiles(q) : files'[f] = files[f]
    BY <1>0, <2>1, <2>2, PutAppends DEF OwnFiles
  <2> QED BY <1>10, <1>0, <1>t, <2>1, <2>3 DEF Summarise, PutRow, Goto, disk, local, observed, Kept
<1>11. ASSUME NEW p \in Procs, CountCompaction(p)
       PROVE  Kept(q)
  <2>1. p # q
    BY <1>11 DEF ActsOf, Turn, Clear
  <2> QED BY <1>11, <1>0, <1>t, <2>1 DEF CountCompaction, AfterCompaction, Save, Goto, disk, observed, Kept
<1>12. ASSUME NEW p \in Procs, NEW remembers \in BOOLEAN, NEW over \in BOOLEAN,
              Budget(p, remembers, over)
       PROVE  Kept(q)
  <2>1. p # q
    BY <1>12 DEF ActsOf, Turn, Clear
  <2> QED BY <1>12, <1>0, <1>t, <2>1 DEF Budget, Goto, disk, observed, Kept
<1>13. ASSUME NEW p \in Procs, AppendUser(p)
       PROVE  Kept(q)
  <2>1. p # q
    BY <1>13 DEF ActsOf, Turn, Clear
  <2>2. PutRow(p, "message", "loop")
    BY <1>13 DEF AppendUser
  <2>3. \A f \in OwnFiles(q) : files'[f] = files[f]
    BY <1>0, <2>1, <2>2, PutAppends DEF OwnFiles
  <2> QED BY <1>13, <1>0, <1>t, <2>1, <2>3 DEF AppendUser, PutRow, Goto, disk, local, observed, Kept
<1>14. ASSUME NEW p \in Procs, AgentLoopFails(p)
       PROVE  Kept(q)
  <2>1. p # q
    BY <1>14 DEF ActsOf, Turn, Clear
  <2> QED BY <1>14, <1>0, <1>t, <2>1 DEF AgentLoopFails, Goto, disk, observed, Kept
<1>15. ASSUME NEW p \in Procs, AppendAssistant(p)
       PROVE  Kept(q)
  <2>1. p # q
    BY <1>15 DEF ActsOf, Turn, Clear
  <2>2. PutRow(p, "message", "idle")
    BY <1>15 DEF AppendAssistant
  <2>3. \A f \in OwnFiles(q) : files'[f] = files[f]
    BY <1>0, <2>1, <2>2, PutAppends DEF OwnFiles
  <2> QED BY <1>15, <1>0, <1>t, <2>1, <2>3 DEF AppendAssistant, PutRow, Goto, disk, local, observed, Kept
<1>16. ASSUME NEW p \in Procs, RememberNothing(p)
       PROVE  Kept(q)
  <2>1. p # q
    BY <1>16 DEF ActsOf, Turn, Clear
  <2> QED BY <1>16, <1>0, <1>t, <2>1 DEF RememberNothing, EndOfClear, Goto, disk, observed, Kept
<1>17. ASSUME NEW p \in Procs, Remember(p)
       PROVE  Kept(q)
  <2>1. p # q
    BY <1>17 DEF ActsOf, Turn, Clear
  <2>2. PutRow(p, "cleared", EndOfClear(op[p]))
    BY <1>17 DEF Remember
  <2>3. \A f \in OwnFiles(q) : files'[f] = files[f]
    BY <1>0, <2>1, <2>2, PutAppends DEF OwnFiles
  <2> QED BY <1>17, <1>0, <1>t, <2>1, <2>3 DEF Remember, EndOfClear, PutRow, Goto, disk, local, observed, Kept
<1>18. ASSUME NEW p \in Procs, ListFiles(p)
       PROVE  Kept(q)
  <2>1. p # q
    BY <1>18 DEF ActsOf, Turn, Clear
  <2> QED BY <1>18, <1>0, <1>t, <2>1 DEF ListFiles, Goto, disk, observed, Kept
<1>19. ASSUME NEW p \in Procs, Archive(p)
       PROVE  Kept(q)
  <2>1. p # q
    BY <1>19 DEF ActsOf, Turn, Clear
  <2>2. \A f \in OwnFiles(q) : files'[f] = files[f]
    <3>1. pc[p] = "archive" /\ (UNCHANGED files \/ \E g \in todo[p] : RemoveFile(g))
      BY <1>19 DEF Archive, First
    <3>2. CASE UNCHANGED files
      BY <3>2
    <3>3. CASE \E g \in todo[p] : RemoveFile(g)
      <4>1. PICK g \in todo[p] : files' = [files EXCEPT ![g] = <<>>]
        BY <3>3 DEF RemoveFile
      <4>2. g[1] # KeyOf[q]
        BY <3>1, <1>0, <2>1 DEF ArchivesOwn, OwnFiles
      <4> QED BY <4>1, <4>2, <1>t DEF OwnFiles
    <3> QED BY <3>1, <3>2, <3>3
  <2> QED BY <1>19, <1>0, <1>t, <2>1, <2>2 DEF Archive, Goto, observed, Kept
<1>20. ASSUME NEW p \in Procs, ResetCounts(p)
       PROVE  Kept(q)
  <2>1. p # q
    BY <1>20 DEF ActsOf, Turn, Clear
  <2> QED BY <1>20, <1>0, <1>t, <2>1 DEF ResetCounts, Save, Goto, disk, observed, Kept
<1>21. ASSUME NEW p \in Procs, ResetSession(p)
       PROVE  Kept(q)
  <2>1. p # q
    BY <1>21 DEF ActsOf, Turn, Clear
  <2>2. KeyOf[p] # KeyOf[q] /\ KeyOf[p] \in Keys /\ KeyOf[q] \in Keys
    BY <1>0, <2>1, SessionAssumption
  <2> QED BY <1>21, <1>0, <1>t, <2>1, <2>2 DEF ResetSession, Goto, disk, Kept
<1>22. ASSUME NEW p \in Procs, Newline(p)
       PROVE  Kept(q)
  <2>1. p # q
    BY <1>22 DEF ActsOf, Turn, Clear
  <2> QED BY <1>22, <1>0, <1>t, <2>1 DEF Newline, Goto, disk, observed, Kept
<1>23. ASSUME NEW a \in Actors, Truncate(a)
       PROVE  Kept(q)
  <2>1. a # q
    BY <1>23 DEF ActsOf, Turn, Clear
  <2> QED BY <1>23, <1>0, <1>t, <2>1 DEF Truncate, Goto, disk, observed, Kept
<1>24. ASSUME NEW a \in Actors, Write(a)
       PROVE  Kept(q)
  <2>1. a # q
    BY <1>24 DEF ActsOf, Turn, Clear
  <2> QED BY <1>24, <1>0, <1>t, <2>1 DEF Write, Goto, disk, observed, Kept
<1>25. ASSUME NEW a \in Actors, Crash(a)
       PROVE  Kept(q)
  <2>1. a # q
    BY <1>25 DEF ActsOf, Turn, Clear
  <2> QED BY <1>25, <1>0, <1>t, <2>1 DEF Crash, Goto, disk, observed, Kept
<1>26. ASSUME NEW k \in Keys, CreateSession(k)
       PROVE  Kept(q)
  BY <1>26, <1>0, <1>t DEF CreateSession, DesktopStarts, Save, Goto, disk, observed, Kept
<1>27. ASSUME NEW k \in Keys, RenameSession(k)
       PROVE  Kept(q)
  BY <1>27, <1>0, <1>t DEF RenameSession, DesktopStarts, Save, Goto, disk, observed, Kept
<1>28. ASSUME NEW k \in Keys, DeleteSession(k)
       PROVE  Kept(q)
  BY <1>28, <1>0, <1>t DEF DeleteSession, DesktopStarts, Save, Goto, disk, observed, Kept
<1>29. ASSUME UnlinkTranscripts
       PROVE  Kept(q)
  <2>1. UNCHANGED <<then, op, stage, open, cache, history, todo, cleared, said>> /\ pc'[q] = pc[q]
    BY <1>29, <1>0, <1>t DEF UnlinkTranscripts, Goto, observed
  <2>2. CASE UNCHANGED files
    BY <2>1, <2>2 DEF Kept
  <2>3. CASE \E g \in TranscriptsOf(subject) : RemoveFile(g)
    <3>1. \A f \in Files : files'[f] = files[f] \/ files'[f] = <<>>
      BY <2>3, <1>t DEF RemoveFile
    <3>2. pc[Desktop] = "unlink"
      BY <1>29 DEF UnlinkTranscripts
    <3> QED BY <2>1, <3>1, <3>2 DEF Kept, OwnFiles
  <2> QED BY <1>29, <2>2, <2>3 DEF UnlinkTranscripts, First
<1>30. ASSUME NextDay
       PROVE  Kept(q)
  BY <1>30 DEF NextDay, local, observed, Kept
<1>31. ASSUME Rest \/ UNCHANGED session
       PROVE  Kept(q)
  BY <1>31 DEF Rest, session, disk, local, observed, Kept
<1> QED
  BY <1>1, <1>2, <1>3, <1>4, <1>5, <1>6, <1>7, <1>8, <1>9, <1>10, <1>11, <1>12, <1>13, <1>14, <1>15, <1>16, <1>17, <1>18, <1>19, <1>20, <1>21, <1>22, <1>23, <1>24, <1>25, <1>26, <1>27, <1>28, <1>29, <1>30, <1>31
  DEF SessionNext, Turn, Clear, DesktopStep

-----------------------------------------------------------------------------
(* ChatSession: the shape of a history.                                    *)

\* At most a window of messages, behind the summaries, before the contexts.
Fits(k, h) ==
  /\ Window > 0 => Cardinality({x \in DOMAIN h : IsMessage(h[x])}) <= Window
  /\ \A s, x \in DOMAIN h : h[s].kind \in {"compaction", "cleared"} => ~Earlier(k, x, s)
  /\ \A s, x \in DOMAIN h : h[s].kind = "context" => ~Earlier(k, s, x)
WithoutContext(h) == \A x \in DOMAIN h : h[x].kind # "context"
NoneBefore(n, h) == \A x \in DOMAIN h : IsMessage(h[x]) => h[x].id >= n

LEMMA NothingFits ==
  ASSUME NEW k, NEW n
  PROVE  Fits(k, <<>>) /\ WithoutContext(<<>>) /\ NoneBefore(n, <<>>)
<1>1. {x \in DOMAIN <<>> : IsMessage(<<>>[x])} = {} /\ Cardinality({}) = 0
  BY FS_EmptySet
<1>2. Window \in Nat /\ DOMAIN <<>> = {}
  BY SessionAssumption
<1>3. Window > 0 => Cardinality({x \in DOMAIN <<>> : IsMessage(<<>>[x])}) <= Window
  BY <1>1, <1>2
<1> QED BY <1>2, <1>3 DEF Fits, WithoutContext, NoneBefore

\* One summary and one context at most.
LEMMA FitSize ==
  ASSUME NEW n \in Nat, NEW k, NEW h, HistoryFor(h, n), Fits(k, h), Window > 0
  PROVE  Size(h) <= Window + 2
<1> DEFINE M == {x \in DOMAIN h : IsMessage(h[x])}
           S == {x \in DOMAIN h : h[x].kind \in {"compaction", "cleared"}}
           C == {x \in DOMAIN h : h[x].kind = "context"}
<1>1. IsFiniteSet(DOMAIN h) /\ DOMAIN h \subseteq Spots /\ \A x \in DOMAIN h : h[x] \in Row
  BY HistoriesAreFinite DEF HistoryFor, Rows
<1>2. DOMAIN h = (M \cup S) \cup C
  BY <1>1 DEF Row, IsMessage
<1>3. IsFiniteSet(M) /\ IsFiniteSet(S) /\ IsFiniteSet(C)
  BY <1>1, FS_Subset
<1>4. \A x, y \in S : x = y
  BY <1>1, EarlierOrders DEF Fits
<1>5. \A x, y \in C : x = y
  BY <1>1, EarlierOrders DEF Fits
<1>6. \A T : (\A x, y \in T : x = y) => Cardinality(T) \in {0, 1}
  <2> TAKE T
  <2> HAVE \A x, y \in T : x = y
  <2>1. CASE T = {}
    BY <2>1, FS_EmptySet
  <2>2. CASE T # {}
    <3>1. PICK x \in T : T = {x}
      BY <2>2
    <3> QED BY <3>1, FS_Singleton
  <2> QED BY <2>1, <2>2
<1>7. Cardinality(M) <= Window
  BY DEF Fits
<1> HIDE DEF M, S, C
<1>8. Cardinality(S) \in {0, 1} /\ Cardinality(C) \in {0, 1}
  BY <1>4, <1>5, <1>6
<1>9. IsFiniteSet(M \cup S) /\ Cardinality(M \cup S) <= Cardinality(M) + Cardinality(S)
  <2>1. Cardinality(M \cup S) = Cardinality(M) + Cardinality(S) - Cardinality(M \cap S)
    BY <1>3, FS_Union
  <2>2. Cardinality(M) \in Nat /\ Cardinality(M \cap S) \in Nat
    BY <1>3, FS_Intersection, FS_CardinalityType
  <2>3. Cardinality(M \cup S) <= Cardinality(M) + Cardinality(S)
    BY <1>8, <2>1, <2>2
  <2> QED BY <1>3, <2>3, FS_Union
<1>10. Cardinality((M \cup S) \cup C) <= Cardinality(M \cup S) + Cardinality(C)
  <2>1. Cardinality((M \cup S) \cup C)
          = Cardinality(M \cup S) + Cardinality(C) - Cardinality((M \cup S) \cap C)
    BY <1>3, <1>9, FS_Union
  <2>2. Cardinality(M \cup S) \in Nat /\ Cardinality((M \cup S) \cap C) \in Nat
    BY <1>3, <1>9, FS_Intersection, FS_CardinalityType
  <2> QED BY <1>8, <2>1, <2>2
<1>11. Window \in Nat /\ Cardinality(M) \in Nat /\ Cardinality(M \cup S) \in Nat
       /\ Cardinality((M \cup S) \cup C) \in Nat
  BY <1>3, <1>9, SessionAssumption, FS_Union, FS_CardinalityType
<1> QED BY <1>2, <1>7, <1>8, <1>9, <1>10, <1>11 DEF Size

\* What a history keeps of a fitting one fits.
LEMMA FewerMessages ==
  ASSUME NEW n \in Nat, NEW h, HistoryFor(h, n), NEW g,
         \A x \in DOMAIN g : IsMessage(g[x]) => x \in DOMAIN h /\ h[x] = g[x],
         Window > 0, Cardinality({x \in DOMAIN h : IsMessage(h[x])}) <= Window
  PROVE  Cardinality({x \in DOMAIN g : IsMessage(g[x])}) <= Window
<1> DEFINE M == {x \in DOMAIN h : IsMessage(h[x])}
           N == {x \in DOMAIN g : IsMessage(g[x])}
<1>1. IsFiniteSet(M)
  BY HistoriesAreFinite, FS_Subset
<1>2. N \subseteq M
  OBVIOUS
<1> HIDE DEF M, N
<1>3. Cardinality(N) <= Cardinality(M) /\ Cardinality(N) \in Nat /\ Cardinality(M) \in Nat
  BY <1>1, <1>2, FS_Subset, FS_CardinalityType
<1> QED BY <1>3, SessionAssumption DEF M, N

LEMMA RecentIsLast ==
  ASSUME NEW n \in Nat, NEW k, NEW h, HistoryFor(h, n), NEW x \in Recent(k, h),
         NEW y \in DOMAIN h, Earlier(k, x, y)
  PROVE  y \in Recent(k, h)
<1>1. IsFiniteSet(DOMAIN h) /\ DOMAIN h \subseteq Spots /\ x \in DOMAIN h
  BY HistoriesAreFinite DEF Recent
<1>2. Newer(k, h, y) \subseteq Newer(k, h, x) /\ IsFiniteSet(Newer(k, h, x))
  BY <1>1, EarlierOrders, FS_Subset DEF Newer
<1>3. Cardinality(Newer(k, h, y)) <= Cardinality(Newer(k, h, x))
      /\ Cardinality(Newer(k, h, y)) \in Nat /\ Cardinality(Newer(k, h, x)) \in Nat
  BY <1>2, FS_Subset, FS_CardinalityType
<1>4. Cardinality(Newer(k, h, x)) < KeepRecent /\ KeepRecent \in Nat
  BY SessionAssumption DEF Recent
<1> QED BY <1>3, <1>4 DEF Recent

LEMMA CompactedFits ==
  ASSUME Logs, NEW k, NEW h, HistoryFor(h, said), Size(h) > KeepRecent, Fits(k, h)
  PROVE  /\ Fits(k, Compacted(k, h)) /\ (WithoutContext(h) => WithoutContext(Compacted(k, h)))
         /\ \A n : NoneBefore(n, h) => NoneBefore(n, Compacted(k, h))
<1> DEFINE g == Compacted(k, h)
<1>0. \E seam : Replaces(k, h, Compacted(k, h), seam)
  BY CompactedReads
<1>1. PICK seam \in DOMAIN h \ Recent(k, h) :
              /\ \A x \in DOMAIN h \ Recent(k, h) : ~Earlier(k, seam, x)
              /\ DOMAIN g = Recent(k, h) \cup {seam}
              /\ \A x \in Recent(k, h) : g[x] = h[x]
              /\ g[seam].kind = "compaction"
  <2> HIDE DEF g
  <2> QED BY <1>0 DEF Replaces, g
<1>2. said \in Nat /\ DOMAIN h \subseteq Spots /\ Recent(k, h) \subseteq DOMAIN h
  BY HistoriesAreFinite DEF Logs, Recent
<1> HIDE DEF g
<1>3. ~IsMessage(g[seam])
  BY <1>1 DEF IsMessage
<1>4. \A x \in DOMAIN g : IsMessage(g[x]) => x \in DOMAIN h /\ h[x] = g[x]
  BY <1>1, <1>2, <1>3
<1>5. Window > 0 => Cardinality({x \in DOMAIN g : IsMessage(g[x])}) <= Window
  BY <1>2, <1>4, FewerMessages DEF Fits
<1>6. \A x \in Recent(k, h) : ~Earlier(k, x, seam)
  BY <1>1, <1>2, RecentIsLast
<1>7. \A s \in Recent(k, h) : h[s].kind \notin {"compaction", "cleared"}
  <2> SUFFICES ASSUME NEW s \in Recent(k, h), h[s].kind \in {"compaction", "cleared"}
               PROVE  FALSE
    OBVIOUS
  <2>1. ~Earlier(k, seam, s) /\ ~Earlier(k, s, seam) /\ s # seam
    BY <1>1, <1>2, <1>6 DEF Fits
  <2> QED BY <2>1, <1>1, <1>2, EarlierOrders
<1>8. \A s, x \in DOMAIN g : g[s].kind \in {"compaction", "cleared"} => ~Earlier(k, x, s)
  <2> TAKE s, x \in DOMAIN g
  <2> HAVE g[s].kind \in {"compaction", "cleared"}
  <2>1. s = seam
    BY <1>1, <1>7
  <2> QED BY <2>1, <1>1, <1>2, <1>6, EarlierOrders
<1>9. \A s, x \in DOMAIN g : g[s].kind = "context" => ~Earlier(k, s, x)
  <2> TAKE s, x \in DOMAIN g
  <2> HAVE g[s].kind = "context"
  <2>1. s \in Recent(k, h) /\ h[s].kind = "context"
    BY <1>1
  <2> QED BY <2>1, <1>1, <1>2 DEF Fits
<1>10. WithoutContext(h) => WithoutContext(g)
  BY <1>1, <1>2 DEF WithoutContext
<1>11. \A n : NoneBefore(n, h) => NoneBefore(n, g)
  BY <1>4 DEF NoneBefore
<1> QED BY <1>5, <1>8, <1>9, <1>10, <1>11 DEF Fits, g

LEMMA ContextFits ==
  ASSUME Logs, NEW k \in Keys, NEW h, HistoryFor(h, said), Fits(k, h), WithoutContext(h)
  PROVE  /\ Fits(k, WithContext(k, h))
         /\ \A n : NoneBefore(n, h) => NoneBefore(n, WithContext(k, h))
<1> DEFINE end == <<LastFile(k), said>>
           g == WithContext(k, h)
<1>1. /\ DOMAIN g = DOMAIN h \cup {end} /\ g[end].kind = "context"
      /\ \A x \in DOMAIN h \ {end} : g[x] = h[x]
      /\ end \in Spots /\ \A x \in DOMAIN h : ~Earlier(k, end, x)
  BY ContextReads
<1>2. said \in Nat /\ DOMAIN h \subseteq Spots
  BY HistoriesAreFinite DEF Logs
<1> HIDE DEF end, g
<1>3. \A x \in DOMAIN g : IsMessage(g[x]) => x \in DOMAIN h /\ h[x] = g[x]
  BY <1>1 DEF IsMessage
<1>4. Window > 0 => Cardinality({x \in DOMAIN g : IsMessage(g[x])}) <= Window
  BY <1>2, <1>3, FewerMessages DEF Fits
<1>5. \A s, x \in DOMAIN g : g[s].kind \in {"compaction", "cleared"} => ~Earlier(k, x, s)
  <2> TAKE s, x \in DOMAIN g
  <2> HAVE g[s].kind \in {"compaction", "cleared"}
  <2>1. s # end /\ s \in DOMAIN h /\ h[s] = g[s]
    BY <1>1
  <2> QED BY <2>1, <1>1 DEF Fits
<1>6. \A s, x \in DOMAIN g : g[s].kind = "context" => ~Earlier(k, s, x)
  <2> TAKE s, x \in DOMAIN g
  <2> HAVE g[s].kind = "context"
  <2>1. s = end
    BY <1>1 DEF WithoutContext
  <2> QED BY <2>1, <1>1, EarlierOrders
<1>7. \A n : NoneBefore(n, h) => NoneBefore(n, g)
  BY <1>3 DEF NoneBefore
<1> QED BY <1>4, <1>5, <1>6, <1>7 DEF Fits, g

\* What is seen of rows without contexts fits.
LEMMA SeenIsFit ==
  ASSUME NEW n \in Nat, NEW k, NEW h, HistoryFor(h, n), WithoutContext(h)
  PROVE  LET g == Restrict(h, Seen(k, h, DOMAIN h))
         IN Fits(k, g) /\ WithoutContext(g) /\ \A m : NoneBefore(m, h) => NoneBefore(m, g)
<1> DEFINE S == Seen(k, h, DOMAIN h)
           g == Restrict(h, S)
<1>1. IsFiniteSet(DOMAIN h) /\ DOMAIN h \subseteq Spots
  BY HistoriesAreFinite
<1>2. /\ Window > 0 => Cardinality({x \in S : IsMessage(h[x])}) <= Window
      /\ \A s, x \in S : ~IsMessage(h[s]) => ~Earlier(k, x, s)
  BY <1>1, SeenFits
<1>3. S \subseteq DOMAIN h
  BY DEF Seen
<1>4. DOMAIN g = S /\ \A x \in S : g[x] = h[x]
  BY DEF Restrict
<1> HIDE DEF S, g
<1>5. {x \in DOMAIN g : IsMessage(g[x])} = {x \in S : IsMessage(h[x])}
  BY <1>4
<1>6. WithoutContext(g)
  BY <1>3, <1>4 DEF WithoutContext
<1>7. \A m : NoneBefore(m, h) => NoneBefore(m, g)
  BY <1>3, <1>4 DEF NoneBefore
<1>8. Fits(k, g)
  BY <1>2, <1>4, <1>5, <1>6 DEF Fits, WithoutContext, IsMessage
<1> QED BY <1>6, <1>7, <1>8 DEF S, g

-----------------------------------------------------------------------------
(* ChatSession: after a full clear nothing is left of the session.         *)

Emptied(p) == \A f \in OwnFiles(p) : files[f] = <<>>
Clearing(p) ==
  /\ pc[p] = "archive" => \A f \in OwnFiles(p) : files[f] = <<>> \/ f \in todo[p]
  /\ op[p] = "clear_full" /\ Toward(then[p], pc[p]) \in {"counts", "reset"} => Emptied(p)

LEMMA ClearingStep ==
  ASSUME NamesDiffer, SessionTypes, NEW p \in Procs, Clearing(p), ActsOf(p)
  PROVE  Clearing(p)'
<1>0. /\ p \in Actors /\ Route(op[p], stage[p], then[p], pc[p]) /\ KeyOf[p] \in Keys
      /\ pc = [a \in Actors |-> pc[a]] /\ then = [a \in Actors |-> then[a]]
      /\ op = [a \in Actors |-> op[a]] /\ stage = [q \in Procs |-> stage[q]]
      /\ history = [q \in Procs |-> history[q]] /\ cache = [q \in Procs |-> cache[q]]
      /\ todo \in [Procs -> SUBSET Files] /\ cleared \in [Keys -> Nat] /\ DOMAIN files = Files
      /\ Logs /\ Memory /\ said \in Nat
  BY SessionAssumption DEF SessionTypes, Routes, Memory, Tallies, Logs, Actors
<1>1. ASSUME NEW o \in SessionOps, Start(p, o)
      PROVE  Clearing(p)'
  BY <1>1, <1>0 DEF Start, Goto, disk, Route, Toward, Clearing, Emptied, OwnFiles
<1>2. ASSUME EnsureSession(p)
      PROVE  Clearing(p)'
  BY <1>2, <1>0 DEF EnsureSession, Save, Goto, disk, Route, Toward, Clearing, Emptied, OwnFiles
<1>3. ASSUME EnsureHeader(p)
      PROVE  Clearing(p)'
  BY <1>3, <1>0 DEF EnsureHeader, Goto, disk, Route, Toward, Clearing, Emptied, OwnFiles
<1>4. ASSUME ReadHistory(p)
      PROVE  Clearing(p)'
  <2>1. /\ op'[p] = op[p] /\ then'[p] = then[p]
        /\ pc'[p] \in {AfterRead(op[p]), AfterFailedRead(op[p])}
    BY <1>4, <1>0 DEF ReadHistory, Goto
  <2>2. /\ pc'[p] \in {"early", "summarise", "remember", "idle", "reset", "list"}
        /\ op[p] = "clear_full" => pc'[p] # "reset"
    BY <1>0, <2>1 DEF Route, AfterRead, AfterFailedRead
  <2> QED BY <2>1, <2>2 DEF Clearing, Toward
<1>5. ASSUME EarlyFlush(p)
      PROVE  Clearing(p)'
  BY <1>5, <1>0 DEF EarlyFlush, FlushThen, Goto, disk, Route, Toward, Clearing, Emptied, OwnFiles
<1>6. ASSUME Check(p)
      PROVE  Clearing(p)'
  BY <1>6, <1>0 DEF Check, FlushThen, Goto, disk, Route, Toward, Clearing, Emptied, OwnFiles
<1>7. ASSUME NEW ok \in BOOLEAN, FlushTurn(p, ok)
      PROVE  Clearing(p)'
  BY <1>7, <1>0 DEF FlushTurn, Goto, disk, Route, Toward, Clearing, Emptied, OwnFiles
<1>8. ASSUME MarkFlushed(p)
      PROVE  Clearing(p)'
  BY <1>8, <1>0 DEF MarkFlushed, Save, Goto, disk, Route, Toward, Clearing, Emptied, OwnFiles
<1>9. ASSUME KeepAll(p)
      PROVE  Clearing(p)'
  <2>1. op[p] \in {"compact", "turn"} /\ op'[p] = op[p]
    BY <1>9, <1>0 DEF KeepAll, Route, Toward
  <2>2. pc'[p] # "archive"
    <3>1. op[p] = "compact" \/ (op[p] = "turn" /\ stage[p] \in {"compact", "budget"})
      BY <1>9, <1>0 DEF KeepAll, Route, Toward
    <3>2. AfterCompaction(p) # "archive"
      BY <3>1 DEF AfterCompaction
    <3> QED BY <1>9, <1>0, <3>2 DEF KeepAll, Goto, Save
  <2> QED BY <2>1, <2>2 DEF Clearing
<1>10. ASSUME Summarise(p)
       PROVE  Clearing(p)'
  BY <1>10, <1>0 DEF Summarise, PutRow, Goto, disk, Route, Toward, Clearing, Emptied, OwnFiles
<1>11. ASSUME CountCompaction(p)
       PROVE  Clearing(p)'
  <2>1. op[p] \in {"compact", "turn"} /\ op'[p] = op[p]
    BY <1>11, <1>0 DEF CountCompaction, Route, Toward
  <2>2. pc'[p] # "archive"
    <3>1. op[p] = "compact" \/ (op[p] = "turn" /\ stage[p] \in {"compact", "budget"})
      BY <1>11, <1>0 DEF CountCompaction, Route, Toward
    <3>2. AfterCompaction(p) # "archive"
      BY <3>1 DEF AfterCompaction
    <3> QED BY <1>11, <1>0, <3>2 DEF CountCompaction, Goto, Save
  <2> QED BY <2>1, <2>2 DEF Clearing
<1>12. ASSUME NEW remembers \in BOOLEAN, NEW over \in BOOLEAN,
              Budget(p, remembers, over)
       PROVE  Clearing(p)'
  BY <1>12, <1>0 DEF Budget, Goto, disk, Route, Toward, Clearing, Emptied, OwnFiles
<1>13. ASSUME AppendUser(p)
       PROVE  Clearing(p)'
  BY <1>13, <1>0 DEF AppendUser, PutRow, Goto, disk, Route, Toward, Clearing, Emptied, OwnFiles
<1>14. ASSUME AgentLoopFails(p)
       PROVE  Clearing(p)'
  BY <1>14, <1>0 DEF AgentLoopFails, Goto, disk, Route, Toward, Clearing, Emptied, OwnFiles
<1>15. ASSUME AppendAssistant(p)
       PROVE  Clearing(p)'
  BY <1>15, <1>0 DEF AppendAssistant, PutRow, Goto, disk, Route, Toward, Clearing, Emptied, OwnFiles
<1>16. ASSUME RememberNothing(p)
       PROVE  Clearing(p)'
  BY <1>16, <1>0 DEF RememberNothing, EndOfClear, Goto, disk, Route, Toward, Clearing, Emptied, OwnFiles
<1>17. ASSUME Remember(p)
       PROVE  Clearing(p)'
  BY <1>17, <1>0 DEF Remember, EndOfClear, PutRow, Goto, disk, Route, Toward, Clearing, Emptied, OwnFiles
<1>18. ASSUME ListFiles(p)
       PROVE  Clearing(p)'
  <2>1. todo'[p] = Listed(KeyOf[p]) /\ pc'[p] = "archive" /\ files' = files
    BY <1>18, <1>0 DEF ListFiles, Goto, disk
  <2> QED BY <2>1, ListedAreOwn DEF Clearing, OwnFiles, Toward
<1>19. ASSUME Archive(p)
       PROVE  Clearing(p)'
  <2>1. op'[p] = op[p] /\ then'[p] = then[p] /\ pc[p] = "archive"
    BY <1>19 DEF Archive
  <2>2. CASE todo[p] = {} /\ pc'[p] = "counts" /\ UNCHANGED files
    BY <2>1, <2>2 DEF Clearing, Emptied, OwnFiles
  <2>3. CASE pc'[p] = "idle" /\ UNCHANGED files
    BY <2>3 DEF Clearing, Emptied, OwnFiles, Toward
  <2>4. CASE UNCHANGED pc /\ \E f \in todo[p] : RemoveFile(f) /\ todo' = [todo EXCEPT ![p] = @ \ {f}]
    <3>1. PICK f \in todo[p] : files' = [files EXCEPT ![f] = <<>>] /\ todo'[p] = todo[p] \ {f}
      BY <1>0, <2>4 DEF RemoveFile
    <3>2. \A g \in Files : files'[g] = IF g = f THEN <<>> ELSE files[g]
      BY <3>1, <1>0
    <3> QED BY <2>1, <2>4, <3>1, <3>2 DEF Clearing, Emptied, OwnFiles, Toward
  <2> QED BY <1>19, <1>0, <2>2, <2>3, <2>4 DEF Archive, Goto, First
<1>20. ASSUME ResetCounts(p)
       PROVE  Clearing(p)'
  BY <1>20, <1>0 DEF ResetCounts, Save, Goto, disk, Route, Toward, Clearing, Emptied, OwnFiles
<1>21. ASSUME ResetSession(p)
       PROVE  Clearing(p)'
  BY <1>21, <1>0 DEF ResetSession, Goto, disk, Route, Toward, Clearing, Emptied, OwnFiles
<1>22. ASSUME Newline(p)
       PROVE  Clearing(p)'
  BY <1>22, <1>0 DEF Newline, Goto, disk, Route, Toward, Clearing, Emptied, OwnFiles
<1>23. ASSUME Truncate(p)
       PROVE  Clearing(p)'
  BY <1>23, <1>0 DEF Truncate, Goto, disk, Route, Toward, Clearing, Emptied, OwnFiles
<1>24. ASSUME Write(p)
       PROVE  Clearing(p)'
  BY <1>24, <1>0 DEF Write, Goto, disk, Route, Toward, Clearing, Emptied, OwnFiles
<1>25. ASSUME Crash(p)
       PROVE  Clearing(p)'
  BY <1>25, <1>0 DEF Crash, Goto, disk, Route, Toward, Clearing, Emptied, OwnFiles
<1> QED
  BY <1>1, <1>2, <1>3, <1>4, <1>5, <1>6, <1>7, <1>8, <1>9, <1>10, <1>11, <1>12, <1>13, <1>14, <1>15, <1>16, <1>17, <1>18, <1>19, <1>20, <1>21, <1>22, <1>23, <1>24, <1>25
  DEF ActsOf, Turn, Clear

\* Every row of the session, on disk or cached, is younger than its last full
\* clear.
FreshRow(k, r) == r.kind # "context" /\ r.id \in Nat /\ r.id >= cleared[k]
FreshRows(k, rows) == \A i \in DOMAIN rows : FreshRow(k, rows[i])
FreshCache(k, c) == \A f \in DOMAIN c : FreshRows(k, c[f].rows)
Renewed(p) ==
  /\ cleared[KeyOf[p]] <= said
  /\ \A f \in OwnFiles(p) : FreshRows(KeyOf[p], files[f])
  /\ FreshCache(KeyOf[p], cache[p])

LEMMA FreshReads ==
  ASSUME Logs, Memory, NamesDiffer, NEW p \in Procs, Renewed(p), NEW bad
  PROVE  FreshCache(KeyOf[p], CaughtUp(KeyOf[p], cache[p], bad))
<1> DEFINE k == KeyOf[p]
           c == CaughtUp(k, cache[p], bad)
<1>1. CacheFor(cache[p], said) /\ \A f \in Listed(k) : f \in Files /\ f \in OwnFiles(p)
  BY ListedAreOwn DEF Memory, OwnFiles
<1>2. ASSUME NEW f \in Listed(k) PROVE FreshRows(k, c[f].rows)
  <2> DEFINE o == OfFile(cache[p], f)
  <2>1. ReadFor(o, said) /\ FreshRows(k, files[f])
    BY <1>1, OfFileReads DEF Renewed
  <2>2. FreshRows(k, o.rows)
    BY <1>1 DEF OfFile, Uncached, FreshRows, Renewed, FreshCache
  <2>3. FreshRows(k, Rewound(o, files[f]).rows)
    BY <2>2 DEF Rewound, Uncached, FreshRows
  <2>4. FreshRows(k, CatchUp(o, files[f]).rows)
    <3> HIDE DEF o
    <3>1. /\ ReadFor(Rewound(o, files[f]), said) /\ files[f] \in Seq(Row)
          /\ \A i \in DOMAIN CatchUp(o, files[f]).rows :
               CatchUp(o, files[f]).rows[i] =
                 IF i > Rewound(o, files[f]).offset THEN files[f][i]
                 ELSE Rewound(o, files[f]).rows[i]
          /\ DOMAIN CatchUp(o, files[f]).rows =
               DOMAIN Rewound(o, files[f]).rows
                 \cup ((Rewound(o, files[f]).offset + 1)..Len(files[f]))
      BY <1>1, <2>1, CatchUpReads DEF Logs
    <3> DEFINE b == Rewound(o, files[f])
               w == CatchUp(o, files[f]).rows
    <3>2. b.offset \in Nat /\ DOMAIN b.rows \subseteq 1..b.offset
      BY <3>1 DEF ReadFor
    <3> HIDE DEF b, w
    <3>3. ASSUME NEW i \in DOMAIN w PROVE FreshRow(k, w[i])
      <4>1. CASE i > b.offset
        <5>1. i \in DOMAIN files[f] /\ w[i] = files[f][i]
          BY <3>1, <3>2, <3>3, <4>1 DEF b, w
        <5> QED BY <5>1, <2>1 DEF FreshRows
      <4>2. CASE ~(i > b.offset)
        <5>1. i \in DOMAIN b.rows /\ w[i] = b.rows[i]
          BY <3>1, <3>2, <3>3, <4>2 DEF b, w
        <5> QED BY <5>1, <2>3 DEF FreshRows, b
      <4> QED BY <4>1, <4>2
    <3> QED BY <3>3 DEF FreshRows, w
  <2>5. c[f] \in {CatchUp(o, files[f]), Rewound(o, files[f]), o}
    BY DEF CaughtUp
  <2> HIDE DEF o, c
  <2> QED BY <2>2, <2>3, <2>4, <2>5
<1>3. DOMAIN c = Listed(k)
  BY <1>1, CaughtUpReads
<1> HIDE DEF c
<1> QED BY <1>2, <1>3 DEF FreshCache, c

LEMMA FreshPut ==
  ASSUME Logs, NEW p \in Procs, Renewed(p), NEW kind \in {"message", "compaction", "cleared"},
         NEW l, PutRow(p, kind, l), UNCHANGED <<cache, cleared>>, cleared \in [Keys -> Nat]
  PROVE  Renewed(p)'
<1> DEFINE f == Today(p)
           row == [kind |-> kind, id |-> said, glued |-> f \in ragged]
<1>1. /\ row \in Row /\ f \in Files
      /\ files'[f] \in Seq(Row) /\ Len(files'[f]) = Len(files[f]) + 1
      /\ files'[f][Len(files[f]) + 1] = row
      /\ \A i \in DOMAIN files[f] : files'[f][i] = files[f][i]
      /\ \A g \in Files \ {f} : files'[g] = files[g]
      /\ said' = said + 1
  BY PutAppends
<1>2. said \in Nat /\ cleared[KeyOf[p]] \in Nat /\ cleared[KeyOf[p]] <= said
      /\ files[f] \in Seq(Row)
  BY <1>1, SessionAssumption DEF Renewed, Logs
<1>3. row.kind # "context" /\ row.id = said
  OBVIOUS
<1>4. FreshRow(KeyOf[p], row)
  <2> HIDE DEF row
  <2> QED BY <1>2, <1>3 DEF FreshRow
<1> HIDE DEF f, row
<1>5. \A g \in OwnFiles(p) : FreshRows(KeyOf[p], files[g])
  BY DEF Renewed
<1>6. ASSUME NEW g \in OwnFiles(p) PROVE FreshRows(KeyOf[p], files'[g])
  <2>1. CASE g = f
    <3>1. \A i \in DOMAIN files'[f] : i \in DOMAIN files[f] \/ i = Len(files[f]) + 1
      BY <1>1, <1>2
    <3> QED BY <2>1, <3>1, <1>1, <1>4, <1>5 DEF FreshRows
  <2>2. CASE g # f
    BY <2>2, <1>1, <1>5 DEF OwnFiles
  <2> QED BY <2>1, <2>2
<1>7. cleared[KeyOf[p]] <= said'
  BY <1>1, <1>2
<1>8. \A k, r : FreshRows(k, r) => FreshRows(k, r)'
  BY DEF FreshRows, FreshRow
<1> QED BY <1>6, <1>7 DEF Renewed, FreshCache, FreshRows, FreshRow, OwnFiles

LEMMA FreshStep ==
  ASSUME NamesDiffer, SessionTypes, NEW p \in Procs, Clearing(p), Renewed(p), ActsOf(p)
  PROVE  Renewed(p)'
<1>0. /\ p \in Actors /\ Route(op[p], stage[p], then[p], pc[p]) /\ KeyOf[p] \in Keys
      /\ pc = [a \in Actors |-> pc[a]] /\ then = [a \in Actors |-> then[a]]
      /\ op = [a \in Actors |-> op[a]] /\ stage = [q \in Procs |-> stage[q]]
      /\ history = [q \in Procs |-> history[q]] /\ cache = [q \in Procs |-> cache[q]]
      /\ todo \in [Procs -> SUBSET Files] /\ cleared \in [Keys -> Nat] /\ DOMAIN files = Files
      /\ Logs /\ Memory /\ said \in Nat
  BY SessionAssumption DEF SessionTypes, Routes, Memory, Tallies, Logs, Actors
<1>1. ASSUME NEW o \in SessionOps, Start(p, o)
      PROVE  Renewed(p)'
  <2>1. cache'[p] \in {cache[p], EmptyCache} /\ UNCHANGED <<files, cleared, said>>
    BY <1>1, <1>0 DEF Start, disk, observed
  <2> QED BY <2>1 DEF Renewed, FreshCache, FreshRows, FreshRow, OwnFiles, EmptyCache
<1>2. ASSUME EnsureSession(p)
      PROVE  Renewed(p)'
  <2>1. UNCHANGED <<files, cache, cleared, said>>
    BY <1>2 DEF EnsureSession, disk, observed
  <2> QED BY <2>1 DEF Renewed, FreshCache, FreshRows, FreshRow, OwnFiles
<1>3. ASSUME EnsureHeader(p)
      PROVE  Renewed(p)'
  <2>1. UNCHANGED <<files, cache, cleared, said>>
    BY <1>3 DEF EnsureHeader, disk, observed
  <2> QED BY <2>1 DEF Renewed, FreshCache, FreshRows, FreshRow, OwnFiles
<1>4. ASSUME ReadHistory(p)
      PROVE  Renewed(p)'
  <2>1. UNCHANGED <<files, said, cleared>>
    BY <1>4 DEF ReadHistory, disk, observed
  <2>2. FreshCache(KeyOf[p], cache'[p])
    <3>1. CASE \E bad \in SUBSET Listed(KeyOf[p]) :
                 cache' = [cache EXCEPT ![p] = CaughtUp(KeyOf[p], cache[p], bad)]
      BY <1>0, <3>1, FreshReads
    <3>2. CASE cache' = [cache EXCEPT ![p] = [f \in Listed(KeyOf[p]) |->
                 [offset |-> ReadOn(p)[f].offset,
                  rows |-> Restrict(ReadOn(p)[f].rows,
                             {i \in DOMAIN ReadOn(p)[f].rows : <<f, i>> \in NowSeen(p)})]]]
      <4>1. FreshCache(KeyOf[p], ReadOn(p)) /\ DOMAIN ReadOn(p) = Listed(KeyOf[p])
        BY <1>0, FreshReads, ReadOnReads DEF ReadOn
      <4>2. \A f \in Listed(KeyOf[p]) : \A S \in SUBSET DOMAIN ReadOn(p)[f].rows :
              FreshRows(KeyOf[p], Restrict(ReadOn(p)[f].rows, S))
        BY <4>1 DEF FreshCache, FreshRows, Restrict
      <4>3. \A f \in Listed(KeyOf[p]) : FreshRows(KeyOf[p], Restrict(ReadOn(p)[f].rows,
              {i \in DOMAIN ReadOn(p)[f].rows : <<f, i>> \in NowSeen(p)}))
        <5> TAKE f \in Listed(KeyOf[p])
        <5> DEFINE S == {i \in DOMAIN ReadOn(p)[f].rows : <<f, i>> \in NowSeen(p)}
        <5>1. S \in SUBSET DOMAIN ReadOn(p)[f].rows
          OBVIOUS
        <5> HIDE DEF S
        <5>2. FreshRows(KeyOf[p], Restrict(ReadOn(p)[f].rows, S))
          BY <4>2, <5>1
        <5> QED BY <5>2 DEF S
      <4> DEFINE c == [f \in Listed(KeyOf[p]) |->
                 [offset |-> ReadOn(p)[f].offset,
                  rows |-> Restrict(ReadOn(p)[f].rows,
                             {i \in DOMAIN ReadOn(p)[f].rows : <<f, i>> \in NowSeen(p)})]]
      <4>4. \A f \in DOMAIN c : FreshRows(KeyOf[p], c[f].rows)
        BY <4>3
      <4>5. cache'[p] = c
        <5> HIDE DEF c
        <5>1. cache' = [cache EXCEPT ![p] = c]
          BY <3>2 DEF c
        <5> QED BY <1>0, <5>1
      <4> HIDE DEF c
      <4> QED BY <4>4, <4>5 DEF FreshCache
    <3> QED BY <1>4, <1>0, <3>1, <3>2, ReadingReads
  <2> QED BY <2>1, <2>2 DEF Renewed, FreshCache, FreshRows, FreshRow, OwnFiles
<1>5. ASSUME EarlyFlush(p)
      PROVE  Renewed(p)'
  <2>1. UNCHANGED <<files, cache, cleared, said>>
    BY <1>5 DEF EarlyFlush, disk, observed
  <2> QED BY <2>1 DEF Renewed, FreshCache, FreshRows, FreshRow, OwnFiles
<1>6. ASSUME Check(p)
      PROVE  Renewed(p)'
  <2>1. UNCHANGED <<files, cache, cleared, said>>
    BY <1>6 DEF Check, disk, observed
  <2> QED BY <2>1 DEF Renewed, FreshCache, FreshRows, FreshRow, OwnFiles
<1>7. ASSUME NEW ok \in BOOLEAN, FlushTurn(p, ok)
      PROVE  Renewed(p)'
  <2>1. UNCHANGED <<files, cache, cleared, said>>
    BY <1>7 DEF FlushTurn, disk, observed
  <2> QED BY <2>1 DEF Renewed, FreshCache, FreshRows, FreshRow, OwnFiles
<1>8. ASSUME MarkFlushed(p)
      PROVE  Renewed(p)'
  <2>1. UNCHANGED <<files, cache, cleared, said>>
    BY <1>8 DEF MarkFlushed, disk, observed
  <2> QED BY <2>1 DEF Renewed, FreshCache, FreshRows, FreshRow, OwnFiles
<1>9. ASSUME KeepAll(p)
      PROVE  Renewed(p)'
  <2>1. UNCHANGED <<files, cache, cleared, said>>
    BY <1>9 DEF KeepAll, disk, observed
  <2> QED BY <2>1 DEF Renewed, FreshCache, FreshRows, FreshRow, OwnFiles
<1>10. ASSUME Summarise(p)
       PROVE  Renewed(p)'
  <2>1. PutRow(p, "compaction", "count") /\ UNCHANGED <<cache, cleared>>
    BY <1>10 DEF Summarise, observed
  <2> QED BY <1>0, <2>1, FreshPut
<1>11. ASSUME CountCompaction(p)
       PROVE  Renewed(p)'
  <2>1. UNCHANGED <<files, cache, cleared, said>>
    BY <1>11 DEF CountCompaction, disk, observed
  <2> QED BY <2>1 DEF Renewed, FreshCache, FreshRows, FreshRow, OwnFiles
<1>12. ASSUME NEW remembers \in BOOLEAN, NEW over \in BOOLEAN,
              Budget(p, remembers, over)
       PROVE  Renewed(p)'
  <2>1. UNCHANGED <<files, cache, cleared, said>>
    BY <1>12 DEF Budget, disk, observed
  <2> QED BY <2>1 DEF Renewed, FreshCache, FreshRows, FreshRow, OwnFiles
<1>13. ASSUME AppendUser(p)
       PROVE  Renewed(p)'
  <2>1. PutRow(p, "message", "loop") /\ UNCHANGED <<cache, cleared>>
    BY <1>13 DEF AppendUser, observed
  <2> QED BY <1>0, <2>1, FreshPut
<1>14. ASSUME AgentLoopFails(p)
       PROVE  Renewed(p)'
  <2>1. UNCHANGED <<files, cache, cleared, said>>
    BY <1>14 DEF AgentLoopFails, disk, observed
  <2> QED BY <2>1 DEF Renewed, FreshCache, FreshRows, FreshRow, OwnFiles
<1>15. ASSUME AppendAssistant(p)
       PROVE  Renewed(p)'
  <2>1. PutRow(p, "message", "idle") /\ UNCHANGED <<cache, cleared>>
    BY <1>15 DEF AppendAssistant, observed
  <2> QED BY <1>0, <2>1, FreshPut
<1>16. ASSUME RememberNothing(p)
       PROVE  Renewed(p)'
  <2>1. UNCHANGED <<files, cache, cleared, said>>
    BY <1>16 DEF RememberNothing, disk, observed
  <2> QED BY <2>1 DEF Renewed, FreshCache, FreshRows, FreshRow, OwnFiles
<1>17. ASSUME Remember(p)
       PROVE  Renewed(p)'
  <2>1. PutRow(p, "cleared", EndOfClear(op[p])) /\ UNCHANGED <<cache, cleared>>
    BY <1>17 DEF Remember, observed
  <2> QED BY <1>0, <2>1, FreshPut
<1>18. ASSUME ListFiles(p)
       PROVE  Renewed(p)'
  <2>1. UNCHANGED <<files, cache, cleared, said>>
    BY <1>18 DEF ListFiles, disk, observed
  <2> QED BY <2>1 DEF Renewed, FreshCache, FreshRows, FreshRow, OwnFiles
<1>19. ASSUME Archive(p)
       PROVE  Renewed(p)'
  <2>1. UNCHANGED <<cache, cleared, said>>
    BY <1>19 DEF Archive, observed
  <2>2. \A f \in Files : files'[f] = files[f] \/ files'[f] = <<>>
    BY <1>19, <1>0 DEF Archive, RemoveFile
  <2> QED BY <2>1, <2>2 DEF Renewed, FreshCache, FreshRows, FreshRow, OwnFiles
<1>20. ASSUME ResetCounts(p)
       PROVE  Renewed(p)'
  <2>1. UNCHANGED <<files, cache, cleared, said>>
    BY <1>20 DEF ResetCounts, disk, observed
  <2> QED BY <2>1 DEF Renewed, FreshCache, FreshRows, FreshRow, OwnFiles
<1>21. ASSUME ResetSession(p)
       PROVE  Renewed(p)'
  <2>1. cache'[p] = EmptyCache /\ UNCHANGED <<files, said>> /\ pc[p] = "reset"
        /\ cleared'[KeyOf[p]] = IF op[p] = "clear_full" THEN said ELSE cleared[KeyOf[p]]
    BY <1>21, <1>0 DEF ResetSession, disk
  <2>2. CASE op[p] = "clear_full"
    <3>1. \A f \in OwnFiles(p) : files[f] = <<>>
      BY <2>1, <2>2 DEF Clearing, Toward, Emptied
    <3> QED BY <1>0, <2>1, <2>2, <3>1 DEF Renewed, FreshCache, FreshRows, OwnFiles, EmptyCache
  <2>3. CASE op[p] # "clear_full"
    BY <2>1, <2>3 DEF Renewed, FreshCache, FreshRows, FreshRow, OwnFiles, EmptyCache
  <2> QED BY <2>2, <2>3
<1>22. ASSUME Newline(p)
       PROVE  Renewed(p)'
  <2>1. UNCHANGED <<files, cache, cleared, said>>
    BY <1>22 DEF Newline, disk, observed
  <2> QED BY <2>1 DEF Renewed, FreshCache, FreshRows, FreshRow, OwnFiles
<1>23. ASSUME Truncate(p)
       PROVE  Renewed(p)'
  <2>1. UNCHANGED <<files, cache, cleared, said>>
    BY <1>23 DEF Truncate, disk, observed
  <2> QED BY <2>1 DEF Renewed, FreshCache, FreshRows, FreshRow, OwnFiles
<1>24. ASSUME Write(p)
       PROVE  Renewed(p)'
  <2>1. UNCHANGED <<files, cache, cleared, said>>
    BY <1>24 DEF Write, disk, observed
  <2> QED BY <2>1 DEF Renewed, FreshCache, FreshRows, FreshRow, OwnFiles
<1>25. ASSUME Crash(p)
       PROVE  Renewed(p)'
  <2>1. cache'[p] \in {cache[p], EmptyCache} /\ UNCHANGED <<files, cleared, said>>
    BY <1>25, <1>0 DEF Crash, disk, observed
  <2> QED BY <2>1 DEF Renewed, FreshCache, FreshRows, FreshRow, OwnFiles, EmptyCache
<1> QED
  BY <1>1, <1>2, <1>3, <1>4, <1>5, <1>6, <1>7, <1>8, <1>9, <1>10, <1>11, <1>12, <1>13, <1>14, <1>15, <1>16, <1>17, <1>18, <1>19, <1>20, <1>21, <1>22, <1>23, <1>24, <1>25
  DEF ActsOf, Turn, Clear

\* What an operation has read or made of it.  The memory context comes last, in
\* the budget check, and no other history has one.
PlainPoint(t, c, s) ==
  \/ Toward(t, c) \in {"early", "check", "flush", "mark", "budget"}
  \/ Toward(t, c) \in {"summarise", "count"} /\ s # "budget"
Given(p) ==
  pc[p] # "idle" =>
    /\ Fits(KeyOf[p], history[p]) /\ NoneBefore(cleared[KeyOf[p]], history[p])
    /\ PlainPoint(then[p], pc[p], stage[p]) => WithoutContext(history[p])

LEMMA GivenStep ==
  ASSUME NamesDiffer, SessionTypes, NEW p \in Procs, Renewed(p), Given(p), ActsOf(p)
  PROVE  Given(p)'
<1>0. /\ p \in Actors /\ Route(op[p], stage[p], then[p], pc[p]) /\ KeyOf[p] \in Keys
      /\ pc = [a \in Actors |-> pc[a]] /\ then = [a \in Actors |-> then[a]]
      /\ op = [a \in Actors |-> op[a]] /\ stage = [q \in Procs |-> stage[q]]
      /\ history = [q \in Procs |-> history[q]] /\ cache = [q \in Procs |-> cache[q]]
      /\ todo \in [Procs -> SUBSET Files] /\ cleared \in [Keys -> Nat] /\ DOMAIN files = Files
      /\ Logs /\ Memory /\ said \in Nat
  BY SessionAssumption DEF SessionTypes, Routes, Memory, Tallies, Logs, Actors
<1>1. ASSUME NEW o \in SessionOps, Start(p, o)
      PROVE  Given(p)'
  <2>1. history'[p] = <<>>
    BY <1>1, <1>0 DEF Start
  <2> QED BY <2>1, NothingFits DEF Given
<1>2. ASSUME EnsureSession(p)
      PROVE  Given(p)'
  <2>1. pc[p] # "idle" /\ UNCHANGED <<history, cleared>>
    BY <1>2 DEF EnsureSession, observed
  <2>2. PlainPoint(then'[p], pc'[p], stage'[p]) => PlainPoint(then[p], pc[p], stage[p])
    BY <1>2, <1>0 DEF EnsureSession, Save, Goto, Route, Toward, PlainPoint
  <2> QED BY <2>1, <2>2 DEF Given
<1>3. ASSUME EnsureHeader(p)
      PROVE  Given(p)'
  <2>1. pc[p] # "idle" /\ UNCHANGED <<history, cleared>>
    BY <1>3 DEF EnsureHeader, observed
  <2>2. PlainPoint(then'[p], pc'[p], stage'[p]) => PlainPoint(then[p], pc[p], stage[p])
    BY <1>3, <1>0 DEF EnsureHeader, Goto, Route, Toward, PlainPoint
  <2> QED BY <2>1, <2>2 DEF Given
<1>4. ASSUME ReadHistory(p)
      PROVE  Given(p)'
  <2>1. /\ pc[p] = "read" /\ op'[p] = op[p] /\ then'[p] = then[p]
        /\ UNCHANGED cleared
    BY <1>4 DEF ReadHistory, observed
  <2>2. CASE UNCHANGED history /\ Goto(p, AfterFailedRead(op[p]))
    <3>1. pc'[p] \in {"idle", "reset", "list"}
      BY <1>0, <2>2 DEF Goto, Route, AfterFailedRead
    <3>2. ~PlainPoint(then'[p], pc'[p], stage'[p])
      BY <3>1 DEF PlainPoint, Toward
    <3> QED BY <2>1, <2>2, <3>2 DEF Given
  <2>3. CASE history' = [history EXCEPT ![p] = Restrict(AllRows(p), NowSeen(p))]
    <3>1. /\ HistoryFor(AllRows(p), said)
          /\ \A x \in DOMAIN AllRows(p) : /\ AllRows(p)[x] = ReadOn(p)[x[1]].rows[x[2]]
                                          /\ x[1] \in DOMAIN ReadOn(p)
                                          /\ x[2] \in DOMAIN ReadOn(p)[x[1]].rows
      BY <1>0, ReadOnReads
    <3>2. FreshCache(KeyOf[p], ReadOn(p))
      BY <1>0, FreshReads DEF ReadOn
    <3>3. \A x \in DOMAIN AllRows(p) : FreshRow(KeyOf[p], AllRows(p)[x])
      BY <3>1, <3>2 DEF FreshCache, FreshRows
    <3>4. WithoutContext(AllRows(p)) /\ NoneBefore(cleared[KeyOf[p]], AllRows(p))
      BY <3>3 DEF WithoutContext, NoneBefore, FreshRow
    <3>5. LET g == Restrict(AllRows(p), NowSeen(p))
          IN Fits(KeyOf[p], g) /\ WithoutContext(g) /\ NoneBefore(cleared[KeyOf[p]], g)
      BY <1>0, <3>1, <3>4, SeenIsFit DEF NowSeen
    <3>6. history'[p] = Restrict(AllRows(p), NowSeen(p))
      BY <1>0, <2>3
    <3> QED BY <2>1, <3>5, <3>6 DEF Given
  <2> QED BY <1>4, <1>0, <2>2, <2>3, ReadingReads
<1>5. ASSUME EarlyFlush(p)
      PROVE  Given(p)'
  <2>1. pc[p] # "idle" /\ UNCHANGED <<history, cleared>>
    BY <1>5 DEF EarlyFlush, observed
  <2>2. PlainPoint(then'[p], pc'[p], stage'[p]) => PlainPoint(then[p], pc[p], stage[p])
    BY <1>5, <1>0 DEF EarlyFlush, FlushThen, Goto, Route, Toward, PlainPoint
  <2> QED BY <2>1, <2>2 DEF Given
<1>6. ASSUME Check(p)
      PROVE  Given(p)'
  <2>1. pc[p] # "idle" /\ UNCHANGED <<history, cleared>>
    BY <1>6 DEF Check, observed
  <2>2. PlainPoint(then'[p], pc'[p], stage'[p]) => PlainPoint(then[p], pc[p], stage[p])
    BY <1>6, <1>0 DEF Check, FlushThen, Goto, Route, Toward, PlainPoint
  <2> QED BY <2>1, <2>2 DEF Given
<1>7. ASSUME NEW ok \in BOOLEAN, FlushTurn(p, ok)
      PROVE  Given(p)'
  <2>1. pc[p] # "idle" /\ UNCHANGED <<history, cleared>>
    BY <1>7 DEF FlushTurn, observed
  <2>2. PlainPoint(then'[p], pc'[p], stage'[p]) => PlainPoint(then[p], pc[p], stage[p])
    BY <1>7, <1>0 DEF FlushTurn, Goto, Route, Toward, PlainPoint
  <2> QED BY <2>1, <2>2 DEF Given
<1>8. ASSUME MarkFlushed(p)
      PROVE  Given(p)'
  <2>1. pc[p] # "idle" /\ UNCHANGED <<history, cleared>>
    BY <1>8 DEF MarkFlushed, observed
  <2>2. PlainPoint(then'[p], pc'[p], stage'[p]) => PlainPoint(then[p], pc[p], stage[p])
    BY <1>8, <1>0 DEF MarkFlushed, Save, Goto, Route, Toward, PlainPoint
  <2> QED BY <2>1, <2>2 DEF Given
<1>9. ASSUME KeepAll(p)
      PROVE  Given(p)'
  <2>0. \/ op[p] = "compact" /\ AfterCompaction(p) = "idle"
        \/ op[p] = "turn" /\ stage[p] = "compact" /\ AfterCompaction(p) = "budget"
        \/ op[p] = "turn" /\ stage[p] = "budget" /\ AfterCompaction(p) = "user"
    <3>1. op[p] = "compact" \/ (op[p] = "turn" /\ stage[p] \in {"compact", "budget"})
      BY <1>9, <1>0 DEF KeepAll, Route, Toward
    <3> QED BY <3>1 DEF AfterCompaction
  <2>1. pc[p] # "idle" /\ UNCHANGED <<history, cleared>>
    BY <1>9 DEF KeepAll, observed
  <2>2. PlainPoint(then'[p], pc'[p], stage'[p]) => PlainPoint(then[p], pc[p], stage[p])
    BY <1>9, <1>0, <2>0 DEF KeepAll, Goto, Route, Toward, PlainPoint
  <2> QED BY <2>1, <2>2 DEF Given
<1>10. ASSUME Summarise(p)
       PROVE  Given(p)'
  <2>1. /\ pc[p] = "summarise" /\ stage'[p] = stage[p] /\ UNCHANGED cleared
        /\ history'[p] = Compacted(KeyOf[p], history[p]) /\ Size(history[p]) > KeepRecent
        /\ pc'[p] = "newline" /\ then'[p] = "count"
    BY <1>10, <1>0 DEF Summarise, PutRow, Goto
  <2>2. HistoryFor(history[p], said) /\ Fits(KeyOf[p], history[p])
        /\ NoneBefore(cleared[KeyOf[p]], history[p])
        /\ (stage[p] # "budget" => WithoutContext(history[p]))
    BY <1>0, <2>1 DEF Memory, Given, PlainPoint, Toward
  <2>3. /\ Fits(KeyOf[p], history'[p]) /\ NoneBefore(cleared[KeyOf[p]], history'[p])
        /\ (WithoutContext(history[p]) => WithoutContext(history'[p]))
    BY <1>0, <2>1, <2>2, CompactedFits
  <2>4. PlainPoint(then'[p], pc'[p], stage'[p]) => stage[p] # "budget"
    BY <2>1 DEF PlainPoint, Toward
  <2> QED BY <2>1, <2>2, <2>3, <2>4 DEF Given
<1>11. ASSUME CountCompaction(p)
       PROVE  Given(p)'
  <2>0. \/ op[p] = "compact" /\ AfterCompaction(p) = "idle"
        \/ op[p] = "turn" /\ stage[p] = "compact" /\ AfterCompaction(p) = "budget"
        \/ op[p] = "turn" /\ stage[p] = "budget" /\ AfterCompaction(p) = "user"
    <3>1. op[p] = "compact" \/ (op[p] = "turn" /\ stage[p] \in {"compact", "budget"})
      BY <1>11, <1>0 DEF CountCompaction, Route, Toward
    <3> QED BY <3>1 DEF AfterCompaction
  <2>1. pc[p] # "idle" /\ UNCHANGED <<history, cleared>>
    BY <1>11 DEF CountCompaction, observed
  <2>2. PlainPoint(then'[p], pc'[p], stage'[p]) => PlainPoint(then[p], pc[p], stage[p])
    BY <1>11, <1>0, <2>0 DEF CountCompaction, Save, Goto, Route, Toward, PlainPoint
  <2> QED BY <2>1, <2>2 DEF Given
<1>12. ASSUME NEW remembers \in BOOLEAN, NEW over \in BOOLEAN,
              Budget(p, remembers, over)
       PROVE  Given(p)'
  <2> DEFINE h == IF remembers THEN WithContext(KeyOf[p], history[p]) ELSE history[p]
  <2>1. pc[p] = "budget" /\ history' = [history EXCEPT ![p] = h] /\ UNCHANGED <<cleared, then>>
    BY <1>12 DEF Budget, observed
  <2>2. \/ pc'[p] = "summarise" /\ stage'[p] = "budget"
        \/ pc'[p] = "user"
    BY <1>12, <1>0 DEF Budget, Goto
  <2>3. ~PlainPoint(then'[p], pc'[p], stage'[p])
    BY <2>2 DEF PlainPoint, Toward
  <2>4. Fits(KeyOf[p], history[p]) /\ NoneBefore(cleared[KeyOf[p]], history[p])
        /\ WithoutContext(history[p]) /\ HistoryFor(history[p], said)
    BY <1>0, <2>1 DEF Given, Memory, PlainPoint, Toward
  <2>5. Fits(KeyOf[p], h) /\ NoneBefore(cleared[KeyOf[p]], h)
    BY <1>0, <2>4, ContextFits
  <2> HIDE DEF h
  <2>6. history'[p] = h
    BY <1>0, <2>1
  <2> QED BY <2>1, <2>3, <2>5, <2>6 DEF Given
<1>13. ASSUME AppendUser(p)
       PROVE  Given(p)'
  <2>1. pc[p] # "idle" /\ UNCHANGED <<history, cleared>>
    BY <1>13 DEF AppendUser, observed
  <2>2. PlainPoint(then'[p], pc'[p], stage'[p]) => PlainPoint(then[p], pc[p], stage[p])
    BY <1>13, <1>0 DEF AppendUser, PutRow, Goto, Route, Toward, PlainPoint
  <2> QED BY <2>1, <2>2 DEF Given
<1>14. ASSUME AgentLoopFails(p)
       PROVE  Given(p)'
  <2>1. pc[p] # "idle" /\ UNCHANGED <<history, cleared>>
    BY <1>14 DEF AgentLoopFails, observed
  <2>2. PlainPoint(then'[p], pc'[p], stage'[p]) => PlainPoint(then[p], pc[p], stage[p])
    BY <1>14, <1>0 DEF AgentLoopFails, Goto, Route, Toward, PlainPoint
  <2> QED BY <2>1, <2>2 DEF Given
<1>15. ASSUME AppendAssistant(p)
       PROVE  Given(p)'
  <2>1. pc[p] # "idle" /\ UNCHANGED <<history, cleared>>
    BY <1>15 DEF AppendAssistant, observed
  <2>2. PlainPoint(then'[p], pc'[p], stage'[p]) => PlainPoint(then[p], pc[p], stage[p])
    BY <1>15, <1>0 DEF AppendAssistant, PutRow, Goto, Route, Toward, PlainPoint
  <2> QED BY <2>1, <2>2 DEF Given
<1>16. ASSUME RememberNothing(p)
       PROVE  Given(p)'
  <2>1. pc[p] # "idle" /\ UNCHANGED <<history, cleared>>
    BY <1>16 DEF RememberNothing, observed
  <2>2. PlainPoint(then'[p], pc'[p], stage'[p]) => PlainPoint(then[p], pc[p], stage[p])
    BY <1>16, <1>0 DEF RememberNothing, EndOfClear, Goto, Route, Toward, PlainPoint
  <2> QED BY <2>1, <2>2 DEF Given
<1>17. ASSUME Remember(p)
       PROVE  Given(p)'
  <2>1. pc[p] # "idle" /\ UNCHANGED <<history, cleared>>
    BY <1>17 DEF Remember, observed
  <2>2. PlainPoint(then'[p], pc'[p], stage'[p]) => PlainPoint(then[p], pc[p], stage[p])
    BY <1>17, <1>0 DEF Remember, EndOfClear, PutRow, Goto, Route, Toward, PlainPoint
  <2> QED BY <2>1, <2>2 DEF Given
<1>18. ASSUME ListFiles(p)
       PROVE  Given(p)'
  <2>1. pc[p] # "idle" /\ UNCHANGED <<history, cleared>>
    BY <1>18 DEF ListFiles, observed
  <2>2. PlainPoint(then'[p], pc'[p], stage'[p]) => PlainPoint(then[p], pc[p], stage[p])
    BY <1>18, <1>0 DEF ListFiles, Goto, Route, Toward, PlainPoint
  <2> QED BY <2>1, <2>2 DEF Given
<1>19. ASSUME Archive(p)
       PROVE  Given(p)'
  <2>1. pc[p] # "idle" /\ UNCHANGED <<history, cleared>>
    BY <1>19 DEF Archive, observed
  <2>2. PlainPoint(then'[p], pc'[p], stage'[p]) => PlainPoint(then[p], pc[p], stage[p])
    BY <1>19, <1>0 DEF Archive, RemoveFile, Goto, Route, Toward, PlainPoint
  <2> QED BY <2>1, <2>2 DEF Given
<1>20. ASSUME ResetCounts(p)
       PROVE  Given(p)'
  <2>1. pc[p] # "idle" /\ UNCHANGED <<history, cleared>>
    BY <1>20 DEF ResetCounts, observed
  <2>2. PlainPoint(then'[p], pc'[p], stage'[p]) => PlainPoint(then[p], pc[p], stage[p])
    BY <1>20, <1>0 DEF ResetCounts, Save, Goto, Route, Toward, PlainPoint
  <2> QED BY <2>1, <2>2 DEF Given
<1>21. ASSUME ResetSession(p)
       PROVE  Given(p)'
  <2>1. pc'[p] = "idle"
    BY <1>21, <1>0 DEF ResetSession, Goto
  <2> QED BY <2>1 DEF Given
<1>22. ASSUME Newline(p)
       PROVE  Given(p)'
  <2>1. pc[p] # "idle" /\ UNCHANGED <<history, cleared>>
    BY <1>22 DEF Newline, observed
  <2>2. PlainPoint(then'[p], pc'[p], stage'[p]) => PlainPoint(then[p], pc[p], stage[p])
    BY <1>22, <1>0 DEF Newline, Goto, Route, Toward, PlainPoint
  <2> QED BY <2>1, <2>2 DEF Given
<1>23. ASSUME Truncate(p)
       PROVE  Given(p)'
  <2>1. pc[p] # "idle" /\ UNCHANGED <<history, cleared>>
    BY <1>23 DEF Truncate, observed
  <2>2. PlainPoint(then'[p], pc'[p], stage'[p]) => PlainPoint(then[p], pc[p], stage[p])
    BY <1>23, <1>0 DEF Truncate, Goto, Route, Toward, PlainPoint
  <2> QED BY <2>1, <2>2 DEF Given
<1>24. ASSUME Write(p)
       PROVE  Given(p)'
  <2>1. pc[p] # "idle" /\ UNCHANGED <<history, cleared>>
    BY <1>24 DEF Write, observed
  <2>2. PlainPoint(then'[p], pc'[p], stage'[p]) => PlainPoint(then[p], pc[p], stage[p])
    BY <1>24, <1>0 DEF Write, Goto, Route, Toward, PlainPoint
  <2> QED BY <2>1, <2>2 DEF Given
<1>25. ASSUME Crash(p)
       PROVE  Given(p)'
  <2>1. pc'[p] = "idle"
    BY <1>25, <1>0 DEF Crash, Goto
  <2> QED BY <2>1 DEF Given
<1> QED
  BY <1>1, <1>2, <1>3, <1>4, <1>5, <1>6, <1>7, <1>8, <1>9, <1>10, <1>11, <1>12, <1>13, <1>14, <1>15, <1>16, <1>17, <1>18, <1>19, <1>20, <1>21, <1>22, <1>23, <1>24, <1>25
  DEF ActsOf, Turn, Clear

\* Under these hypotheses every agent loop is given a fitting history.
Fit(p) == Clearing(p) /\ Renewed(p) /\ Given(p)

LEMMA FitKept ==
  ASSUME SessionTypes, NEW p \in Procs, Fit(p), Kept(p)
  PROVE  Fit(p)'
<1>1. \A f \in OwnFiles(p) : files'[f] = files[f] \/ files'[f] = <<>>
  BY DEF Kept
<1>2. Clearing(p)'
  BY <1>1 DEF Fit, Clearing, Emptied, Kept, OwnFiles
<1>3. Renewed(p)'
  <2>1. cleared[KeyOf[p]] <= said' /\ cleared'[KeyOf[p]] = cleared[KeyOf[p]]
    <3>1. cleared[KeyOf[p]] \in Nat /\ said \in Nat
      BY SessionAssumption DEF SessionTypes, Tallies, Logs
    <3> QED BY <3>1 DEF Fit, Renewed, Kept
  <2>2. cache'[p] = cache[p]
    BY DEF Kept
  <2> QED BY <1>1, <2>1, <2>2 DEF Fit, Renewed, FreshCache, FreshRows, FreshRow, OwnFiles
<1>4. Given(p)'
  BY DEF Fit, Given, Kept
<1> QED BY <1>2, <1>3, <1>4 DEF Fit

\* An agent loop gets at most a window of messages, a summary and the memory
\* context, and nothing from before the session's last full clear, if no
\* session's name extends another one's and each session has one process.
THEOREM HistoriesAreFit == NamesDiffer /\ KeysDiffer => (SessionSpec => []HistoryIsFit)
<1> SUFFICES ASSUME NamesDiffer, KeysDiffer PROVE SessionSpec => []HistoryIsFit
  OBVIOUS
<1> DEFINE Inv == SessionTypes /\ ArchivesOwn /\ \A p \in Procs : Fit(p)
<1>1. SessionInit => Inv
  <2> SUFFICES ASSUME SessionInit PROVE Inv
    OBVIOUS
  <2>1. ASSUME NEW p \in Procs PROVE Fit(p)
    <3>1. /\ pc[p] = "idle" /\ op[p] = "turn" /\ cache[p] = EmptyCache /\ cleared[KeyOf[p]] = 0
          /\ said = 1 /\ \A f \in OwnFiles(p) : files[f] = <<>>
      BY SessionAssumption DEF SessionInit, Actors, OwnFiles
    <3> QED BY <3>1 DEF Fit, Clearing, Renewed, FreshCache, FreshRows, Given, EmptyCache
  <2> QED BY <2>1, TypesStart, SessionAssumption DEF SessionInit, ArchivesOwn, Actors
<1>2. Inv /\ [SessionNext]_session => Inv'
  <2> SUFFICES ASSUME Inv, SessionNext \/ UNCHANGED session PROVE Inv'
    OBVIOUS
  <2>1. ASSUME NEW p \in Procs PROVE Fit(p)'
    <3>1. CASE ActsOf(p)
      BY <3>1, ClearingStep, FreshStep, GivenStep DEF Fit
    <3>2. CASE ~ActsOf(p)
      BY <3>2, OthersKeep, FitKept
    <3> QED BY <3>1, <3>2
  <2> QED BY <2>1, TypesStep, ArchivesOwnStep
<1>3. Inv => HistoryIsFit
  <2> SUFFICES ASSUME Inv, NEW p \in Procs, pc[p] = "loop"
               PROVE  LET h == history[p]
                          messages == {x \in DOMAIN h : IsMessage(h[x])}
                      IN /\ Window > 0 => Cardinality(messages) <= Window /\ Size(h) <= Window + 2
                         /\ \A x \in messages : h[x].id >= cleared[KeyOf[p]]
    BY DEF HistoryIsFit
  <2>1. Fits(KeyOf[p], history[p]) /\ NoneBefore(cleared[KeyOf[p]], history[p])
        /\ HistoryFor(history[p], said) /\ said \in Nat
    BY DEF Fit, Given, SessionTypes, Memory, Logs
  <2>2. Window > 0 => Size(history[p]) <= Window + 2
    BY <2>1, FitSize
  <2> QED BY <2>1, <2>2 DEF Fits, NoneBefore
<1> QED BY <1>1, <1>2, <1>3, PTL DEF SessionSpec

-----------------------------------------------------------------------------
(* ChatSession: a cache is faithful when it holds what the files hold and  *)
(* what it has dropped is covered by what it holds.                        *)

Disk == [x \in Spots |-> files[x[1]][x[2]]]
Held(c) == {x \in Spots : x[1] \in DOMAIN c /\ x[2] \in DOMAIN c[x[1]].rows}
FaithfulTo(k, D, f, r) ==
  /\ r.offset <= Len(files[f])
  /\ \A i \in DOMAIN r.rows : r.rows[i] = files[f][i]
  /\ \A i \in 1..r.offset : i \in DOMAIN r.rows \/ Covered(k, Disk, D, <<f, i>>)
Faithful(k, c) ==
  \A f \in DOMAIN c : f \in Listed(k) /\ FaithfulTo(k, Held(c), f, c[f])

LEMMA HeldIsFinite ==
  ASSUME Logs, NEW c, CacheFor(c, said)
  PROVE  IsFiniteSet(Held(c)) /\ Held(c) \subseteq Spots
<1>1. Held(c) \subseteq Files \X (1..said)
  <2> SUFFICES ASSUME NEW x \in Held(c) PROVE x \in Files \X (1..said)
    OBVIOUS
  <2>1. x = <<x[1], x[2]>> /\ x[1] \in Files /\ x[2] \in DOMAIN c[x[1]].rows /\ x[1] \in DOMAIN c
    BY DEF Held, Spots
  <2>2. x[2] \in 1..c[x[1]].offset /\ c[x[1]].offset \in 0..(said - 1) /\ said \in Nat
    BY <2>1 DEF CacheFor, ReadFor, Logs
  <2>3. x[2] \in 1..said
    BY <2>2
  <2> QED BY <2>1, <2>3
<1>2. IsFiniteSet(Files \X (1..said))
  <2>1. said \in Nat
    BY DEF Logs
  <2>2. IsFiniteSet(1..said)
    BY <2>1, FS_Interval
  <2> QED BY <2>2, FilesAreFinite, FS_Product
<1> QED BY <1>1, <1>2, FS_Subset DEF Held

\* Whether a place is covered depends on the rows held and on its own.
LEMMA CoveredSame ==
  ASSUME NEW k, NEW G, NEW H, NEW D, \A y \in D : G[y] = H[y], NEW x, G[x] = H[x],
         Covered(k, G, D, x)
  PROVE  Covered(k, H, D, x)
<1>1. Summed(k, G, D, x) => Summed(k, H, D, x)
  BY DEF Summed
<1>2. Later(k, G, D, x) = Later(k, H, D, x)
  BY DEF Later
<1> QED BY <1>1, <1>2 DEF Covered, Outdated

\* Reading a file on keeps a cache faithful.
LEMMA CaughtUpIsFaithful ==
  ASSUME Logs, NEW k, NEW c, CacheFor(c, said), Faithful(k, c), NEW bad
  PROVE  /\ Faithful(k, CaughtUp(k, c, bad))
         /\ bad = {} => \A f \in Listed(k) : CaughtUp(k, c, bad)[f].offset = Len(files[f])
<1> DEFINE d == CaughtUp(k, c, bad)
<1>1. CacheFor(d, said) /\ DOMAIN d = Listed(k) /\ Listed(k) \subseteq Files
  BY CaughtUpReads DEF Listed
<1>2. ASSUME NEW f \in Listed(k)
      PROVE  /\ FaithfulTo(k, Held(c), f, OfFile(c, f)) /\ ReadFor(OfFile(c, f), said)
             /\ Rewound(OfFile(c, f), files[f]) = OfFile(c, f)
             /\ d[f] \in {CatchUp(OfFile(c, f), files[f]), OfFile(c, f)}
             /\ bad = {} => d[f] = CatchUp(OfFile(c, f), files[f])
  <2>1. Len(files[f]) \in Nat
    BY <1>1 DEF Logs
  <2>2. FaithfulTo(k, Held(c), f, Uncached)
    BY <2>1 DEF FaithfulTo, Uncached
  <2>3. FaithfulTo(k, Held(c), f, OfFile(c, f)) /\ ReadFor(OfFile(c, f), said)
    BY <2>2, OfFileReads DEF Faithful, OfFile
  <2>4. OfFile(c, f).offset \in Nat /\ OfFile(c, f).offset <= Len(files[f])
    BY <2>3 DEF FaithfulTo, ReadFor
  <2>5. Rewound(OfFile(c, f), files[f]) = OfFile(c, f)
    BY <2>1, <2>4 DEF Rewound
  <2> QED BY <2>3, <2>5 DEF CaughtUp
<1>3. ASSUME NEW f \in Listed(k)
      PROVE  /\ DOMAIN OfFile(c, f).rows \subseteq DOMAIN d[f].rows
             /\ d[f].offset <= Len(files[f])
             /\ \A i \in DOMAIN d[f].rows : d[f].rows[i] = files[f][i]
             /\ \A i \in 1..d[f].offset : i \in DOMAIN d[f].rows
                                          \/ Covered(k, Disk, Held(c), <<f, i>>)
             /\ bad = {} => d[f].offset = Len(files[f])
  <2> DEFINE o == OfFile(c, f)
             w == CatchUp(o, files[f])
  <2>1. /\ FaithfulTo(k, Held(c), f, o) /\ ReadFor(o, said) /\ Rewound(o, files[f]) = o
        /\ d[f] \in {w, o} /\ (bad = {} => d[f] = w)
    BY <1>2
  <2> HIDE DEF o, d
  <2>2. /\ w.offset = Len(files[f])
        /\ \A i \in DOMAIN w.rows : w.rows[i] = IF i > o.offset THEN files[f][i] ELSE o.rows[i]
        /\ DOMAIN w.rows = DOMAIN o.rows \cup ((o.offset + 1)..Len(files[f]))
    <3>1. /\ CatchUp(o, files[f]).offset = Len(files[f])
          /\ \A i \in DOMAIN CatchUp(o, files[f]).rows :
               CatchUp(o, files[f]).rows[i] =
                 IF i > Rewound(o, files[f]).offset THEN files[f][i]
                 ELSE Rewound(o, files[f]).rows[i]
          /\ DOMAIN CatchUp(o, files[f]).rows =
               DOMAIN Rewound(o, files[f]).rows
                 \cup ((Rewound(o, files[f]).offset + 1)..Len(files[f]))
      <4> HIDE DEF w
      <4> QED BY <1>1, <2>1, CatchUpReads
    <3> QED BY <2>1, <3>1
  <2> HIDE DEF w
  <2>3. /\ o.offset \in Nat /\ DOMAIN o.rows \subseteq 1..o.offset /\ Len(files[f]) \in Nat
        /\ o.offset <= Len(files[f])
        /\ \A i \in DOMAIN o.rows : o.rows[i] = files[f][i]
        /\ \A i \in 1..o.offset : i \in DOMAIN o.rows \/ Covered(k, Disk, Held(c), <<f, i>>)
    BY <1>1, <2>1 DEF ReadFor, FaithfulTo, Logs
  <2>4. CASE d[f] = o
    BY <2>1, <2>2, <2>3, <2>4 DEF o
  <2>5. CASE d[f] = w
    <3>1. \A i \in DOMAIN w.rows : i \in 1..Len(files[f]) /\ w.rows[i] = files[f][i]
      BY <2>2, <2>3
    <3>2. \A i \in 1..w.offset : i \in DOMAIN w.rows \/ Covered(k, Disk, Held(c), <<f, i>>)
      BY <2>2, <2>3
    <3> QED BY <2>2, <2>3, <2>5, <3>1, <3>2 DEF o
  <2> QED BY <2>1, <2>4, <2>5
<1> HIDE DEF d
<1>4. Held(c) \subseteq Held(d)
  <2> SUFFICES ASSUME NEW x \in Held(c) PROVE x \in Held(d)
    OBVIOUS
  <2>1. x \in Spots /\ x[1] \in DOMAIN c /\ x[2] \in DOMAIN c[x[1]].rows
    BY DEF Held
  <2>2. x[1] \in Listed(k) /\ OfFile(c, x[1]) = c[x[1]]
    BY <2>1 DEF Faithful, OfFile
  <2> QED BY <2>1, <2>2, <1>1, <1>3 DEF Held
<1>5. IsFiniteSet(Held(d))
  BY <1>1, HeldIsFinite
<1>6. \A x : Covered(k, Disk, Held(c), x) => Covered(k, Disk, Held(d), x)
  BY <1>4, <1>5, CoveredGrows
<1>7. \A f \in Listed(k) : FaithfulTo(k, Held(d), f, d[f])
  BY <1>3, <1>6 DEF FaithfulTo
<1> QED BY <1>1, <1>3, <1>7 DEF Faithful, d

\* What stands in the files, and what a process with this cache reads.
AllSpots(k) == {x \in Spots : x[1] \in Listed(k) /\ x[2] \in DOMAIN files[x[1]]}

LEMMA StandingIsSeen ==
  ASSUME Logs, NEW k
  PROVE  /\ IsFiniteSet(AllSpots(k)) /\ Joined(k, files) = Restrict(Disk, AllSpots(k))
         /\ Standing(k) = Restrict(Disk, Seen(k, Disk, AllSpots(k)))
<1> DEFINE c == [f \in Listed(k) |-> [offset |-> Len(files[f]), rows |-> files[f]]]
           j == Joined(k, [f \in Listed(k) |-> c[f].rows])
<1>1. \A f \in Listed(k) : /\ f \in Files /\ files[f] \in Seq(Row) /\ Len(files[f]) < said
                           /\ Len(files[f]) \in Nat /\ said \in Nat
  BY DEF Listed, Logs
<1>2. CacheFor(c, said) /\ DOMAIN c = Listed(k)
  <2>1. ASSUME NEW f \in Listed(k) PROVE ReadFor(c[f], said)
    <3>1. c[f] = [offset |-> Len(files[f]), rows |-> files[f]]
      OBVIOUS
    <3>2. Rows(files[f]) /\ DOMAIN files[f] = 1..Len(files[f])
      BY <1>1 DEF Rows
    <3>3. Len(files[f]) \in 0..(said - 1)
      BY <1>1
    <3> HIDE DEF c
    <3> QED BY <3>1, <3>2, <3>3 DEF ReadFor
  <2>2. DOMAIN c = Listed(k) /\ c = [f \in DOMAIN c |-> c[f]]
    OBVIOUS
  <2> HIDE DEF c
  <2> QED BY <1>1, <2>1, <2>2 DEF CacheFor
<1>3. Joined(k, files) = j
  BY DEF Joined
<1>4. /\ HistoryFor(j, said)
      /\ \A x : x \in DOMAIN j <=> /\ x \in Spots /\ x[1] \in Listed(k)
                                   /\ x[2] \in DOMAIN c[x[1]].rows
      /\ \A x \in DOMAIN j : j[x] = c[x[1]].rows[x[2]]
  <2> HIDE DEF c
  <2> QED BY <1>2, JoinedReads
<1>5. \A f \in Listed(k) : c[f].rows = files[f]
  OBVIOUS
<1> HIDE DEF c, j
<1>6. DOMAIN j = AllSpots(k) /\ \A x \in AllSpots(k) : j[x] = Disk[x]
  BY <1>4, <1>5 DEF AllSpots, Disk
<1>7. IsFiniteSet(AllSpots(k)) /\ j = [x \in AllSpots(k) |-> j[x]]
  <2>1. IsFiniteSet(DOMAIN j) /\ Restrict(j, DOMAIN j) = j
    BY <1>4, HistoriesAreFinite DEF Logs
  <2> QED BY <2>1, <1>6 DEF Restrict
<1>8. j = Restrict(Disk, AllSpots(k))
  BY <1>6, <1>7 DEF Restrict
<1>9. Visible(k, j) = Restrict(Disk, Seen(k, Disk, AllSpots(k)))
  <2>1. AllSpots(k) \subseteq Spots
    BY DEF AllSpots
  <2> QED BY <1>7, <1>8, <2>1, VisibleIsSeen
<1> QED BY <1>3, <1>7, <1>8, <1>9 DEF Standing

\* What a process that starts reads, if every line parses.
LEMMA FreshIsStanding ==
  ASSUME Logs, NEW k
  PROVE  ReadAnew(k) = Standing(k)
<1> DEFINE now == [f \in Listed(k) |-> CatchUp(Uncached, files[f])]
<1>1. ASSUME NEW f \in Listed(k) PROVE now[f].rows = files[f]
  <2>1. files[f] \in Seq(Row) /\ Len(files[f]) \in Nat
    BY DEF Listed, Logs
  <2>2. Rewound(Uncached, files[f]) = Uncached /\ Uncached.offset = 0 /\ Uncached.rows = <<>>
    BY <2>1 DEF Rewound, Uncached
  <2>3. now[f].rows = [i \in {} \cup 1..Len(files[f]) |-> files[f][i]]
    BY <2>1, <2>2 DEF CatchUp
  <2> QED BY <2>1, <2>3
<1>2. ReadAnew(k) = HistoryFrom(k, now)
  BY DEF ReadAnew
<1> HIDE DEF now
<1>3. Joined(k, [f \in Listed(k) |-> now[f].rows]) = Joined(k, files)
  BY <1>1 DEF Joined
<1> QED BY <1>2, <1>3 DEF HistoryFrom, Standing

LEMMA ReadIsStanding ==
  ASSUME Logs, Memory, NEW p \in Procs, Faithful(KeyOf[p], cache[p])
  PROVE  /\ Restrict(AllRows(p), NowSeen(p)) = Standing(KeyOf[p])
         /\ NowSeen(p) = Seen(KeyOf[p], Disk, Held(ReadOn(p)))
<1> DEFINE k == KeyOf[p]
           d == ReadOn(p)
           A == AllRows(p)
<1>1. CacheFor(cache[p], said) /\ said \in Nat
  BY DEF Memory, Logs
<1>2. /\ CacheFor(d, said) /\ DOMAIN d = Listed(k) /\ HistoryFor(A, said)
      /\ \A x : x \in DOMAIN A <=> x \in Spots /\ x[1] \in Listed(k) /\ x[2] \in DOMAIN d[x[1]].rows
      /\ \A x \in DOMAIN A : A[x] = d[x[1]].rows[x[2]]
  BY ReadOnReads
<1>3. Faithful(k, d) /\ \A f \in Listed(k) : d[f].offset = Len(files[f])
  BY <1>1, CaughtUpIsFaithful DEF ReadOn
<1>4. IsFiniteSet(Held(d)) /\ Held(d) \subseteq Spots
  BY <1>2, HeldIsFinite
<1> HIDE DEF d, A
<1>5. DOMAIN A = Held(d) /\ \A x \in Held(d) : A[x] = Disk[x]
  <2>1. DOMAIN A = Held(d)
    BY <1>2 DEF Held
  <2>2. ASSUME NEW x \in Held(d) PROVE A[x] = Disk[x]
    <3>1. x \in Spots /\ x[1] \in Listed(k) /\ x[2] \in DOMAIN d[x[1]].rows
      BY <1>2 DEF Held
    <3>2. d[x[1]].rows[x[2]] = files[x[1]][x[2]]
      BY <3>1, <1>2, <1>3 DEF Faithful, FaithfulTo
    <3> QED BY <2>1, <3>1, <3>2, <1>2 DEF Disk
  <2> QED BY <2>1, <2>2
<1>6. A = Restrict(Disk, Held(d))
  <2>1. A = [x \in DOMAIN A |-> A[x]]
    BY <1>2 DEF HistoryFor, Rows
  <2> QED BY <2>1, <1>5 DEF Restrict
<1>7. Visible(k, A) = Restrict(Disk, Seen(k, Disk, Held(d)))
  BY <1>4, <1>6, VisibleIsSeen
<1>8. Visible(k, A) = Restrict(A, NowSeen(p)) /\ DOMAIN Visible(k, A) = NowSeen(p)
  BY <1>1, <1>2, VisibleReads DEF NowSeen, A
<1>9. Seen(k, Disk, AllSpots(k)) = Seen(k, Disk, Held(d))
  <2>1. Held(d) \subseteq AllSpots(k)
    <3> SUFFICES ASSUME NEW x \in Held(d) PROVE x \in AllSpots(k)
      OBVIOUS
    <3>1. x \in Spots /\ x[1] \in Listed(k) /\ x[2] \in DOMAIN d[x[1]].rows /\ x[1] \in Files
      BY <1>2 DEF Held, Listed
    <3>2. x[2] \in 1..d[x[1]].offset
      BY <3>1, <1>2 DEF CacheFor, ReadFor
    <3>3. DOMAIN files[x[1]] = 1..Len(files[x[1]])
      BY <3>1 DEF Logs
    <3> QED BY <3>1, <3>2, <3>3, <1>3 DEF AllSpots
  <2>2. ASSUME NEW x \in AllSpots(k) \ Held(d) PROVE Covered(k, Disk, Held(d), x)
    <3>1. x = <<x[1], x[2]>> /\ x[1] \in Listed(k) /\ x[2] \in DOMAIN files[x[1]] /\ x \in Spots
      BY DEF AllSpots, Spots
    <3>2. x[2] \notin DOMAIN d[x[1]].rows
      BY <3>1, <1>2 DEF Held
    <3>3. x[2] \in 1..d[x[1]].offset
      BY <3>1, <1>3 DEF Logs, Listed
    <3>4. Covered(k, Disk, Held(d), <<x[1], x[2]>>)
      BY <3>1, <3>2, <3>3, <1>2, <1>3 DEF Faithful, FaithfulTo
    <3> QED BY <3>1, <3>4
  <2>3. IsFiniteSet(AllSpots(k)) /\ AllSpots(k) \subseteq Spots
    BY StandingIsSeen DEF AllSpots
  <2> QED BY <2>1, <2>2, <2>3, SeenAfterDrops
<1>10. DOMAIN Restrict(Disk, Seen(k, Disk, Held(d))) = Seen(k, Disk, Held(d))
  BY DEF Restrict
<1> QED BY <1>7, <1>8, <1>9, <1>10, StandingIsSeen DEF A, d

\* The rows that stay cached after a read are faithful.
LEMMA ReadIsFaithful ==
  ASSUME Logs, Memory, NEW p \in Procs, Faithful(KeyOf[p], cache[p])
  PROVE  Faithful(KeyOf[p], [f \in Listed(KeyOf[p]) |->
                 [offset |-> ReadOn(p)[f].offset,
                  rows |-> Restrict(ReadOn(p)[f].rows,
                             {i \in DOMAIN ReadOn(p)[f].rows : <<f, i>> \in NowSeen(p)})]])
<1> DEFINE k == KeyOf[p]
           d == ReadOn(p)
           kept(f) == {i \in DOMAIN d[f].rows : <<f, i>> \in NowSeen(p)}
           c == [f \in Listed(k) |-> [offset |-> d[f].offset, rows |-> Restrict(d[f].rows, kept(f))]]
           S == Seen(k, Disk, Held(d))
<1>1. CacheFor(cache[p], said) /\ said \in Nat /\ NowSeen(p) = S
  BY ReadIsStanding DEF Memory, Logs
<1>2. CacheFor(d, said) /\ DOMAIN d = Listed(k)
  BY ReadOnReads
<1>3. Faithful(k, d)
  BY <1>1, CaughtUpIsFaithful DEF ReadOn
<1>4. IsFiniteSet(Held(d)) /\ Held(d) \subseteq Spots /\ S \subseteq Held(d)
  BY <1>2, HeldIsFinite DEF Seen
<1>5. \A f \in Listed(k) : /\ c[f].offset = d[f].offset /\ DOMAIN c[f].rows = kept(f)
                           /\ \A i \in kept(f) : c[f].rows[i] = d[f].rows[i]
  BY DEF Restrict
<1>6. DOMAIN c = Listed(k)
  OBVIOUS
<1> HIDE DEF c, d
<1>7. Held(c) = S
  <2>1. ASSUME NEW x \in Held(c) PROVE x \in S
    <3>1. x \in Spots /\ x[1] \in Listed(k) /\ x[2] \in kept(x[1]) /\ x = <<x[1], x[2]>>
      BY <1>5, <1>6 DEF Held, Spots
    <3> HIDE DEF S
    <3> QED BY <3>1, <1>1
  <2>2. ASSUME NEW x \in S PROVE x \in Held(c)
    <3>1. x \in Spots /\ x[1] \in Listed(k) /\ x[2] \in DOMAIN d[x[1]].rows /\ x = <<x[1], x[2]>>
      BY <1>2, <1>4 DEF Held, Spots
    <3>2. x[2] \in kept(x[1])
      BY <3>1, <1>1
    <3> HIDE DEF S, kept
    <3> QED BY <3>1, <3>2, <1>5, <1>6 DEF Held
  <2> QED BY <2>1, <2>2
<1>8. ASSUME NEW f \in Listed(k) PROVE FaithfulTo(k, Held(c), f, c[f])
  <2>1. FaithfulTo(k, Held(d), f, d[f]) /\ d[f].offset \in Nat /\ f \in Files
    <3>1. FaithfulTo(k, Held(d), f, d[f]) /\ f \in Files /\ ReadFor(d[f], said)
      BY <1>2, <1>3 DEF Faithful, CacheFor
    <3> QED BY <3>1, <1>1 DEF ReadFor
  <2>2. ASSUME NEW i \in 1..d[f].offset, i \notin kept(f)
        PROVE  Covered(k, Disk, S, <<f, i>>)
    <3>1. <<f, i>> \in Spots
      BY <2>1 DEF Spots
    <3>2. Covered(k, Disk, Held(d), <<f, i>>)
      <4>1. CASE i \in DOMAIN d[f].rows
        <5>1. <<f, i>> \in Held(d) /\ <<f, i>> \notin S
          BY <1>1, <1>2, <2>2, <3>1, <4>1 DEF Held
        <5> QED BY <5>1 DEF Seen
      <4>2. CASE i \notin DOMAIN d[f].rows
        BY <2>1, <4>2 DEF FaithfulTo
      <4> QED BY <4>1, <4>2
    <3> QED BY <1>4, <3>1, <3>2, SeenCovers
  <2>3. \A i \in kept(f) : i \in DOMAIN d[f].rows
    OBVIOUS
  <2> HIDE DEF kept, S
  <2> QED BY <1>5, <1>7, <2>1, <2>2, <2>3 DEF FaithfulTo
<1>9. Faithful(k, c)
  BY <1>6, <1>8 DEF Faithful
<1> QED BY <1>9 DEF c, d

\* Files that only grow keep a cache faithful.
LEMMA FaithfulKept ==
  ASSUME Logs, Memory, NEW p \in Procs, Faithful(KeyOf[p], cache[p]), cache'[p] = cache[p],
         \A f \in Listed(KeyOf[p]) :
           /\ Len(files'[f]) \in Nat /\ Len(files[f]) <= Len(files'[f])
           /\ \A i \in DOMAIN files[f] : files'[f][i] = files[f][i]
           /\ files'[f] # <<>>
  PROVE  Faithful(KeyOf[p], cache[p])'
<1> DEFINE k == KeyOf[p]
           c == cache[p]
<1>1. \A f \in Listed(k) : /\ f \in Files /\ f \in Listed(k)' /\ Len(files[f]) \in Nat
                           /\ DOMAIN files[f] = 1..Len(files[f])
  BY DEF Listed, Logs
<1>2. \A x \in Spots : x[1] \in Listed(k) /\ x[2] \in DOMAIN files[x[1]] => Disk'[x] = Disk[x]
  BY DEF Disk
<1>3. \A x \in Held(c) : Disk'[x] = Disk[x]
  <2> TAKE x \in Held(c)
  <2>1. x \in Spots /\ x[1] \in DOMAIN c /\ x[2] \in DOMAIN c[x[1]].rows /\ x[1] \in Listed(k)
    BY DEF Held, Faithful
  <2>2. x[2] \in 1..c[x[1]].offset /\ c[x[1]].offset \in Nat
    BY <2>1 DEF Memory, CacheFor, ReadFor
  <2>3. c[x[1]].offset <= Len(files[x[1]])
    BY <2>1 DEF Faithful, FaithfulTo
  <2> QED BY <1>1, <1>2, <2>1, <2>2, <2>3
<1>4. ASSUME NEW f \in DOMAIN c PROVE FaithfulTo(k, Held(c), f, c[f])'
  <2>1. /\ f \in Listed(k) /\ FaithfulTo(k, Held(c), f, c[f])
        /\ c[f].offset \in Nat /\ DOMAIN c[f].rows \subseteq 1..c[f].offset
    BY DEF Faithful, Memory, CacheFor, ReadFor
  <2>2. c[f].offset <= Len(files[f]) /\ c[f].offset <= Len(files'[f])
    BY <2>1, <1>1 DEF FaithfulTo
  <2>3. \A i \in DOMAIN c[f].rows : c[f].rows[i] = files'[f][i]
    BY <2>1, <2>2, <1>1 DEF FaithfulTo
  <2>4. ASSUME NEW i \in 1..c[f].offset, i \notin DOMAIN c[f].rows
        PROVE  Covered(k, Disk', Held(c), <<f, i>>)
    <3>1. Covered(k, Disk, Held(c), <<f, i>>)
      BY <2>1, <2>4 DEF FaithfulTo
    <3>2. <<f, i>> \in Spots /\ i \in DOMAIN files[f]
      BY <1>1, <2>1, <2>2 DEF Spots
    <3>3. Disk'[<<f, i>>] = Disk[<<f, i>>]
      BY <1>2, <2>1, <3>2
    <3> HIDE DEF c
    <3> QED BY <1>3, <3>1, <3>3, CoveredSame
  <2> QED BY <2>2, <2>3, <2>4 DEF FaithfulTo
<1>5. \A f \in DOMAIN c : f \in Listed(k)'
  BY <1>1 DEF Faithful
<1> QED BY <1>4, <1>5 DEF Faithful

\* The cache is faithful but while a full clear archives the files, or when its
\* counts are reset.
Archiving(o, t, c) == o = "clear_full" /\ Toward(t, c) \in {"archive", "counts", "reset"}
Replaying(p) ==
  /\ pc[p] = "archive" => \A f \in todo[p] : files[f] # <<>>
  /\ Archiving(op[p], then[p], pc[p]) \/ Faithful(KeyOf[p], cache[p])

LEMMA FaithfulSame ==
  ASSUME Logs, Memory, NamesDiffer, NEW p \in Procs, Faithful(KeyOf[p], cache[p]),
         cache'[p] = cache[p], \A f \in OwnFiles(p) : files'[f] = files[f]
  PROVE  Faithful(KeyOf[p], cache[p])'
<1>1. \A f \in Listed(KeyOf[p]) :
           /\ Len(files'[f]) \in Nat /\ Len(files[f]) <= Len(files'[f])
           /\ \A i \in DOMAIN files[f] : files'[f][i] = files[f][i]
           /\ files'[f] # <<>>
  <2> TAKE f \in Listed(KeyOf[p])
  <2>1. f \in OwnFiles(p) /\ files[f] # <<>> /\ f \in Files
    BY ListedAreOwn DEF OwnFiles
  <2>2. Len(files[f]) \in Nat /\ files'[f] = files[f]
    BY <2>1 DEF Logs
  <2> QED BY <2>1, <2>2
<1> QED BY <1>1, FaithfulKept

LEMMA FaithfulPut ==
  ASSUME Logs, Memory, NEW p \in Procs, Faithful(KeyOf[p], cache[p]), UNCHANGED cache,
         NEW kind \in {"message", "compaction", "cleared"}, NEW l, PutRow(p, kind, l)
  PROVE  Faithful(KeyOf[p], cache[p])'
<1>1. LET f == Today(p)
      IN /\ f \in Files /\ files'[f] \in Seq(Row) /\ Len(files'[f]) = Len(files[f]) + 1
         /\ \A i \in DOMAIN files[f] : files'[f][i] = files[f][i]
         /\ \A g \in Files \ {f} : files'[g] = files[g]
  BY PutAppends
<1>2. \A f \in Listed(KeyOf[p]) :
           /\ Len(files'[f]) \in Nat /\ Len(files[f]) <= Len(files'[f])
           /\ \A i \in DOMAIN files[f] : files'[f][i] = files[f][i]
           /\ files'[f] # <<>>
  <2> TAKE f \in Listed(KeyOf[p])
  <2>1. f \in Files /\ files[f] # <<>> /\ Len(files[f]) \in Nat
    BY DEF Listed, Logs
  <2>2. CASE f = Today(p)
    BY <1>1, <2>1, <2>2
  <2>3. CASE f # Today(p)
    BY <1>1, <2>1, <2>3
  <2> QED BY <2>2, <2>3
<1> QED BY <1>2, FaithfulKept

LEMMA EmptyIsFaithful ==
  ASSUME NEW p \in Procs
  PROVE  /\ cache[p] = EmptyCache => Faithful(KeyOf[p], cache[p])
         /\ cache'[p] = EmptyCache => Faithful(KeyOf[p], cache[p])'
BY DEF Faithful, EmptyCache

LEMMA ReplayingStep ==
  ASSUME NamesDiffer, SessionTypes, ArchivesOwn, NEW p \in Procs, Replaying(p), ActsOf(p)
  PROVE  Replaying(p)'
<1>0. /\ p \in Actors /\ Route(op[p], stage[p], then[p], pc[p]) /\ KeyOf[p] \in Keys
      /\ pc = [a \in Actors |-> pc[a]] /\ then = [a \in Actors |-> then[a]]
      /\ op = [a \in Actors |-> op[a]] /\ stage = [q \in Procs |-> stage[q]]
      /\ history = [q \in Procs |-> history[q]] /\ cache = [q \in Procs |-> cache[q]]
      /\ todo \in [Procs -> SUBSET Files] /\ cleared \in [Keys -> Nat] /\ DOMAIN files = Files
      /\ Logs /\ Memory /\ said \in Nat
  BY SessionAssumption DEF SessionTypes, Routes, Memory, Tallies, Logs, Actors
<1>1. ASSUME NEW o \in SessionOps, Start(p, o)
      PROVE  Replaying(p)'
  <2>1. /\ cache'[p] \in {cache[p], EmptyCache} /\ UNCHANGED files
        /\ pc[p] = "idle" /\ pc'[p] # "archive"
    BY <1>1, <1>0 DEF Start, Goto, disk
  <2>2. Faithful(KeyOf[p], cache[p])
    BY <2>1 DEF Replaying, Archiving, Toward
  <2>3. Faithful(KeyOf[p], cache[p])'
    BY <1>0, <2>1, <2>2, FaithfulSame, EmptyIsFaithful
  <2> QED BY <2>1, <2>3 DEF Replaying
<1>2. ASSUME EnsureSession(p)
      PROVE  Replaying(p)'
  <2>1. UNCHANGED <<files, cache, todo>>
    BY <1>2 DEF EnsureSession, disk
  <2>2. /\ pc'[p] # "archive"
        /\ Archiving(op[p], then[p], pc[p]) => Archiving(op'[p], then'[p], pc'[p])
    BY <1>2, <1>0 DEF EnsureSession, Save, Goto, Route, Toward, Archiving
  <2>3. Faithful(KeyOf[p], cache[p]) => Faithful(KeyOf[p], cache[p])'
    BY <1>0, <2>1, FaithfulSame
  <2> QED BY <2>2, <2>3 DEF Replaying
<1>3. ASSUME EnsureHeader(p)
      PROVE  Replaying(p)'
  <2>1. UNCHANGED <<files, cache, todo>>
    BY <1>3 DEF EnsureHeader, disk
  <2>2. /\ pc'[p] # "archive"
        /\ Archiving(op[p], then[p], pc[p]) => Archiving(op'[p], then'[p], pc'[p])
    BY <1>3, <1>0 DEF EnsureHeader, Goto, Route, Toward, Archiving
  <2>3. Faithful(KeyOf[p], cache[p]) => Faithful(KeyOf[p], cache[p])'
    BY <1>0, <2>1, FaithfulSame
  <2> QED BY <2>2, <2>3 DEF Replaying
<1>4. ASSUME ReadHistory(p)
      PROVE  Replaying(p)'
  <2>1. /\ UNCHANGED files /\ pc[p] = "read"
        /\ pc'[p] \in {AfterRead(op[p]), AfterFailedRead(op[p])}
    BY <1>4, <1>0 DEF ReadHistory, disk, Goto
  <2>2. pc'[p] # "archive"
    BY <1>0, <2>1 DEF Route, AfterRead, AfterFailedRead
  <2>3. Faithful(KeyOf[p], cache[p])
    BY <2>1 DEF Replaying, Archiving, Toward
  <2>4. Faithful(KeyOf[p], cache'[p])
    <3>1. CASE \E bad \in SUBSET Listed(KeyOf[p]) :
                 cache' = [cache EXCEPT ![p] = CaughtUp(KeyOf[p], cache[p], bad)]
      <4>1. CacheFor(cache[p], said)
        BY <1>0 DEF Memory
      <4> QED BY <1>0, <2>3, <3>1, <4>1, CaughtUpIsFaithful
    <3>2. CASE cache' = [cache EXCEPT ![p] = [f \in Listed(KeyOf[p]) |->
                 [offset |-> ReadOn(p)[f].offset,
                  rows |-> Restrict(ReadOn(p)[f].rows,
                             {i \in DOMAIN ReadOn(p)[f].rows : <<f, i>> \in NowSeen(p)})]]]
      <4> DEFINE c == [f \in Listed(KeyOf[p]) |->
                 [offset |-> ReadOn(p)[f].offset,
                  rows |-> Restrict(ReadOn(p)[f].rows,
                             {i \in DOMAIN ReadOn(p)[f].rows : <<f, i>> \in NowSeen(p)})]]
      <4>1. Faithful(KeyOf[p], c)
        BY <1>0, <2>3, ReadIsFaithful
      <4>2. cache' = [cache EXCEPT ![p] = c]
        BY <3>2
      <4> HIDE DEF c
      <4>3. cache'[p] = c
        BY <1>0, <4>2
      <4> QED BY <4>1, <4>3
    <3> QED BY <1>4, <1>0, <3>1, <3>2, ReadingReads
  <2>5. Faithful(KeyOf[p], cache[p])'
    BY <2>1, <2>4 DEF Faithful, FaithfulTo, Listed, Disk
  <2> QED BY <2>2, <2>5 DEF Replaying
<1>5. ASSUME EarlyFlush(p)
      PROVE  Replaying(p)'
  <2>1. UNCHANGED <<files, cache, todo>>
    BY <1>5 DEF EarlyFlush, disk
  <2>2. /\ pc'[p] # "archive"
        /\ Archiving(op[p], then[p], pc[p]) => Archiving(op'[p], then'[p], pc'[p])
    BY <1>5, <1>0 DEF EarlyFlush, FlushThen, Goto, Route, Toward, Archiving
  <2>3. Faithful(KeyOf[p], cache[p]) => Faithful(KeyOf[p], cache[p])'
    BY <1>0, <2>1, FaithfulSame
  <2> QED BY <2>2, <2>3 DEF Replaying
<1>6. ASSUME Check(p)
      PROVE  Replaying(p)'
  <2>1. UNCHANGED <<files, cache, todo>>
    BY <1>6 DEF Check, disk
  <2>2. /\ pc'[p] # "archive"
        /\ Archiving(op[p], then[p], pc[p]) => Archiving(op'[p], then'[p], pc'[p])
    BY <1>6, <1>0 DEF Check, FlushThen, Goto, Route, Toward, Archiving
  <2>3. Faithful(KeyOf[p], cache[p]) => Faithful(KeyOf[p], cache[p])'
    BY <1>0, <2>1, FaithfulSame
  <2> QED BY <2>2, <2>3 DEF Replaying
<1>7. ASSUME NEW ok \in BOOLEAN, FlushTurn(p, ok)
      PROVE  Replaying(p)'
  <2>1. UNCHANGED <<files, cache, todo>>
    BY <1>7 DEF FlushTurn, disk
  <2>2. /\ pc'[p] # "archive"
        /\ Archiving(op[p], then[p], pc[p]) => Archiving(op'[p], then'[p], pc'[p])
    BY <1>7, <1>0 DEF FlushTurn, Goto, Route, Toward, Archiving
  <2>3. Faithful(KeyOf[p], cache[p]) => Faithful(KeyOf[p], cache[p])'
    BY <1>0, <2>1, FaithfulSame
  <2> QED BY <2>2, <2>3 DEF Replaying
<1>8. ASSUME MarkFlushed(p)
      PROVE  Replaying(p)'
  <2>1. UNCHANGED <<files, cache, todo>>
    BY <1>8 DEF MarkFlushed, disk
  <2>2. /\ pc'[p] # "archive"
        /\ Archiving(op[p], then[p], pc[p]) => Archiving(op'[p], then'[p], pc'[p])
    BY <1>8, <1>0 DEF MarkFlushed, Save, Goto, Route, Toward, Archiving
  <2>3. Faithful(KeyOf[p], cache[p]) => Faithful(KeyOf[p], cache[p])'
    BY <1>0, <2>1, FaithfulSame
  <2> QED BY <2>2, <2>3 DEF Replaying
<1>9. ASSUME KeepAll(p)
      PROVE  Replaying(p)'
  <2>0. op[p] \in {"compact", "turn"} /\ AfterCompaction(p) \in {"idle", "budget", "user"}
    <3>1. op[p] = "compact" \/ (op[p] = "turn" /\ stage[p] \in {"compact", "budget"})
      BY <1>9, <1>0 DEF KeepAll, Route, Toward
    <3> QED BY <3>1 DEF AfterCompaction
  <2>1. UNCHANGED <<files, cache, todo>>
    BY <1>9 DEF KeepAll, disk
  <2>2. /\ pc'[p] # "archive"
        /\ Archiving(op[p], then[p], pc[p]) => Archiving(op'[p], then'[p], pc'[p])
    BY <1>9, <1>0, <2>0 DEF KeepAll, Goto, Route, Toward, Archiving
  <2>3. Faithful(KeyOf[p], cache[p]) => Faithful(KeyOf[p], cache[p])'
    BY <1>0, <2>1, FaithfulSame
  <2> QED BY <2>2, <2>3 DEF Replaying
<1>10. ASSUME Summarise(p)
       PROVE  Replaying(p)'
  <2>1. PutRow(p, "compaction", "count") /\ UNCHANGED cache /\ pc[p] = "summarise"
    BY <1>10 DEF Summarise
  <2>2. Faithful(KeyOf[p], cache[p])
    BY <2>1 DEF Replaying, Archiving, Toward
  <2>3. Faithful(KeyOf[p], cache[p])'
    BY <1>0, <2>1, <2>2, FaithfulPut
  <2>4. pc'[p] = "newline"
    BY <1>0, <2>1 DEF PutRow, Goto
  <2> QED BY <2>3, <2>4 DEF Replaying
<1>11. ASSUME CountCompaction(p)
       PROVE  Replaying(p)'
  <2>0. op[p] \in {"compact", "turn"} /\ AfterCompaction(p) \in {"idle", "budget", "user"}
    <3>1. op[p] = "compact" \/ (op[p] = "turn" /\ stage[p] \in {"compact", "budget"})
      BY <1>11, <1>0 DEF CountCompaction, Route, Toward
    <3> QED BY <3>1 DEF AfterCompaction
  <2>1. UNCHANGED <<files, cache, todo>>
    BY <1>11 DEF CountCompaction, disk
  <2>2. /\ pc'[p] # "archive"
        /\ Archiving(op[p], then[p], pc[p]) => Archiving(op'[p], then'[p], pc'[p])
    BY <1>11, <1>0, <2>0 DEF CountCompaction, Save, Goto, Route, Toward, Archiving
  <2>3. Faithful(KeyOf[p], cache[p]) => Faithful(KeyOf[p], cache[p])'
    BY <1>0, <2>1, FaithfulSame
  <2> QED BY <2>2, <2>3 DEF Replaying
<1>12. ASSUME NEW remembers \in BOOLEAN, NEW over \in BOOLEAN,
              Budget(p, remembers, over)
       PROVE  Replaying(p)'
  <2>1. UNCHANGED <<files, cache, todo>>
    BY <1>12 DEF Budget, disk
  <2>2. /\ pc'[p] # "archive"
        /\ Archiving(op[p], then[p], pc[p]) => Archiving(op'[p], then'[p], pc'[p])
    BY <1>12, <1>0 DEF Budget, Goto, Route, Toward, Archiving
  <2>3. Faithful(KeyOf[p], cache[p]) => Faithful(KeyOf[p], cache[p])'
    BY <1>0, <2>1, FaithfulSame
  <2> QED BY <2>2, <2>3 DEF Replaying
<1>13. ASSUME AppendUser(p)
       PROVE  Replaying(p)'
  <2>1. PutRow(p, "message", "loop") /\ UNCHANGED cache /\ pc[p] = "user"
    BY <1>13 DEF AppendUser
  <2>2. Faithful(KeyOf[p], cache[p])
    BY <2>1 DEF Replaying, Archiving, Toward
  <2>3. Faithful(KeyOf[p], cache[p])'
    BY <1>0, <2>1, <2>2, FaithfulPut
  <2>4. pc'[p] = "newline"
    BY <1>0, <2>1 DEF PutRow, Goto
  <2> QED BY <2>3, <2>4 DEF Replaying
<1>14. ASSUME AgentLoopFails(p)
       PROVE  Replaying(p)'
  <2>1. UNCHANGED <<files, cache, todo>>
    BY <1>14 DEF AgentLoopFails, disk
  <2>2. /\ pc'[p] # "archive"
        /\ Archiving(op[p], then[p], pc[p]) => Archiving(op'[p], then'[p], pc'[p])
    BY <1>14, <1>0 DEF AgentLoopFails, Goto, Route, Toward, Archiving
  <2>3. Faithful(KeyOf[p], cache[p]) => Faithful(KeyOf[p], cache[p])'
    BY <1>0, <2>1, FaithfulSame
  <2> QED BY <2>2, <2>3 DEF Replaying
<1>15. ASSUME AppendAssistant(p)
       PROVE  Replaying(p)'
  <2>1. PutRow(p, "message", "idle") /\ UNCHANGED cache /\ pc[p] = "loop"
    BY <1>15 DEF AppendAssistant
  <2>2. Faithful(KeyOf[p], cache[p])
    BY <2>1 DEF Replaying, Archiving, Toward
  <2>3. Faithful(KeyOf[p], cache[p])'
    BY <1>0, <2>1, <2>2, FaithfulPut
  <2>4. pc'[p] = "newline"
    BY <1>0, <2>1 DEF PutRow, Goto
  <2> QED BY <2>3, <2>4 DEF Replaying
<1>16. ASSUME RememberNothing(p)
       PROVE  Replaying(p)'
  <2>1. UNCHANGED <<files, cache, todo>>
    BY <1>16 DEF RememberNothing, disk
  <2>2. /\ pc'[p] # "archive"
        /\ Archiving(op[p], then[p], pc[p]) => Archiving(op'[p], then'[p], pc'[p])
    BY <1>16, <1>0 DEF RememberNothing, EndOfClear, Goto, Route, Toward, Archiving
  <2>3. Faithful(KeyOf[p], cache[p]) => Faithful(KeyOf[p], cache[p])'
    BY <1>0, <2>1, FaithfulSame
  <2> QED BY <2>2, <2>3 DEF Replaying
<1>17. ASSUME Remember(p)
       PROVE  Replaying(p)'
  <2>1. PutRow(p, "cleared", EndOfClear(op[p])) /\ UNCHANGED cache /\ pc[p] = "remember"
    BY <1>17 DEF Remember
  <2>2. Faithful(KeyOf[p], cache[p])
    BY <2>1 DEF Replaying, Archiving, Toward
  <2>3. Faithful(KeyOf[p], cache[p])'
    BY <1>0, <2>1, <2>2, FaithfulPut
  <2>4. pc'[p] = "newline"
    BY <1>0, <2>1 DEF PutRow, Goto
  <2> QED BY <2>3, <2>4 DEF Replaying
<1>18. ASSUME ListFiles(p)
       PROVE  Replaying(p)'
  <2>1. /\ UNCHANGED files /\ pc'[p] = "archive" /\ op'[p] = op[p] /\ then'[p] = then[p]
        /\ op[p] = "clear_full" /\ todo'[p] = Listed(KeyOf[p])
    BY <1>18, <1>0 DEF ListFiles, Goto, disk, Route, Toward
  <2> QED BY <2>1 DEF Replaying, Archiving, Toward, Listed
<1>19. ASSUME Archive(p)
       PROVE  Replaying(p)'
  <2>1. /\ pc[p] = "archive" /\ op'[p] = op[p] /\ then'[p] = then[p] /\ op[p] = "clear_full"
        /\ \A f \in todo[p] : files[f] # <<>>
    BY <1>19, <1>0 DEF Archive, Replaying, Route, Toward
  <2>2. CASE pc'[p] = "counts"
    BY <2>1, <2>2 DEF Replaying, Archiving, Toward
  <2>3. CASE UNCHANGED pc /\ \E f \in todo[p] : RemoveFile(f) /\ todo' = [todo EXCEPT ![p] = @ \ {f}]
    <3>1. PICK f \in todo[p] : files' = [files EXCEPT ![f] = <<>>] /\ todo'[p] = todo[p] \ {f}
      BY <1>0, <2>3 DEF RemoveFile
    <3>2. \A g \in Files : g # f => files'[g] = files[g]
      BY <3>1, <1>0
    <3>3. todo[p] \subseteq Files
      BY <1>0
    <3> QED BY <2>1, <2>3, <3>1, <3>2, <3>3 DEF Replaying, Archiving, Toward
  <2> QED BY <1>19, <1>0, <2>1, <2>2, <2>3 DEF Archive, Goto, First
<1>20. ASSUME ResetCounts(p)
       PROVE  Replaying(p)'
  <2>1. UNCHANGED <<files, cache, todo>>
    BY <1>20 DEF ResetCounts, disk
  <2>2. /\ pc'[p] # "archive"
        /\ Archiving(op[p], then[p], pc[p]) => Archiving(op'[p], then'[p], pc'[p])
    BY <1>20, <1>0 DEF ResetCounts, Save, Goto, Route, Toward, Archiving
  <2>3. Faithful(KeyOf[p], cache[p]) => Faithful(KeyOf[p], cache[p])'
    BY <1>0, <2>1, FaithfulSame
  <2> QED BY <2>2, <2>3 DEF Replaying
<1>21. ASSUME ResetSession(p)
       PROVE  Replaying(p)'
  <2>1. cache'[p] = EmptyCache /\ pc'[p] = "idle"
    BY <1>21, <1>0 DEF ResetSession, Goto
  <2> QED BY <2>1, EmptyIsFaithful DEF Replaying
<1>22. ASSUME Newline(p)
       PROVE  Replaying(p)'
  <2>1. UNCHANGED <<files, cache, todo>>
    BY <1>22 DEF Newline, disk
  <2>2. /\ pc'[p] # "archive"
        /\ Archiving(op[p], then[p], pc[p]) => Archiving(op'[p], then'[p], pc'[p])
    BY <1>22, <1>0 DEF Newline, Goto, Route, Toward, Archiving
  <2>3. Faithful(KeyOf[p], cache[p]) => Faithful(KeyOf[p], cache[p])'
    BY <1>0, <2>1, FaithfulSame
  <2> QED BY <2>2, <2>3 DEF Replaying
<1>23. ASSUME Truncate(p)
       PROVE  Replaying(p)'
  <2>1. UNCHANGED <<files, cache, todo>>
    BY <1>23 DEF Truncate, disk
  <2>2. /\ pc'[p] # "archive"
        /\ Archiving(op[p], then[p], pc[p]) => Archiving(op'[p], then'[p], pc'[p])
    BY <1>23, <1>0 DEF Truncate, Goto, Route, Toward, Archiving
  <2>3. Faithful(KeyOf[p], cache[p]) => Faithful(KeyOf[p], cache[p])'
    BY <1>0, <2>1, FaithfulSame
  <2> QED BY <2>2, <2>3 DEF Replaying
<1>24. ASSUME Write(p)
       PROVE  Replaying(p)'
  <2>1. UNCHANGED <<files, cache, todo>>
    BY <1>24 DEF Write, disk
  <2>2. /\ pc'[p] # "archive"
        /\ Archiving(op[p], then[p], pc[p]) => Archiving(op'[p], then'[p], pc'[p])
    BY <1>24, <1>0 DEF Write, Goto, Route, Toward, Archiving
  <2>3. Faithful(KeyOf[p], cache[p]) => Faithful(KeyOf[p], cache[p])'
    BY <1>0, <2>1, FaithfulSame
  <2> QED BY <2>2, <2>3 DEF Replaying
<1>25. ASSUME Crash(p)
       PROVE  Replaying(p)'
  <2>1. cache'[p] = EmptyCache /\ pc'[p] = "idle"
    BY <1>25, <1>0 DEF Crash, Goto
  <2> QED BY <2>1, EmptyIsFaithful DEF Replaying
<1> QED
  BY <1>1, <1>2, <1>3, <1>4, <1>5, <1>6, <1>7, <1>8, <1>9, <1>10, <1>11, <1>12, <1>13, <1>14, <1>15, <1>16, <1>17, <1>18, <1>19, <1>20, <1>21, <1>22, <1>23, <1>24, <1>25
  DEF ActsOf, Turn, Clear

\* A desktop that deletes no session removes no transcript.
Unlinking == pc[Desktop] = "unlink" \/ then[Desktop] = "unlink"

LEMMA NoUnlinking ==
  ASSUME "delete" \notin DesktopOps, SessionTypes, ~Unlinking, SessionNext \/ UNCHANGED session
  PROVE  ~Unlinking'
<1>0. /\ Desktop \in Actors /\ Procs \subseteq Actors /\ Desktop \notin Procs
      /\ pc = [a \in Actors |-> pc[a]] /\ then = [a \in Actors |-> then[a]]
  BY SessionAssumption DEF SessionTypes, Routes, Actors
<1>1. ASSUME NEW p \in Procs, NEW o \in SessionOps, Start(p, o)
      PROVE  ~Unlinking'
  BY <1>1, <1>0 DEF Start, Goto, local, Unlinking
<1>2. ASSUME NEW p \in Procs, EnsureSession(p)
      PROVE  ~Unlinking'
  BY <1>2, <1>0 DEF EnsureSession, Save, Goto, local, Unlinking
<1>3. ASSUME NEW p \in Procs, EnsureHeader(p)
      PROVE  ~Unlinking'
  BY <1>3, <1>0 DEF EnsureHeader, Goto, local, Unlinking
<1>4. ASSUME NEW p \in Procs, ReadHistory(p)
      PROVE  ~Unlinking'
  BY <1>4, <1>0 DEF ReadHistory, Goto, AfterRead, AfterFailedRead, local, Unlinking
<1>5. ASSUME NEW p \in Procs, EarlyFlush(p)
      PROVE  ~Unlinking'
  BY <1>5, <1>0 DEF EarlyFlush, FlushThen, Goto, local, Unlinking
<1>6. ASSUME NEW p \in Procs, Check(p)
      PROVE  ~Unlinking'
  BY <1>6, <1>0 DEF Check, FlushThen, Goto, local, Unlinking
<1>7. ASSUME NEW p \in Procs, NEW ok \in BOOLEAN, FlushTurn(p, ok)
      PROVE  ~Unlinking'
  BY <1>7, <1>0 DEF FlushTurn, Goto, local, Unlinking
<1>8. ASSUME NEW p \in Procs, MarkFlushed(p)
      PROVE  ~Unlinking'
  BY <1>8, <1>0 DEF MarkFlushed, Save, Goto, local, Unlinking
<1>9. ASSUME NEW p \in Procs, KeepAll(p)
      PROVE  ~Unlinking'
  BY <1>9, <1>0 DEF KeepAll, AfterCompaction, Goto, local, Unlinking
<1>10. ASSUME NEW p \in Procs, Summarise(p)
       PROVE  ~Unlinking'
  BY <1>10, <1>0 DEF Summarise, PutRow, Goto, Unlinking
<1>11. ASSUME NEW p \in Procs, CountCompaction(p)
       PROVE  ~Unlinking'
  BY <1>11, <1>0 DEF CountCompaction, AfterCompaction, Save, Goto, local, Unlinking
<1>12. ASSUME NEW p \in Procs, NEW remembers \in BOOLEAN, NEW over \in BOOLEAN,
              Budget(p, remembers, over)
       PROVE  ~Unlinking'
  BY <1>12, <1>0 DEF Budget, Goto, local, Unlinking
<1>13. ASSUME NEW p \in Procs, AppendUser(p)
       PROVE  ~Unlinking'
  BY <1>13, <1>0 DEF AppendUser, PutRow, Goto, Unlinking
<1>14. ASSUME NEW p \in Procs, AgentLoopFails(p)
       PROVE  ~Unlinking'
  BY <1>14, <1>0 DEF AgentLoopFails, Goto, local, Unlinking
<1>15. ASSUME NEW p \in Procs, AppendAssistant(p)
       PROVE  ~Unlinking'
  BY <1>15, <1>0 DEF AppendAssistant, PutRow, Goto, Unlinking
<1>16. ASSUME NEW p \in Procs, RememberNothing(p)
       PROVE  ~Unlinking'
  BY <1>16, <1>0 DEF RememberNothing, EndOfClear, Goto, local, Unlinking
<1>17. ASSUME NEW p \in Procs, Remember(p)
       PROVE  ~Unlinking'
  BY <1>17, <1>0 DEF Remember, PutRow, Goto, Unlinking
<1>18. ASSUME NEW p \in Procs, ListFiles(p)
       PROVE  ~Unlinking'
  BY <1>18, <1>0 DEF ListFiles, Goto, local, Unlinking
<1>19. ASSUME NEW p \in Procs, Archive(p)
       PROVE  ~Unlinking'
  BY <1>19, <1>0 DEF Archive, RemoveFile, Goto, local, Unlinking
<1>20. ASSUME NEW p \in Procs, ResetCounts(p)
       PROVE  ~Unlinking'
  BY <1>20, <1>0 DEF ResetCounts, Save, Goto, local, Unlinking
<1>21. ASSUME NEW p \in Procs, ResetSession(p)
       PROVE  ~Unlinking'
  BY <1>21, <1>0 DEF ResetSession, Goto, local, Unlinking
<1>22. ASSUME NEW p \in Procs, Newline(p)
       PROVE  ~Unlinking'
  BY <1>22, <1>0 DEF Newline, Goto, local, Unlinking
<1>23. ASSUME NEW a \in Actors, Truncate(a)
       PROVE  ~Unlinking'
  BY <1>23, <1>0 DEF Truncate, Goto, local, Unlinking
<1>24. ASSUME NEW a \in Actors, Write(a)
       PROVE  ~Unlinking'
  BY <1>24, <1>0 DEF Write, Goto, local, Unlinking
<1>25. ASSUME NEW a \in Actors, Crash(a)
       PROVE  ~Unlinking'
  BY <1>25, <1>0 DEF Crash, Goto, local, Unlinking
<1>26. ASSUME NEW k \in Keys, CreateSession(k)
       PROVE  ~Unlinking'
  BY <1>26, <1>0 DEF CreateSession, DesktopStarts, Save, Goto, Unlinking
<1>27. ASSUME NEW k \in Keys, RenameSession(k)
       PROVE  ~Unlinking'
  BY <1>27, <1>0 DEF RenameSession, DesktopStarts, Save, Goto, Unlinking
<1>28. ASSUME NEW k \in Keys, DeleteSession(k)
       PROVE  ~Unlinking'
  BY <1>28, <1>0 DEF DeleteSession, DesktopStarts, Save, Goto, Unlinking
<1>29. ASSUME UnlinkTranscripts
       PROVE  ~Unlinking'
  BY <1>29, <1>0 DEF UnlinkTranscripts, RemoveFile, Goto, local, Unlinking
<1>30. ASSUME NextDay
       PROVE  ~Unlinking'
  BY <1>30 DEF NextDay, local, Unlinking
<1>31. ASSUME Rest \/ UNCHANGED session
       PROVE  ~Unlinking'
  BY <1>31 DEF Rest, session, local, Unlinking
<1> QED
  BY <1>1, <1>2, <1>3, <1>4, <1>5, <1>6, <1>7, <1>8, <1>9, <1>10, <1>11, <1>12, <1>13, <1>14, <1>15, <1>16, <1>17, <1>18, <1>19, <1>20, <1>21, <1>22, <1>23, <1>24, <1>25, <1>26, <1>27, <1>28, <1>29, <1>30, <1>31
  DEF SessionNext, Turn, Clear, DesktopStep

\* The incremental cache gives every operation that succeeds in reading what a
\* process that starts now would read, or, where a line does not parse and such
\* a process fails, all that stands in the files; if no session's name begins with
\* another one's, each session has one process and the desktop deletes none.
THEOREM HistoriesAreReplays ==
  NamesDiffer /\ KeysDiffer /\ "delete" \notin DesktopOps => (SessionSpec => HistoryIsReplay)
<1> SUFFICES ASSUME NamesDiffer, KeysDiffer, "delete" \notin DesktopOps
             PROVE  SessionSpec => HistoryIsReplay
  OBVIOUS
<1> DEFINE Inv == SessionTypes /\ ArchivesOwn /\ ~Unlinking /\ \A p \in Procs : Replaying(p)
           Own == \A p \in Procs : pc[p] = "read" /\ pc'[p] \in {"early", "summarise", "remember"}
                    => LET k == KeyOf[p]
                       IN history'[p] = IF Broken(k, EmptyCache) = {} THEN ReadAnew(k)
                                        ELSE Standing(k)
<1>1. SessionInit => Inv
  <2> SUFFICES ASSUME SessionInit PROVE Inv
    OBVIOUS
  <2>1. ASSUME NEW p \in Procs PROVE Replaying(p)
    <3>1. pc[p] = "idle" /\ cache[p] = EmptyCache
      BY SessionAssumption DEF SessionInit, Actors
    <3> QED BY <3>1, EmptyIsFaithful DEF Replaying
  <2> QED BY <2>1, TypesStart, SessionAssumption DEF SessionInit, ArchivesOwn, Actors, Unlinking
<1>2. Inv /\ [SessionNext]_session => Inv'
  <2> SUFFICES ASSUME Inv, SessionNext \/ UNCHANGED session PROVE Inv'
    OBVIOUS
  <2>1. ASSUME NEW p \in Procs PROVE Replaying(p)'
    <3>1. CASE ActsOf(p)
      BY <3>1, ReplayingStep
    <3>2. CASE ~ActsOf(p)
      <4>1. Kept(p)
        BY <3>2, OthersKeep
      <4>2. \A f \in OwnFiles(p) : files'[f] = files[f]
        BY <4>1 DEF Kept, Unlinking
      <4>3. Faithful(KeyOf[p], cache[p]) => Faithful(KeyOf[p], cache[p])'
        BY <4>1, <4>2, FaithfulSame DEF Kept, SessionTypes
      <4>4. pc[p] = "archive" => todo[p] \subseteq OwnFiles(p)
        BY DEF ArchivesOwn
      <4> QED BY <4>1, <4>2, <4>3, <4>4 DEF Replaying, Kept
    <3> QED BY <3>1, <3>2
  <2> QED BY <2>1, TypesStep, ArchivesOwnStep, NoUnlinking
<1>3. ASSUME Inv, [SessionNext]_session PROVE Own \/ UNCHANGED session
  <2> SUFFICES ASSUME NEW p \in Procs, pc[p] = "read", pc'[p] \in {"early", "summarise", "remember"}
               PROVE  history'[p] = Standing(KeyOf[p])
    BY <1>3, FreshIsStanding DEF SessionTypes
  <2>0. Logs /\ Memory /\ p \in Actors /\ pc = [a \in Actors |-> pc[a]]
        /\ history = [q \in Procs |-> history[q]] /\ Route(op[p], stage[p], then[p], pc[p])
    BY <1>3 DEF SessionTypes, Routes, Memory, Actors
  <2>1. ActsOf(p)
    <3>1. pc'[p] # pc[p]
      OBVIOUS
    <3> QED BY <1>3, <3>1, OthersKeep DEF Kept
  <2>2. ReadHistory(p)
    BY <2>0, <2>1 DEF ActsOf, Turn, Clear, Start, EnsureSession, EnsureHeader, EarlyFlush, Check,
       FlushTurn, MarkFlushed, KeepAll, Summarise, CountCompaction, Budget, AppendUser,
       AgentLoopFails, AppendAssistant, RememberNothing, Remember, ListFiles, Archive,
       ResetCounts, ResetSession, Newline, Truncate, Write, Crash, Goto
  <2>3. Faithful(KeyOf[p], cache[p])
    BY <1>3 DEF Replaying, Archiving, Toward
  <2>4. AfterFailedRead(op[p]) \in {"idle", "reset", "list"}
    BY <2>0 DEF Route, AfterFailedRead
  <2>5. history' = [history EXCEPT ![p] = Restrict(AllRows(p), NowSeen(p))]
    BY <2>0, <2>2, <2>4, ReadingReads DEF Goto
  <2> QED BY <2>0, <2>3, <2>5, ReadIsStanding
<1>4. Inv /\ [SessionNext]_session => [Own]_session
  BY <1>3
<1> QED BY <1>1, <1>2, <1>4, PTL DEF SessionSpec, HistoryIsReplay

-----------------------------------------------------------------------------
(* ChatSession: compactions and flushes of a session are counted.          *)

CompactionRows(k) ==
  {x \in Places : /\ x[1][1] = k /\ x[2] \in DOMAIN files[x[1]]
                  /\ files[x[1]][x[2]].kind = "compaction"}

LEMMA CompactionRowsAreFinite ==
  ASSUME Logs, NEW k
  PROVE  /\ IsFiniteSet(CompactionRows(k)) /\ Compactions(k) = Cardinality(CompactionRows(k))
         /\ Compactions(k) \in Nat
<1>1. IsFiniteSet(Places)
  <2>1. IsFiniteSet(1..said)
    <3>1. 1 \in Nat /\ said \in Nat
      BY DEF Logs
    <3> QED BY <3>1, FS_Interval
  <2> QED BY <2>1, FilesAreFinite, FS_Product DEF Places
<1>2. IsFiniteSet(CompactionRows(k))
  BY <1>1, FS_Subset DEF CompactionRows
<1>3. Compactions(k) = Cardinality(CompactionRows(k))
  BY DEF Compactions, CompactionRows
<1> QED BY <1>2, <1>3, FS_CardinalityType

LEMMA CompactionsSame ==
  ASSUME UNCHANGED <<files, said>>, NEW k
  PROVE  Compactions(k)' = Compactions(k)
BY DEF Compactions, Places

LEMMA NoCompactions ==
  ASSUME Logs, NEW k, \A f \in Files : files[f] = <<>>
  PROVE  Compactions(k) = 0
<1>1. CompactionRows(k) = {}
  BY DEF CompactionRows, Places
<1> QED BY <1>1, CompactionRowsAreFinite, FS_EmptySet

\* A row that is written counts if it is the summary of a compaction.
LEMMA CompactionsPut ==
  ASSUME Logs, NEW p \in Procs, NEW kind \in {"message", "compaction", "cleared"}, NEW l,
         PutRow(p, kind, l)
  PROVE  Compactions(KeyOf[p])' = Compactions(KeyOf[p]) + IF kind = "compaction" THEN 1 ELSE 0
<1> DEFINE f == Today(p)
           k == KeyOf[p]
           row == [kind |-> kind, id |-> said, glued |-> f \in ragged]
           n == Len(files[f]) + 1
           new == <<f, n>>
           Was == CompactionRows(k)
           Now == CompactionRows(k)'
<1>1. /\ f \in Files /\ f[1] = k
      /\ files'[f] \in Seq(Row) /\ Len(files'[f]) = n /\ Len(files[f]) \in Nat /\ n <= said
      /\ files'[f][n].kind = kind
      /\ \A i \in DOMAIN files[f] : files'[f][i] = files[f][i]
      /\ \A g \in Files \ {f} : files'[g] = files[g]
      /\ said' = said + 1 /\ said \in Nat /\ files[f] \in Seq(Row)
  <2>1. f \in Files /\ f[1] = k
    BY TodayIsFile DEF Logs
  <2>2. Len(files[f]) < said /\ said \in Nat /\ files[f] \in Seq(Row)
    BY <2>1 DEF Logs
  <2>3. row.kind = kind
    OBVIOUS
  <2>4. /\ files'[f] \in Seq(Row) /\ Len(files'[f]) = n /\ files'[f][n] = row
        /\ \A i \in DOMAIN files[f] : files'[f][i] = files[f][i]
        /\ \A g \in Files \ {f} : files'[g] = files[g]
        /\ said' = said + 1
    BY PutAppends
  <2>5. Len(files[f]) \in Nat
    BY <2>2
  <2> HIDE DEF f, row
  <2> QED BY <2>1, <2>2, <2>3, <2>4, <2>5
<1>2. DOMAIN files[f] = 1..(n - 1) /\ DOMAIN files'[f] = 1..n
  BY <1>1
<1>3. new \notin Was
  BY <1>1, <1>2 DEF CompactionRows
<1>4. ASSUME NEW x, x # new PROVE x \in Was <=> x \in Now
  <2> HIDE DEF f
  <2>1. x \in Places /\ x[1] = f /\ x[2] \in DOMAIN files'[f] => x[2] \in DOMAIN files[f]
    <3> SUFFICES ASSUME x \in Places, x[1] = f, x[2] \in DOMAIN files'[f] PROVE x[2] \in DOMAIN files[f]
      OBVIOUS
    <3>1. x = <<x[1], x[2]>> /\ x[2] \in Nat
      BY <1>1 DEF Places
    <3>2. x[2] # n
      BY <3>1, <1>4
    <3> QED BY <3>1, <3>2, <1>1, <1>2
  <2>2. ASSUME NEW g \in Files PROVE said' \notin DOMAIN files'[g] /\ said' \notin DOMAIN files[g]
    <3>1. files[g] \in Seq(Row) /\ Len(files[g]) < said
      BY DEF Logs
    <3>2. DOMAIN files[g] = 1..Len(files[g]) /\ Len(files[g]) \in Nat
      BY <3>1
    <3>3. said' \notin DOMAIN files[g]
      BY <3>1, <3>2, <1>1
    <3>4. CASE g = f
      BY <3>3, <3>4, <1>1, <1>2
    <3>5. CASE g # f
      BY <3>3, <3>5, <1>1
    <3> QED BY <3>3, <3>4, <3>5
  <2>3. x \in Places <=> x \in Places' /\ x[2] # said'
    <3>0. said' = said + 1 /\ said \in Nat
      BY <1>1
    <3>1. \A i : i \in 1..said <=> i \in 1..said' /\ i # said'
      BY <3>0
    <3> HIDE DEF Files
    <3>2. x \in Places <=> x \in Files \X (1..said)
      BY DEF Places
    <3>3. x \in Places' <=> x \in Files \X (1..said')
      BY DEF Places
    <3> QED BY <3>1, <3>2, <3>3
  <2>4. x \in Places' => x[1] \in Files /\ x[2] \in Nat
    <3>1. Places' = Files \X (1..said')
      BY DEF Places
    <3>2. \A i \in 1..said' : i \in Nat
      BY <1>1
    <3> QED BY <3>1, <3>2
  <2>5. CASE x[1] = f
    <3>1. x \in Places => x \in Places'
      BY <2>3
    <3>2. x \in Places' /\ x[2] \in DOMAIN files'[f] => x \in Places
      BY <2>2, <2>3, <2>5, <1>1
    <3>3. x \in Was <=> x \in Places /\ f[1] = k /\ x[2] \in DOMAIN files[f] /\ files[f][x[2]].kind = "compaction"
      BY <2>5 DEF CompactionRows
    <3>4. x \in Now <=> x \in Places' /\ f[1] = k /\ x[2] \in DOMAIN files'[f] /\ files'[f][x[2]].kind = "compaction"
      BY <2>5 DEF CompactionRows
    <3>5. \A i \in DOMAIN files[f] : i \in DOMAIN files'[f]
      BY <1>1, <1>2
    <3> HIDE DEF k, n
    <3> QED BY <3>1, <3>2, <3>3, <3>4, <3>5, <2>1, <2>5, <1>1
  <2>6. CASE x[1] # f
    <3>1. x \in Places' => files'[x[1]] = files[x[1]]
      BY <2>4, <2>6, <1>1
    <3>2. x \in Places' /\ x[2] \in DOMAIN files'[x[1]] => x \in Places
      BY <2>2, <2>3, <2>4
    <3> QED BY <3>1, <3>2, <2>3 DEF CompactionRows
  <2> QED BY <2>5, <2>6
<1>5. new \in Now <=> kind = "compaction"
  <2>1. new \in Places'
    BY <1>1 DEF Places
  <2> QED BY <2>1, <1>1, <1>2 DEF CompactionRows
<1>6. IsFiniteSet(Was) /\ Compactions(k) = Cardinality(Was) /\ Compactions(k) \in Nat
  BY CompactionRowsAreFinite
<1>7. Compactions(k)' = Cardinality(Now)
  BY DEF Compactions, CompactionRows
<1>8. CASE kind = "compaction"
  <2>1. Now = Was \cup {new}
    BY <1>4, <1>5, <1>8
  <2>2. Cardinality(Was \cup {new}) = Cardinality(Was) + 1
    <3> HIDE DEF Was, new
    <3> QED BY <1>3, <1>6, FS_AddElement
  <2> QED BY <2>1, <2>2, <1>6, <1>7, <1>8
<1>9. CASE kind # "compaction"
  <2>1. Now = Was
    <3> HIDE DEF Now, Was, new
    <3> QED BY <1>3, <1>4, <1>5, <1>9
  <2> QED BY <2>1, <1>6, <1>7, <1>9
<1> QED BY <1>8, <1>9

\* The store as the process knows it: what it is writing, or what is there.
Book(p) == IF pc[p] \in {"truncate", "write"} THEN snap[p] ELSE store

\* From the header of a turn or of a /compact on, and as long as it is open, a
\* session has an entry.
Entered(w, o, isOpen) ==
  \/ isOpen \/ (w = "read" /\ o \in {"turn", "compact"})
  \/ w \in {"header", "early", "check", "flush", "mark", "summarise", "count", "budget",
            "user", "loop"}
Due(w) == IF w = "count" THEN 1 ELSE 0

\* The entry of key k in the store s of a process on its way to w, with fl
\* flush turns since the last of n compactions and next compaction c.
Balanced(k, s, w, o, isOpen, fl, c, n) ==
  /\ Entered(w, o, isOpen) => k \in DOMAIN s
  /\ w \notin {"archive", "counts"} => n = IF k \in DOMAIN s THEN s[k].count + Due(w) ELSE 0
  /\ fl <= 1 /\ (k \notin DOMAIN s \/ w \in {"flush", "count"} => fl = 0)
  /\ k \in DOMAIN s /\ fl = 1 /\ w # "mark" => s[k].flushed = s[k].count + 1
  /\ w \in {"flush", "mark"} => c = s[k].count + 1

AllComplete(s) == \A j \in DOMAIN s : s[j].complete

Counted(p) ==
  /\ Balanced(KeyOf[p], Book(p), Toward(then[p], pc[p]), op[p], open[p],
              flushes[KeyOf[p]], cycle[p], Compactions(KeyOf[p]))
  /\ torn = (pc[p] = "write") /\ AllComplete(store) /\ AllComplete(Book(p))
  /\ \A f \in Files : f[1] # KeyOf[p] => files[f] = <<>>
  /\ pc[p] = "archive" => todo[p] = {f \in Files : files[f] # <<>>}
  /\ pc[p] = "counts" => \A f \in Files : files[f] = <<>>

LEMMA CountedStep ==
  ASSUME SessionTypes, NEW p \in Procs, Counted(p), ActsOf(p), ~Crash(p)
  PROVE  Counted(p)'
<1>0. /\ p \in Actors /\ Route(op[p], stage[p], then[p], pc[p]) /\ KeyOf[p] \in Keys
      /\ pc = [a \in Actors |-> pc[a]] /\ then = [a \in Actors |-> then[a]]
      /\ op = [a \in Actors |-> op[a]] /\ stage = [q \in Procs |-> stage[q]]
      /\ snap = [a \in Actors |-> snap[a]] /\ open \in [Procs -> BOOLEAN]
      /\ cycle \in [Procs -> Nat] /\ flushes \in [Keys -> 0..2]
      /\ todo \in [Procs -> SUBSET Files] /\ DOMAIN files = Files
      /\ IsStore(store) /\ IsStore(snap[p]) /\ Logs /\ said \in Nat /\ Compactions(KeyOf[p]) \in Nat
  BY SessionAssumption, CompactionRowsAreFinite
  DEF SessionTypes, Routes, Index, Tallies, Logs, Actors
<1>e. /\ KeyOf[p] \in DOMAIN store => store[KeyOf[p]] \in Entry
      /\ KeyOf[p] \in DOMAIN snap[p] => snap[p][KeyOf[p]] \in Entry
  BY <1>0 DEF IsStore
<1>s. UNCHANGED <<files, said>> => Compactions(KeyOf[p])' = Compactions(KeyOf[p])
  BY CompactionsSame
<1>1. ASSUME NEW o \in SessionOps, Start(p, o)
      PROVE  Counted(p)'
  BY <1>1, <1>0, <1>e, <1>s DEF Start, Goto, disk, local, observed, Counted, Balanced, Book, Entered, Due, Toward, Route, AllComplete
<1>2. ASSUME EnsureSession(p)
      PROVE  Counted(p)'
  <2> DEFINE k == KeyOf[p]
             e == IF k \in DOMAIN store THEN store[k] ELSE NewEntry
             s == With(store, k, e)
  <2>1. /\ pc[p] = "load" /\ UNCHANGED <<files, said, store, torn, op, open, flushes, cycle>>
        /\ \/ pc'[p] = "idle" /\ Loadable = FALSE
           \/ pc'[p] = "truncate" /\ then'[p] = "header" /\ snap'[p] = s
    BY <1>2, <1>0 DEF EnsureSession, Save, Goto, disk, observed
  <2>2. Loadable
    BY <2>1 DEF Counted, Loadable, AllComplete
  <2>3. DOMAIN s = DOMAIN store \cup {k} /\ s[k] = e /\ \A j \in DOMAIN store \ {k} : s[j] = store[j]
    BY DEF With
  <2>4. e.count \in Nat /\ (k \notin DOMAIN store => e.count = 0) /\ (k \in DOMAIN store => e = store[k]) /\ e.complete
    BY <1>e, <2>2 DEF Entry, NewEntry, Loadable
  <2>5. AllComplete(s)
    BY <2>2, <2>3, <2>4 DEF AllComplete, Loadable
  <2>6. Book(p) = store /\ Book(p)' = s
    BY <2>1, <2>2 DEF Book
  <2> HIDE DEF s, e
  <2>7. Balanced(k, Book(p), Toward(then[p], pc[p]), op[p], open[p], flushes[k], cycle[p], Compactions(k))'
    BY <1>s, <1>0, <2>1, <2>2, <2>3, <2>4, <2>6 DEF Counted, Balanced, Entered, Due, Toward
  <2> QED BY <2>1, <2>2, <2>5, <2>6, <2>7 DEF Counted, AllComplete
<1>3. ASSUME EnsureHeader(p)
      PROVE  Counted(p)'
  BY <1>3, <1>0, <1>e, <1>s DEF EnsureHeader, Goto, disk, local, observed, Counted, Balanced, Book, Entered, Due, Toward, Route, AllComplete
<1>4. ASSUME ReadHistory(p)
      PROVE  Counted(p)'
  BY <1>4, <1>0, <1>e, <1>s DEF ReadHistory, Goto, AfterRead, AfterFailedRead, disk, local, observed, Counted, Balanced, Book, Entered, Due, Toward, Route, AllComplete
<1>5. ASSUME EarlyFlush(p)
      PROVE  Counted(p)'
  <2>1. /\ pc[p] = "early" /\ UNCHANGED <<files, said, store, torn, op, open, flushes, snap>>
        /\ \/ pc'[p] \in {"check", "budget", "summarise"} /\ cycle' = cycle
           \/ /\ pc'[p] = "flush" /\ NeedsFlush(KeyOf[p])
              /\ cycle'[p] = store[KeyOf[p]].count + 1
    BY <1>5, <1>0 DEF EarlyFlush, FlushThen, Goto, disk, observed
  <2>2. Book(p) = store /\ Book(p)' = store
    BY <2>1 DEF Book
  <2>3. KeyOf[p] \in DOMAIN store /\ op[p] = "turn"
    BY <1>0, <2>1, <2>2 DEF Counted, Balanced, Entered, Toward, Route
  <2>4. NeedsFlush(KeyOf[p]) => flushes[KeyOf[p]] = 0
    BY <1>0, <2>1, <2>2, <2>3 DEF NeedsFlush, Counted, Balanced, Toward
  <2>5. Balanced(KeyOf[p], Book(p), Toward(then[p], pc[p]), op[p], open[p],
                 flushes[KeyOf[p]], cycle[p], Compactions(KeyOf[p]))'
    BY <1>s, <1>0, <2>1, <2>2, <2>3, <2>4 DEF Counted, Balanced, Entered, Due, Toward
  <2> QED BY <2>1, <2>2, <2>5 DEF Counted, AllComplete
<1>6. ASSUME Check(p)
      PROVE  Counted(p)'
  <2>1. /\ pc[p] = "check" /\ UNCHANGED <<files, said, store, torn, op, open, flushes, snap>>
        /\ \/ pc'[p] \in {"check", "budget", "summarise"} /\ cycle' = cycle
           \/ /\ pc'[p] = "flush" /\ NeedsFlush(KeyOf[p])
              /\ cycle'[p] = store[KeyOf[p]].count + 1
    BY <1>6, <1>0 DEF Check, FlushThen, Goto, disk, observed
  <2>2. Book(p) = store /\ Book(p)' = store
    BY <2>1 DEF Book
  <2>3. KeyOf[p] \in DOMAIN store /\ op[p] = "turn"
    BY <1>0, <2>1, <2>2 DEF Counted, Balanced, Entered, Toward, Route
  <2>4. NeedsFlush(KeyOf[p]) => flushes[KeyOf[p]] = 0
    BY <1>0, <2>1, <2>2, <2>3 DEF NeedsFlush, Counted, Balanced, Toward
  <2>5. Balanced(KeyOf[p], Book(p), Toward(then[p], pc[p]), op[p], open[p],
                 flushes[KeyOf[p]], cycle[p], Compactions(KeyOf[p]))'
    BY <1>s, <1>0, <2>1, <2>2, <2>3, <2>4 DEF Counted, Balanced, Entered, Due, Toward
  <2> QED BY <2>1, <2>2, <2>5 DEF Counted, AllComplete
<1>7. ASSUME NEW ok \in BOOLEAN, FlushTurn(p, ok)
      PROVE  Counted(p)'
  BY <1>7, <1>0, <1>e, <1>s DEF FlushTurn, Goto, disk, local, observed, Counted, Balanced, Book, Entered, Due, Toward, Route, AllComplete
<1>8. ASSUME MarkFlushed(p)
      PROVE  Counted(p)'
  <2> DEFINE k == KeyOf[p]
             e == [store[k] EXCEPT !.flushed = cycle[p]]
             s == [store EXCEPT ![k] = e]
  <2>1. /\ pc[p] = "mark" /\ UNCHANGED <<files, said, store, torn, op, open, flushes, cycle>>
        /\ op' = op
    BY <1>8 DEF MarkFlushed, disk, observed
  <2>2. Book(p) = store /\ k \in DOMAIN store /\ Loadable
    BY <2>1 DEF Counted, Balanced, Book, Entered, Toward, AllComplete, Loadable
  <2>3. store[k] \in Entry
    BY <1>e, <2>2
  <2>4. e \in Entry /\ e.complete /\ e.flushed = cycle[p] /\ e.count = store[k].count
    BY <1>0, <2>2, <2>3 DEF Entry, Loadable
  <2>5. [store EXCEPT ![k].flushed = cycle[p]] = s
    BY <1>0, <2>2, <2>3 DEF Entry, IsStore
  <2>6. pc'[p] = "truncate" /\ then'[p] = then[p] /\ snap'[p] = s
    BY <1>8, <1>0, <2>2, <2>5 DEF MarkFlushed, Holds, Save, Goto
  <2>7. s[k] = e /\ DOMAIN s = DOMAIN store /\ \A j \in DOMAIN store \ {k} : s[j] = store[j]
    BY <2>2
  <2>8. AllComplete(s)
    BY <2>2, <2>4, <2>7 DEF AllComplete, Loadable
  <2>9. Book(p)' = s /\ Toward(then[p], pc[p])' = then[p]
    BY <2>6 DEF Book, Toward
  <2> HIDE DEF s, e
  <2>10. then[p] \in {"check", "summarise"}
    BY <1>0, <2>1 DEF Route, Toward
  <2>11. Balanced(k, Book(p), Toward(then[p], pc[p]), op[p], open[p], flushes[k], cycle[p], Compactions(k))'
    BY <1>s, <1>0, <2>1, <2>2, <2>3, <2>4, <2>6, <2>7, <2>9, <2>10 DEF Counted, Balanced, Entered, Due, Toward, Entry
  <2> QED BY <2>1, <2>2, <2>6, <2>8, <2>9, <2>11 DEF Counted, AllComplete
<1>9. ASSUME KeepAll(p)
      PROVE  Counted(p)'
  BY <1>9, <1>0, <1>e, <1>s DEF KeepAll, AfterCompaction, Goto, disk, local, observed, Counted, Balanced, Book, Entered, Due, Toward, Route, AllComplete
<1>10. ASSUME Summarise(p)
       PROVE  Counted(p)'
  <2>1. /\ pc[p] = "summarise" /\ pc'[p] = "newline" /\ then'[p] = "count"
        /\ UNCHANGED <<store, torn, op, snap, open, cycle>>
        /\ flushes'[KeyOf[p]] = 0
    <3>1. /\ pc[p] = "summarise" /\ Goto(p, "newline") /\ then' = [then EXCEPT ![p] = "count"]
          /\ UNCHANGED <<store, torn, op, snap, open, cycle>>
      BY <1>10 DEF Summarise, PutRow
    <3>2. flushes'[KeyOf[p]] = 0
      BY <1>10, <1>0 DEF Summarise, observed
    <3> QED BY <3>1, <3>2, <1>0 DEF Goto
  <2>2. Compactions(KeyOf[p])' = Compactions(KeyOf[p]) + 1
    BY <1>10, <1>0, CompactionsPut DEF Summarise
  <2>3. Balanced(KeyOf[p], Book(p), Toward(then[p], pc[p]), op[p], open[p],
                 flushes[KeyOf[p]], cycle[p], Compactions(KeyOf[p]))'
    <3>1. KeyOf[p] \in DOMAIN store /\ Compactions(KeyOf[p]) = store[KeyOf[p]].count
      BY <2>1, <1>0, <1>e DEF Counted, Balanced, Book, Entered, Due, Toward, Entry
    <3>2. Book(p)' = store /\ Toward(then[p], pc[p])' = "count"
      BY <2>1 DEF Book, Toward
    <3>3. Compactions(KeyOf[p])' = store[KeyOf[p]].count + Due("count")
      BY <3>1, <2>2 DEF Due
    <3> QED BY <2>1, <3>1, <3>2, <3>3 DEF Balanced
  <2>4. ASSUME NEW f \in Files, f[1] # KeyOf[p] PROVE files'[f] = <<>>
    <3>1. f # Today(p)
      BY <2>4 DEF Today
    <3>2. files'[f] = files[f]
      BY <1>10, <1>0, <3>1, PutAppends DEF Summarise
    <3> QED BY <3>2, <2>4 DEF Counted
  <2>5. torn' = (pc'[p] = "write") /\ AllComplete(store)' /\ AllComplete(Book(p))'
    BY <2>1 DEF Counted, AllComplete, Book
  <2> QED BY <2>1, <2>3, <2>4, <2>5 DEF Counted
<1>11. ASSUME CountCompaction(p)
       PROVE  Counted(p)'
  <2> DEFINE k == KeyOf[p]
             e == [store[k] EXCEPT !.count = @ + 1]
             s == [store EXCEPT ![k] = e]
  <2>1. /\ pc[p] = "count" /\ UNCHANGED <<files, said, store, torn, op, open, flushes, cycle>>
        /\ op' = op
    BY <1>11 DEF CountCompaction, disk, observed
  <2>2. Book(p) = store /\ k \in DOMAIN store /\ Loadable
    BY <2>1 DEF Counted, Balanced, Book, Entered, Toward, AllComplete, Loadable
  <2>3. store[k] \in Entry
    BY <1>e, <2>2
  <2>4. e \in Entry /\ e.complete /\ e.count = store[k].count + 1
    BY <1>0, <2>2, <2>3 DEF Entry, Loadable
  <2>5. [store EXCEPT ![k].count = @ + 1] = s
    BY <1>0, <2>2, <2>3 DEF Entry, IsStore
  <2>6. pc'[p] = "truncate" /\ then'[p] = AfterCompaction(p) /\ snap'[p] = s
    BY <1>11, <1>0, <2>2, <2>5 DEF CountCompaction, Holds, Save, Goto
  <2>7. s[k] = e /\ DOMAIN s = DOMAIN store /\ \A j \in DOMAIN store \ {k} : s[j] = store[j]
    BY <2>2
  <2>8. AllComplete(s)
    BY <2>2, <2>4, <2>7 DEF AllComplete, Loadable
  <2>9. Book(p)' = s /\ Toward(then[p], pc[p])' = AfterCompaction(p)
    BY <2>6 DEF Book, Toward
  <2> HIDE DEF s, e
  <2>10. AfterCompaction(p) \in {"idle", "budget", "user"}
    BY <1>0, <2>1 DEF Route, Toward, AfterCompaction
  <2>11. Balanced(k, Book(p), Toward(then[p], pc[p]), op[p], open[p], flushes[k], cycle[p], Compactions(k))'
    BY <1>s, <1>0, <2>1, <2>2, <2>3, <2>4, <2>6, <2>7, <2>9, <2>10 DEF Counted, Balanced, Entered, Due, Toward, Entry
  <2> QED BY <2>1, <2>2, <2>6, <2>8, <2>9, <2>11 DEF Counted, AllComplete
<1>12. ASSUME NEW remembers \in BOOLEAN, NEW over \in BOOLEAN,
              Budget(p, remembers, over)
       PROVE  Counted(p)'
  BY <1>12, <1>0, <1>e, <1>s DEF Budget, Goto, disk, local, observed, Counted, Balanced, Book, Entered, Due, Toward, Route, AllComplete
<1>13. ASSUME AppendUser(p)
       PROVE  Counted(p)'
  <2>1. /\ pc[p] = "user" /\ pc'[p] = "newline" /\ then'[p] = "loop"
        /\ UNCHANGED <<store, torn, op, snap, open, cycle>>
        /\ UNCHANGED flushes
    <3>1. /\ pc[p] = "user" /\ Goto(p, "newline") /\ then' = [then EXCEPT ![p] = "loop"]
          /\ UNCHANGED <<store, torn, op, snap, open, cycle>>
      BY <1>13 DEF AppendUser, PutRow
    <3>2. UNCHANGED flushes
      BY <1>13, <1>0 DEF AppendUser, observed
    <3> QED BY <3>1, <3>2, <1>0 DEF Goto
  <2>2. Compactions(KeyOf[p])' = Compactions(KeyOf[p]) + 0
    BY <1>13, <1>0, CompactionsPut DEF AppendUser
  <2>3. Balanced(KeyOf[p], Book(p), Toward(then[p], pc[p]), op[p], open[p],
                 flushes[KeyOf[p]], cycle[p], Compactions(KeyOf[p]))'
    BY <2>1, <2>2, <1>0, <1>e DEF Counted, Balanced, Book, Entered, Due, Toward, Route
  <2>4. ASSUME NEW f \in Files, f[1] # KeyOf[p] PROVE files'[f] = <<>>
    <3>1. f # Today(p)
      BY <2>4 DEF Today
    <3>2. files'[f] = files[f]
      BY <1>13, <1>0, <3>1, PutAppends DEF AppendUser
    <3> QED BY <3>2, <2>4 DEF Counted
  <2>5. torn' = (pc'[p] = "write") /\ AllComplete(store)' /\ AllComplete(Book(p))'
    BY <2>1 DEF Counted, AllComplete, Book
  <2> QED BY <2>1, <2>3, <2>4, <2>5 DEF Counted
<1>14. ASSUME AgentLoopFails(p)
       PROVE  Counted(p)'
  BY <1>14, <1>0, <1>e, <1>s DEF AgentLoopFails, Goto, disk, local, observed, Counted, Balanced, Book, Entered, Due, Toward, Route, AllComplete
<1>15. ASSUME AppendAssistant(p)
       PROVE  Counted(p)'
  <2>1. /\ pc[p] = "loop" /\ pc'[p] = "newline" /\ then'[p] = "idle"
        /\ UNCHANGED <<store, torn, op, snap, open, cycle>>
        /\ UNCHANGED flushes
    <3>1. /\ pc[p] = "loop" /\ Goto(p, "newline") /\ then' = [then EXCEPT ![p] = "idle"]
          /\ UNCHANGED <<store, torn, op, snap, open, cycle>>
      BY <1>15 DEF AppendAssistant, PutRow
    <3>2. UNCHANGED flushes
      BY <1>15, <1>0 DEF AppendAssistant, observed
    <3> QED BY <3>1, <3>2, <1>0 DEF Goto
  <2>2. Compactions(KeyOf[p])' = Compactions(KeyOf[p]) + 0
    BY <1>15, <1>0, CompactionsPut DEF AppendAssistant
  <2>3. Balanced(KeyOf[p], Book(p), Toward(then[p], pc[p]), op[p], open[p],
                 flushes[KeyOf[p]], cycle[p], Compactions(KeyOf[p]))'
    BY <2>1, <2>2, <1>0, <1>e DEF Counted, Balanced, Book, Entered, Due, Toward, Route
  <2>4. ASSUME NEW f \in Files, f[1] # KeyOf[p] PROVE files'[f] = <<>>
    <3>1. f # Today(p)
      BY <2>4 DEF Today
    <3>2. files'[f] = files[f]
      BY <1>15, <1>0, <3>1, PutAppends DEF AppendAssistant
    <3> QED BY <3>2, <2>4 DEF Counted
  <2>5. torn' = (pc'[p] = "write") /\ AllComplete(store)' /\ AllComplete(Book(p))'
    BY <2>1 DEF Counted, AllComplete, Book
  <2> QED BY <2>1, <2>3, <2>4, <2>5 DEF Counted
<1>16. ASSUME RememberNothing(p)
       PROVE  Counted(p)'
  BY <1>16, <1>0, <1>e, <1>s DEF RememberNothing, EndOfClear, Goto, disk, local, observed, Counted, Balanced, Book, Entered, Due, Toward, Route, AllComplete
<1>17. ASSUME Remember(p)
       PROVE  Counted(p)'
  <2>1. /\ pc[p] = "remember" /\ pc'[p] = "newline" /\ then'[p] = EndOfClear(op[p])
        /\ UNCHANGED <<store, torn, op, snap, open, cycle>>
        /\ flushes'[KeyOf[p]] = 0
    <3>1. /\ pc[p] = "remember" /\ Goto(p, "newline") /\ then' = [then EXCEPT ![p] = EndOfClear(op[p])]
          /\ UNCHANGED <<store, torn, op, snap, open, cycle>>
      BY <1>17 DEF Remember, PutRow
    <3>2. flushes'[KeyOf[p]] = 0
      BY <1>17, <1>0 DEF Remember, observed
    <3> QED BY <3>1, <3>2, <1>0 DEF Goto
  <2>2. Compactions(KeyOf[p])' = Compactions(KeyOf[p]) + 0
    BY <1>17, <1>0, CompactionsPut DEF Remember
  <2>3. Balanced(KeyOf[p], Book(p), Toward(then[p], pc[p]), op[p], open[p],
                 flushes[KeyOf[p]], cycle[p], Compactions(KeyOf[p]))'
    BY <2>1, <2>2, <1>0, <1>e DEF Counted, Balanced, Book, Entered, Due, Toward, Route, EndOfClear
  <2>4. ASSUME NEW f \in Files, f[1] # KeyOf[p] PROVE files'[f] = <<>>
    <3>1. f # Today(p)
      BY <2>4 DEF Today
    <3>2. files'[f] = files[f]
      BY <1>17, <1>0, <3>1, PutAppends DEF Remember
    <3> QED BY <3>2, <2>4 DEF Counted
  <2>5. torn' = (pc'[p] = "write") /\ AllComplete(store)' /\ AllComplete(Book(p))'
    BY <2>1 DEF Counted, AllComplete, Book
  <2> QED BY <2>1, <2>3, <2>4, <2>5 DEF Counted
<1>18. ASSUME ListFiles(p)
       PROVE  Counted(p)'
  <2>1. /\ pc[p] = "list" /\ pc'[p] = "archive" /\ todo'[p] = Listed(KeyOf[p])
        /\ UNCHANGED <<files, said, store, torn, op, then, open, flushes, cycle, snap>>
    BY <1>18, <1>0 DEF ListFiles, Goto, disk, observed
  <2>2. Listed(KeyOf[p]) = {f \in Files : files[f] # <<>>}
    BY <1>0, SessionAssumption DEF Counted, Listed
  <2>3. Book(p) = store /\ Book(p)' = store
    BY <2>1 DEF Book
  <2>4. Balanced(KeyOf[p], Book(p), Toward(then[p], pc[p]), op[p], open[p],
                 flushes[KeyOf[p]], cycle[p], Compactions(KeyOf[p]))'
    BY <1>s, <1>0, <2>1, <2>3 DEF Counted, Balanced, Entered, Due, Toward
  <2> QED BY <2>1, <2>2, <2>3, <2>4 DEF Counted, AllComplete
<1>19. ASSUME Archive(p)
       PROVE  Counted(p)'
  <2>1. /\ pc[p] = "archive" /\ UNCHANGED <<said, store, torn, op, then, open, flushes, cycle, snap>>
        /\ todo[p] = {f \in Files : files[f] # <<>>}
    BY <1>19 DEF Archive, observed, Counted
  <2>2. \/ pc'[p] = "counts" /\ todo[p] = {} /\ files' = files
        \/ /\ pc' = pc
           /\ \E f \in todo[p] : /\ files' = [files EXCEPT ![f] = <<>>]
                                 /\ todo' = [todo EXCEPT ![p] = @ \ {f}]
    BY <1>19, <1>0, <2>1 DEF Archive, First, RemoveFile, Goto
  <2>3. Book(p) = store /\ Book(p)' = store
    BY <2>1, <2>2 DEF Book
  <2>4. Balanced(KeyOf[p], Book(p), Toward(then[p], pc[p]), op[p], open[p],
                 flushes[KeyOf[p]], cycle[p], Compactions(KeyOf[p]))'
    BY <1>0, <2>1, <2>2, <2>3 DEF Counted, Balanced, Entered, Due, Toward
  <2>5. /\ \A f \in Files : f[1] # KeyOf[p] => files'[f] = <<>>
        /\ pc'[p] = "archive" => todo'[p] = {f \in Files : files'[f] # <<>>}
    <3>1. CASE files' = files /\ pc'[p] = "counts"
      BY <3>1 DEF Counted
    <3>2. ASSUME NEW f \in todo[p], files' = [files EXCEPT ![f] = <<>>],
                 todo' = [todo EXCEPT ![p] = @ \ {f}]
          PROVE  /\ \A g \in Files : g[1] # KeyOf[p] => files'[g] = <<>>
                 /\ todo'[p] = {g \in Files : files'[g] # <<>>}
      <4>1. \A g \in Files : files'[g] = IF g = f THEN <<>> ELSE files[g]
        BY <1>0, <3>2
      <4>2. todo'[p] = todo[p] \ {f}
        BY <1>0, <3>2
      <4> QED BY <2>1, <4>1, <4>2 DEF Counted
    <3> QED BY <2>2, <3>1, <3>2
  <2>6. pc'[p] = "counts" => \A f \in Files : files'[f] = <<>>
    BY <2>1, <2>2
  <2> QED BY <2>1, <2>2, <2>3, <2>4, <2>5, <2>6 DEF Counted, AllComplete
<1>20. ASSUME ResetCounts(p)
       PROVE  Counted(p)'
  <2> DEFINE k == KeyOf[p]
             s == [j \in DOMAIN store |-> IF j = k THEN ResetEntry(store[j]) ELSE store[j]]
  <2>1. /\ pc[p] = "counts" /\ UNCHANGED <<files, said, store, torn, op, open, cycle>>
        /\ flushes'[k] = 0
    BY <1>20, <1>0 DEF ResetCounts, disk
  <2>2. Book(p) = store /\ Loadable
    BY <2>1 DEF Counted, Book, AllComplete, Loadable
  <2>3. pc'[p] = "truncate" /\ then'[p] = "reset" /\ snap'[p] = s
    BY <1>20, <1>0, <2>2 DEF ResetCounts, Save, Goto
  <2>4. DOMAIN s = DOMAIN store /\ \A j \in DOMAIN store : s[j].complete = store[j].complete
    <3>1. \A j \in DOMAIN store : store[j] \in Entry
      BY <1>0 DEF IsStore
    <3> QED BY <3>1 DEF ResetEntry, Entry
  <2>5. k \in DOMAIN store => s[k].count = 0
    BY <1>e DEF ResetEntry, Entry
  <2>6. Compactions(k)' = 0
    BY <1>0, <1>s, <2>1, NoCompactions DEF Counted
  <2>7. Book(p)' = s
    BY <2>3 DEF Book
  <2> HIDE DEF s
  <2>8. Balanced(k, Book(p), Toward(then[p], pc[p]), op[p], open[p], flushes[k], cycle[p], Compactions(k))'
    BY <1>0, <2>1, <2>2, <2>3, <2>4, <2>5, <2>6, <2>7 DEF Counted, Balanced, Entered, Due, Toward
  <2> QED BY <2>1, <2>2, <2>3, <2>4, <2>7, <2>8 DEF Counted, AllComplete, Loadable
<1>21. ASSUME ResetSession(p)
       PROVE  Counted(p)'
  BY <1>21, <1>0, <1>e, <1>s DEF ResetSession, Goto, disk, local, observed, Counted, Balanced, Book, Entered, Due, Toward, Route, AllComplete
<1>22. ASSUME Newline(p)
       PROVE  Counted(p)'
  BY <1>22, <1>0, <1>e, <1>s DEF Newline, Goto, disk, local, observed, Counted, Balanced, Book, Entered, Due, Toward, Route, AllComplete
<1>23. ASSUME Truncate(p)
       PROVE  Counted(p)'
  BY <1>23, <1>0, <1>e, <1>s DEF Truncate, Goto, disk, local, observed, Counted, Balanced, Book, Entered, Due, Toward, Route, AllComplete
<1>24. ASSUME Write(p)
       PROVE  Counted(p)'
  BY <1>24, <1>0, <1>e, <1>s DEF Write, Goto, disk, local, observed, Counted, Balanced, Book, Entered, Due, Toward, Route, AllComplete
<1>25. ASSUME Crash(p)
       PROVE  Counted(p)'
  BY <1>25
<1> QED
  BY <1>1, <1>2, <1>3, <1>4, <1>5, <1>6, <1>7, <1>8, <1>9, <1>10, <1>11, <1>12, <1>13, <1>14, <1>15, <1>16, <1>17, <1>18, <1>19, <1>20, <1>21, <1>22, <1>23, <1>24, <1>25
  DEF ActsOf, Turn, Clear

\* A desktop without commands never acts, and crashes are never forgotten.
LEMMA DesktopRests ==
  ASSUME DesktopOps = {}, SessionTypes, pc[Desktop] = "idle", SessionNext \/ UNCHANGED session
  PROVE  pc'[Desktop] = "idle"
<1>0. /\ Desktop \in Actors /\ Procs \subseteq Actors /\ Desktop \notin Procs
      /\ pc = [a \in Actors |-> pc[a]]
  BY SessionAssumption DEF SessionTypes, Routes, Actors
<1>1. ASSUME NEW p \in Procs, NEW o \in SessionOps, Start(p, o)
      PROVE  pc'[Desktop] = "idle"
  BY <1>1, <1>0 DEF Start, Goto
<1>2. ASSUME NEW p \in Procs, EnsureSession(p)
      PROVE  pc'[Desktop] = "idle"
  BY <1>2, <1>0 DEF EnsureSession, Save, Goto
<1>3. ASSUME NEW p \in Procs, EnsureHeader(p)
      PROVE  pc'[Desktop] = "idle"
  BY <1>3, <1>0 DEF EnsureHeader, Goto
<1>4. ASSUME NEW p \in Procs, ReadHistory(p)
      PROVE  pc'[Desktop] = "idle"
  BY <1>4, <1>0 DEF ReadHistory, Goto, AfterRead, AfterFailedRead
<1>5. ASSUME NEW p \in Procs, EarlyFlush(p)
      PROVE  pc'[Desktop] = "idle"
  BY <1>5, <1>0 DEF EarlyFlush, FlushThen, Goto
<1>6. ASSUME NEW p \in Procs, Check(p)
      PROVE  pc'[Desktop] = "idle"
  BY <1>6, <1>0 DEF Check, FlushThen, Goto
<1>7. ASSUME NEW p \in Procs, NEW ok \in BOOLEAN, FlushTurn(p, ok)
      PROVE  pc'[Desktop] = "idle"
  BY <1>7, <1>0 DEF FlushTurn, Goto
<1>8. ASSUME NEW p \in Procs, MarkFlushed(p)
      PROVE  pc'[Desktop] = "idle"
  BY <1>8, <1>0 DEF MarkFlushed, Save, Goto
<1>9. ASSUME NEW p \in Procs, KeepAll(p)
      PROVE  pc'[Desktop] = "idle"
  BY <1>9, <1>0 DEF KeepAll, AfterCompaction, Goto
<1>10. ASSUME NEW p \in Procs, Summarise(p)
       PROVE  pc'[Desktop] = "idle"
  BY <1>10, <1>0 DEF Summarise, PutRow, Goto
<1>11. ASSUME NEW p \in Procs, CountCompaction(p)
       PROVE  pc'[Desktop] = "idle"
  BY <1>11, <1>0 DEF CountCompaction, AfterCompaction, Save, Goto
<1>12. ASSUME NEW p \in Procs, NEW remembers \in BOOLEAN, NEW over \in BOOLEAN,
              Budget(p, remembers, over)
       PROVE  pc'[Desktop] = "idle"
  BY <1>12, <1>0 DEF Budget, Goto
<1>13. ASSUME NEW p \in Procs, AppendUser(p)
       PROVE  pc'[Desktop] = "idle"
  BY <1>13, <1>0 DEF AppendUser, PutRow, Goto
<1>14. ASSUME NEW p \in Procs, AgentLoopFails(p)
       PROVE  pc'[Desktop] = "idle"
  BY <1>14, <1>0 DEF AgentLoopFails, Goto
<1>15. ASSUME NEW p \in Procs, AppendAssistant(p)
       PROVE  pc'[Desktop] = "idle"
  BY <1>15, <1>0 DEF AppendAssistant, PutRow, Goto
<1>16. ASSUME NEW p \in Procs, RememberNothing(p)
       PROVE  pc'[Desktop] = "idle"
  BY <1>16, <1>0 DEF RememberNothing, EndOfClear, Goto
<1>17. ASSUME NEW p \in Procs, Remember(p)
       PROVE  pc'[Desktop] = "idle"
  BY <1>17, <1>0 DEF Remember, EndOfClear, PutRow, Goto
<1>18. ASSUME NEW p \in Procs, ListFiles(p)
       PROVE  pc'[Desktop] = "idle"
  BY <1>18, <1>0 DEF ListFiles, Goto
<1>19. ASSUME NEW p \in Procs, Archive(p)
       PROVE  pc'[Desktop] = "idle"
  BY <1>19, <1>0 DEF Archive, RemoveFile, Goto
<1>20. ASSUME NEW p \in Procs, ResetCounts(p)
       PROVE  pc'[Desktop] = "idle"
  BY <1>20, <1>0 DEF ResetCounts, Save, Goto
<1>21. ASSUME NEW p \in Procs, ResetSession(p)
       PROVE  pc'[Desktop] = "idle"
  BY <1>21, <1>0 DEF ResetSession, Goto
<1>22. ASSUME NEW p \in Procs, Newline(p)
       PROVE  pc'[Desktop] = "idle"
  BY <1>22, <1>0 DEF Newline, Goto
<1>23. ASSUME NEW a \in Actors, Truncate(a)
       PROVE  pc'[Desktop] = "idle"
  BY <1>23, <1>0 DEF Truncate, Goto
<1>24. ASSUME NEW a \in Actors, Write(a)
       PROVE  pc'[Desktop] = "idle"
  BY <1>24, <1>0 DEF Write, Goto
<1>25. ASSUME NEW a \in Actors, Crash(a)
       PROVE  pc'[Desktop] = "idle"
  BY <1>25, <1>0 DEF Crash, Goto
<1>26. ASSUME NEW k \in Keys, CreateSession(k)
       PROVE  pc'[Desktop] = "idle"
  BY <1>26 DEF CreateSession, DesktopStarts
<1>27. ASSUME NEW k \in Keys, RenameSession(k)
       PROVE  pc'[Desktop] = "idle"
  BY <1>27 DEF RenameSession, DesktopStarts
<1>28. ASSUME NEW k \in Keys, DeleteSession(k)
       PROVE  pc'[Desktop] = "idle"
  BY <1>28 DEF DeleteSession, DesktopStarts
<1>29. ASSUME UnlinkTranscripts
       PROVE  pc'[Desktop] = "idle"
  BY <1>29 DEF UnlinkTranscripts
<1>30. ASSUME NextDay
       PROVE  pc'[Desktop] = "idle"
  BY <1>30 DEF NextDay, local
<1>31. ASSUME Rest \/ UNCHANGED session
       PROVE  pc'[Desktop] = "idle"
  BY <1>31 DEF Rest, session, local
<1> QED
  BY <1>1, <1>2, <1>3, <1>4, <1>5, <1>6, <1>7, <1>8, <1>9, <1>10, <1>11, <1>12, <1>13, <1>14, <1>15, <1>16, <1>17, <1>18, <1>19, <1>20, <1>21, <1>22, <1>23, <1>24, <1>25, <1>26, <1>27, <1>28, <1>29, <1>30, <1>31
  DEF SessionNext, Turn, Clear, DesktopStep

LEMMA CrashesStay ==
  ASSUME SessionNext \/ UNCHANGED session
  PROVE  crashes' \in {crashes, crashes + 1}
<1>1. ASSUME NEW p \in Procs, NEW o \in SessionOps, Start(p, o)
      PROVE  crashes' \in {crashes, crashes + 1}
  BY <1>1 DEF Start
<1>2. ASSUME NEW p \in Procs, EnsureSession(p)
      PROVE  crashes' \in {crashes, crashes + 1}
  BY <1>2 DEF EnsureSession
<1>3. ASSUME NEW p \in Procs, EnsureHeader(p)
      PROVE  crashes' \in {crashes, crashes + 1}
  BY <1>3 DEF EnsureHeader
<1>4. ASSUME NEW p \in Procs, ReadHistory(p)
      PROVE  crashes' \in {crashes, crashes + 1}
  BY <1>4 DEF ReadHistory
<1>5. ASSUME NEW p \in Procs, EarlyFlush(p)
      PROVE  crashes' \in {crashes, crashes + 1}
  BY <1>5 DEF EarlyFlush
<1>6. ASSUME NEW p \in Procs, Check(p)
      PROVE  crashes' \in {crashes, crashes + 1}
  BY <1>6 DEF Check
<1>7. ASSUME NEW p \in Procs, NEW ok \in BOOLEAN, FlushTurn(p, ok)
      PROVE  crashes' \in {crashes, crashes + 1}
  BY <1>7 DEF FlushTurn
<1>8. ASSUME NEW p \in Procs, MarkFlushed(p)
      PROVE  crashes' \in {crashes, crashes + 1}
  BY <1>8 DEF MarkFlushed
<1>9. ASSUME NEW p \in Procs, KeepAll(p)
      PROVE  crashes' \in {crashes, crashes + 1}
  BY <1>9 DEF KeepAll
<1>10. ASSUME NEW p \in Procs, Summarise(p)
       PROVE  crashes' \in {crashes, crashes + 1}
  BY <1>10 DEF Summarise
<1>11. ASSUME NEW p \in Procs, CountCompaction(p)
       PROVE  crashes' \in {crashes, crashes + 1}
  BY <1>11 DEF CountCompaction
<1>12. ASSUME NEW p \in Procs, NEW remembers \in BOOLEAN, NEW over \in BOOLEAN,
              Budget(p, remembers, over)
       PROVE  crashes' \in {crashes, crashes + 1}
  BY <1>12 DEF Budget
<1>13. ASSUME NEW p \in Procs, AppendUser(p)
       PROVE  crashes' \in {crashes, crashes + 1}
  BY <1>13 DEF AppendUser
<1>14. ASSUME NEW p \in Procs, AgentLoopFails(p)
       PROVE  crashes' \in {crashes, crashes + 1}
  BY <1>14 DEF AgentLoopFails
<1>15. ASSUME NEW p \in Procs, AppendAssistant(p)
       PROVE  crashes' \in {crashes, crashes + 1}
  BY <1>15 DEF AppendAssistant
<1>16. ASSUME NEW p \in Procs, RememberNothing(p)
       PROVE  crashes' \in {crashes, crashes + 1}
  BY <1>16 DEF RememberNothing
<1>17. ASSUME NEW p \in Procs, Remember(p)
       PROVE  crashes' \in {crashes, crashes + 1}
  BY <1>17 DEF Remember
<1>18. ASSUME NEW p \in Procs, ListFiles(p)
       PROVE  crashes' \in {crashes, crashes + 1}
  BY <1>18 DEF ListFiles
<1>19. ASSUME NEW p \in Procs, Archive(p)
       PROVE  crashes' \in {crashes, crashes + 1}
  BY <1>19 DEF Archive
<1>20. ASSUME NEW p \in Procs, ResetCounts(p)
       PROVE  crashes' \in {crashes, crashes + 1}
  BY <1>20 DEF ResetCounts
<1>21. ASSUME NEW p \in Procs, ResetSession(p)
       PROVE  crashes' \in {crashes, crashes + 1}
  BY <1>21 DEF ResetSession
<1>22. ASSUME NEW p \in Procs, Newline(p)
       PROVE  crashes' \in {crashes, crashes + 1}
  BY <1>22 DEF Newline
<1>23. ASSUME NEW a \in Actors, Truncate(a)
       PROVE  crashes' \in {crashes, crashes + 1}
  BY <1>23 DEF Truncate
<1>24. ASSUME NEW a \in Actors, Write(a)
       PROVE  crashes' \in {crashes, crashes + 1}
  BY <1>24 DEF Write
<1>25. ASSUME NEW a \in Actors, Crash(a)
       PROVE  crashes' \in {crashes, crashes + 1}
  BY <1>25 DEF Crash
<1>26. ASSUME NEW k \in Keys, CreateSession(k)
       PROVE  crashes' \in {crashes, crashes + 1}
  BY <1>26 DEF CreateSession, DesktopStarts
<1>27. ASSUME NEW k \in Keys, RenameSession(k)
       PROVE  crashes' \in {crashes, crashes + 1}
  BY <1>27 DEF RenameSession, DesktopStarts
<1>28. ASSUME NEW k \in Keys, DeleteSession(k)
       PROVE  crashes' \in {crashes, crashes + 1}
  BY <1>28 DEF DeleteSession, DesktopStarts
<1>29. ASSUME UnlinkTranscripts
       PROVE  crashes' \in {crashes, crashes + 1}
  BY <1>29 DEF UnlinkTranscripts
<1>30. ASSUME NextDay
       PROVE  crashes' \in {crashes, crashes + 1}
  BY <1>30 DEF NextDay
<1>31. ASSUME Rest \/ UNCHANGED session
       PROVE  crashes' \in {crashes, crashes + 1}
  BY <1>31 DEF Rest, session
<1> QED
  BY <1>1, <1>2, <1>3, <1>4, <1>5, <1>6, <1>7, <1>8, <1>9, <1>10, <1>11, <1>12, <1>13, <1>14, <1>15, <1>16, <1>17, <1>18, <1>19, <1>20, <1>21, <1>22, <1>23, <1>24, <1>25, <1>26, <1>27, <1>28, <1>29, <1>30, <1>31
  DEF SessionNext, Turn, Clear, DesktopStep

LEMMA NoCrashYet ==
  ASSUME SessionTypes, SessionNext \/ UNCHANGED session, crashes' = 0
  PROVE  crashes = 0 /\ \A a \in Actors : ~Crash(a)
<1>1. crashes \in Nat
  BY SessionAssumption DEF SessionTypes, Tallies
<1> QED BY <1>1, CrashesStay DEF Crash

LEMMA CountedElsewhere ==
  ASSUME NEW p \in Procs, \A q \in Procs : q = p, DesktopOps = {}, SessionTypes,
         pc[Desktop] = "idle", Counted(p), SessionNext \/ UNCHANGED session, ~ActsOf(p)
  PROVE  Counted(p)'
<1>1. UNCHANGED <<files, store, torn, said, pc, then, op, open, snap, flushes, cycle, todo>>
  <2>1. Actors = {p, Desktop} /\ Desktop \notin Procs
    BY SessionAssumption DEF Actors
  <2>2. NextDay \/ Rest \/ UNCHANGED session
    BY <2>1 DEF SessionNext, ActsOf, Truncate, Write, Crash, DesktopStep, CreateSession,
       RenameSession, DeleteSession, DesktopStarts, UnlinkTranscripts
  <2> QED BY <2>2 DEF NextDay, Rest, session, disk, local, observed
<1>2. Compactions(KeyOf[p])' = Compactions(KeyOf[p])
  BY <1>1, CompactionsSame
<1> QED BY <1>1, <1>2 DEF Counted, Balanced, Book, AllComplete

\* Without a crash, one process and no session command of the desktop keep
\* compaction_count and the cycle of the memory flush right: the store's entry
\* lags behind the transcript only on the way from the summary to its count.
THEOREM CompactionsAreCounted ==
  (\A p, q \in Procs : p = q) /\ DesktopOps = {} => (SessionSpec => []CompactionsCounted)
<1> SUFFICES ASSUME \A p, q \in Procs : p = q, DesktopOps = {}
             PROVE  SessionSpec => []CompactionsCounted
  OBVIOUS
<1> DEFINE Inv == /\ SessionTypes /\ pc[Desktop] = "idle"
                  /\ crashes = 0 => \A p \in Procs : Counted(p)
<1>1. SessionInit => Inv
  <2> SUFFICES ASSUME SessionInit PROVE Inv
    OBVIOUS
  <2>1. SessionTypes /\ pc[Desktop] = "idle"
    BY TypesStart, SessionAssumption DEF SessionInit, Actors
  <2>2. ASSUME NEW p \in Procs PROVE Counted(p)
    <3>1. /\ pc[p] = "idle" /\ store = << >> /\ ~torn /\ ~open[p] /\ flushes[KeyOf[p]] = 0
          /\ \A f \in Files : files[f] = <<>>
      BY SessionAssumption DEF SessionInit, Actors
    <3>2. Compactions(KeyOf[p]) = 0
      BY <2>1, <3>1, NoCompactions DEF SessionTypes
    <3>3. Book(p) = store /\ DOMAIN store = {} /\ Toward(then[p], pc[p]) = "idle"
      BY <3>1 DEF Book, Toward
    <3>4. Balanced(KeyOf[p], Book(p), Toward(then[p], pc[p]), op[p], open[p],
                   flushes[KeyOf[p]], cycle[p], Compactions(KeyOf[p]))
      BY <3>1, <3>2, <3>3 DEF Balanced, Entered
    <3>5. torn = FALSE /\ (pc[p] = "write") = FALSE
      BY <3>1, SessionAssumption DEF SessionInit
    <3> QED BY <3>1, <3>3, <3>4, <3>5 DEF Counted, AllComplete
  <2> QED BY <2>1, <2>2
<1>2. Inv /\ [SessionNext]_session => Inv'
  <2> SUFFICES ASSUME Inv, SessionNext \/ UNCHANGED session PROVE Inv'
    OBVIOUS
  <2>1. SessionTypes'
    BY TypesStep
  <2>2. pc'[Desktop] = "idle"
    BY DesktopRests
  <2>3. ASSUME crashes' = 0, NEW p \in Procs PROVE Counted(p)'
    <3>1. crashes = 0 /\ ~Crash(p)
      <4>1. p \in Actors
        BY DEF Actors
      <4> QED BY <2>3, <4>1, NoCrashYet
    <3>2. CASE ActsOf(p)
      BY <3>1, <3>2, CountedStep
    <3>3. CASE ~ActsOf(p)
      <4>1. \A q \in Procs : q = p
        OBVIOUS
      <4> QED BY <3>1, <3>3, <4>1, CountedElsewhere
    <3> QED BY <3>2, <3>3
  <2> QED BY <2>1, <2>2, <2>3
<1>3. Inv => CompactionsCounted
  <2> SUFFICES ASSUME Inv, NEW p \in Procs, crashes = 0
               PROVE  /\ flushes[KeyOf[p]] <= 1
                      /\ pc[p] = "idle" /\ KeyOf[p] \in DOMAIN store
                           => store[KeyOf[p]].count = Compactions(KeyOf[p])
    BY DEF CompactionsCounted
  <2>1. Counted(p)
    OBVIOUS
  <2>2. flushes[KeyOf[p]] <= 1
    BY <2>1 DEF Counted, Balanced
  <2>3. ASSUME pc[p] = "idle", KeyOf[p] \in DOMAIN store
        PROVE  store[KeyOf[p]].count = Compactions(KeyOf[p])
    <3>1. store[KeyOf[p]].count \in Nat
      BY <2>3 DEF SessionTypes, Index, IsStore, Entry
    <3>2. Compactions(KeyOf[p]) = store[KeyOf[p]].count + 0
      BY <2>1, <2>3 DEF Counted, Balanced, Book, Due, Toward
    <3> QED BY <3>1, <3>2
  <2> QED BY <2>2, <2>3
<1> QED BY <1>1, <1>2, <1>3, PTL DEF SessionSpec
=============================================================================
