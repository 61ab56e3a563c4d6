---------------------------- MODULE DesktopChat ----------------------------
(***************************************************************************)
(* The desktop's chat bridge: the React chat view, the chat_stream call of *)
(* each message with its reader thread, the skilllite_confirm, _clarify    *)
(* and _stop commands, and the agent-rpc child a message is answered by.   *)
(*                                                                         *)
(* The chats share three slots of the application: ChatProcessState (the   *)
(* child a stop kills and an ending chat waits for), ConfirmationState and *)
(* ClarificationState (the sender an answer of the user goes to).  None of *)
(* them says whose it is.  A confirmation and a clarification are handled  *)
(* alike, so one action stands for both, with the kind as a parameter.     *)
(*                                                                         *)
(* The reader thread is merged with the child's writes: the pipe and the   *)
(* channel between them are FIFO and have no other reader.  The text and   *)
(* tool events, which the chat only passes on, are left out.               *)
(***************************************************************************)
EXTENDS Integers, Sequences, SequencesExt, FiniteSets

CONSTANTS
  Chats,           \* chat_stream calls, one per message, sent in order
  Sessions,        \* session keys
  Home,            \* the session the application starts in
  NoChat,          \* an empty slot
  MaxConsecutive,  \* MAX_CONSECUTIVE_INVALID_PROTOCOL_LINES
  MaxTotal,        \* MAX_TOTAL_INVALID_PROTOCOL_LINES
  MaxNoise,        \* bound: invalid lines of a child
  MaxAsks,         \* bound: requests of a child
  MaxSwitches,     \* bound: switches of the session
  UserOps          \* what the user may do besides sending and answering:
                   \*   "stop", "switch" sessions, "hurry": send in a new view
                   \*   before the call of the old one has returned

ASSUME LimitsAssumption ==
  /\ MaxConsecutive \in Nat \ {0} /\ MaxTotal \in Nat \ {0}
  /\ MaxNoise \in Nat /\ MaxAsks \in Nat /\ MaxSwitches \in Nat
  /\ Home \in Sessions /\ NoChat \notin Chats /\ Chats \subseteq Nat

Kinds == {"confirm", "clarify"}
Slots == Chats \cup {NoChat}

VARIABLES
  view,      \* the session shown; a switch mounts a new chat view
  inFlight,  \* sendInFlightRef: the call the view waits for
  cards,     \* unanswered request cards of the chat in flight, oldest first
  stopping,  \* step of stop_chat: "idle", then the slot it empties next
  target,    \* the session shown after the stop, {} for the stop button
  switches,  \* switches so far
  pc,        \* step of each chat_stream call
  session,   \* its session key
  reply,     \* what its recv() returns: "none" yet, an answer, or "dropped"
  reaping,   \* the child it waits for at its end
  queue,     \* events of its child it has not handled
  invalid,   \* reader: [run: consecutive, all: total] invalid lines
  child,     \* what its child does
  stdin,     \* lines written to its child and not read
  asks,      \* requests its child has made
  process,   \* ChatProcessState
  sender,    \* ConfirmationState, ClarificationState: whose sender it is
  stopped,   \* observed: the user has stopped the chat
  answered,  \* observed: the user's answer to the request its child waits on
  unsettled  \* observed: a protocol warning was shown and nothing after it

ui == <<view, inFlight, cards, target, switches>>
call == <<pc, session, reply, reaping>>
agent == <<queue, invalid, child, stdin, asks>>
observed == <<stopped, answered, unsettled>>
vars == <<ui, stopping, call, agent, process, sender, observed>>

At(c, l) == pc' = [pc EXCEPT ![c] = l]

\* The sender in a slot is dropped: its receiver, if it still waits, gets an error.
Dropped(replies, h) ==
  [c \in Chats |-> IF c = h /\ replies[c] = "none" THEN "dropped" ELSE replies[c]]

-----------------------------------------------------------------------------
(* The view. *)

Over(c) == pc[c] \in {"unsent", "done"}

\* sendMessage: one call at a time in a view.
Send(c) ==
  /\ inFlight = NoChat /\ stopping = "idle"
  /\ pc[c] = "unsent" /\ \A d \in Chats : d < c => pc[d] # "unsent"
  /\ "hurry" \in UserOps \/ \A d \in Chats : Over(d)
  /\ inFlight' = c
  /\ session' = [session EXCEPT ![c] = view]
  /\ At(c, "spawn")
  /\ UNCHANGED <<view, cards, target, switches, stopping, reply, reaping, agent, process,
                 sender, observed>>

\* The user answers a card of the chat in flight.  The command carries only
\* the answer: whoever's sender is in the slot gets it.
Respond(i, yes) ==
  /\ stopping = "idle" /\ i \in DOMAIN cards
  /\ cards[i].chat = inFlight /\ ~stopped[inFlight]
  /\ LET k == cards[i].kind
         h == sender[k]
     IN /\ sender' = [sender EXCEPT ![k] = NoChat]
        /\ reply' = [c \in Chats |-> IF c = h THEN IF yes THEN "yes" ELSE "no" ELSE reply[c]]
  /\ answered' = [answered EXCEPT ![inFlight] =
       IF cards[i].n # asks[inFlight] THEN @ ELSE IF yes THEN "yes" ELSE "no"]
  /\ cards' = RemoveAt(cards, i)
  /\ UNCHANGED <<view, inFlight, target, switches, stopping, pc, session, reaping,
                 agent, process, stopped, unsettled>>

\* The stop button of a view that waits, or a switch to another session.
PressStop ==
  /\ "stop" \in UserOps /\ stopping = "idle"
  /\ inFlight # NoChat /\ ~stopped[inFlight]
  /\ stopping' = "confirm" /\ target' = {}
  /\ stopped' = [stopped EXCEPT ![inFlight] = TRUE]
  /\ UNCHANGED <<view, inFlight, cards, switches, call, agent, process, sender,
                 answered, unsettled>>

SwitchSession(s) ==
  /\ "switch" \in UserOps /\ stopping = "idle" /\ s # view
  /\ switches < MaxSwitches /\ switches' = switches + 1
  /\ stopping' = "confirm" /\ target' = {s}
  /\ stopped' = [c \in Chats |-> stopped[c] \/ c = inFlight]
  /\ UNCHANGED <<view, inFlight, cards, call, agent, process, sender, answered, unsettled>>

-----------------------------------------------------------------------------
(* stop_chat: one slot after the other, each under its own lock. *)

StopAnswer(k) ==
  /\ stopping = k
  /\ reply' = Dropped(reply, sender[k])
  /\ sender' = [sender EXCEPT ![k] = NoChat]
  /\ stopping' = IF k = "confirm" THEN "clarify" ELSE "process"
  /\ UNCHANGED <<ui, pc, session, reaping, agent, process, observed>>

Killed == [c \in Chats |-> IF c = process THEN "gone" ELSE child[c]]

\* The child is killed and the stop is over; the view of another session starts
\* empty, and its mount effect calls stop_chat once more.
StopProcess ==
  /\ stopping = "process"
  /\ child' = Killed
  /\ process' = NoChat
  /\ IF target \ {view} = {}
     THEN stopping' = "idle" /\ UNCHANGED <<view, inFlight, cards>>
     ELSE /\ stopping' = "confirm"
          /\ view' \in target /\ inFlight' = NoChat /\ cards' = <<>>
  /\ UNCHANGED <<target, switches, call, queue, invalid, stdin, asks, sender, observed>>

-----------------------------------------------------------------------------
(* chat_stream: start. *)

Spawn(c) ==
  /\ pc[c] = "spawn"
  /\ child' = [child EXCEPT ![c] = "idle"]
  /\ At(c, "store")
  /\ UNCHANGED <<ui, stopping, session, reply, reaping, queue, invalid, stdin,
                 asks, process, sender, observed>>

\* A child already in the slot is let go, still running.
Store(c) ==
  /\ pc[c] = "store"
  /\ process' = c
  /\ At(c, "request")
  /\ UNCHANGED <<ui, stopping, session, reply, reaping, agent, sender, observed>>

\* The call's locals and its end of the channel go with it, and its view takes
\* the next message.
Return(c) ==
  /\ At(c, "done")
  /\ queue' = [queue EXCEPT ![c] = <<>>]
  /\ invalid' = [invalid EXCEPT ![c] = [run |-> 0, all |-> 0]]
  /\ reply' = [reply EXCEPT ![c] = "none"]
  /\ reaping' = [reaping EXCEPT ![c] = NoChat]
  /\ IF inFlight = c THEN inFlight' = NoChat /\ cards' = <<>>
     ELSE UNCHANGED <<inFlight, cards>>
  /\ UNCHANGED <<view, target, switches, session>>

\* Writing the request to a killed child may fail, which ends the call.
Request(c) ==
  /\ pc[c] = "request"
  /\ \/ /\ At(c, "loop")
        /\ child' = [child EXCEPT ![c] = IF @ = "idle" THEN "work" ELSE @]
        /\ UNCHANGED <<ui, session, reply, reaping, queue, invalid>>
     \/ child[c] = "gone" /\ Return(c) /\ UNCHANGED child
  /\ UNCHANGED <<stopping, stdin, asks, process, sender, observed>>

-----------------------------------------------------------------------------
(* The child (agent-rpc), and the reader thread behind it. *)

\* Lines after the reader gave up, or nobody receives its events, are lost.
CorruptLate(c) == invalid[c].run > MaxConsecutive \/ invalid[c].all > MaxTotal  \* mutant
Corrupt(c) == invalid[c].run >= MaxConsecutive \/ invalid[c].all >= MaxTotal

\* A valid line ends a run of invalid ones, which is announced first.
ReadLateRecovery(c, ev) ==  \* mutant: the two are swapped
  queue' = [queue EXCEPT ![c] = (@ \o <<ev>>)
              \o (IF invalid[c].run > 0 THEN <<"recovered">> ELSE <<>>)]
ReadLine(c, ev) ==
  queue' = [queue EXCEPT ![c] = @
              \o (IF invalid[c].run > 0 THEN <<"recovered">> ELSE <<>>) \o <<ev>>]

Prints(c, ev) ==
  IF Corrupt(c) \/ Over(c) THEN UNCHANGED <<queue, invalid>>
  ELSE ReadLine(c, ev) /\ invalid' = [invalid EXCEPT ![c].run = 0]

\* on_confirmation_request, on_clarification_request: print, then read a line.
ChildAsks(c, k) ==
  /\ child[c] = "work" /\ asks[c] < MaxAsks
  /\ child' = [child EXCEPT ![c] = k]
  /\ asks' = [asks EXCEPT ![c] = @ + 1]
  /\ Prints(c, k)
  /\ UNCHANGED <<ui, stopping, call, stdin, process, sender, observed>>

\* Its stdin is closed once the call is past its loop, or has failed.
ClosedLate(c) == pc[c] = "done"  \* mutant
Closed(c) == pc[c] \in {"reap", "done"}

\* A line of another method, and the end of the input, are a refusal.
Grants(c) ==
  stdin[c] # <<>> /\ Head(stdin[c]).method = child[c] /\ Head(stdin[c]).yes

ChildReads(c) ==
  /\ child[c] \in Kinds /\ (stdin[c] # <<>> \/ Closed(c))
  /\ child' = [child EXCEPT ![c] = "work"]
  /\ stdin' = [stdin EXCEPT ![c] = IF @ = <<>> THEN @ ELSE Tail(@)]
  /\ answered' = [answered EXCEPT ![c] = "none"]
  /\ UNCHANGED <<ui, stopping, call, queue, invalid, asks, process, sender, stopped,
                 unsettled>>

\* The turn is over: "done", or "error".  The server reads on from stdin.
ChildDone(c) ==
  /\ child[c] = "work"
  /\ child' = [child EXCEPT ![c] = "over"]
  /\ Prints(c, "end")
  /\ UNCHANGED <<ui, stopping, call, stdin, asks, process, sender, observed>>

\* A late confirm or clarify line is ignored; at the end of the input it exits.
ChildExits(c) ==
  /\ child[c] \in {"idle", "over"} /\ Closed(c)
  /\ child' = [child EXCEPT ![c] = "gone"]
  /\ UNCHANGED <<ui, stopping, call, queue, invalid, stdin, asks, process, sender,
                 observed>>

ChildCrashes(c) ==
  /\ child[c] \in {"work"} \cup Kinds
  /\ child' = [child EXCEPT ![c] = "gone"]
  /\ UNCHANGED <<ui, stopping, call, queue, invalid, stdin, asks, process, sender,
                 observed>>

\* A line that is no event: the first of a run is announced, and at a limit the
\* reader reports the stream as corrupted and stops.
ChildNoise(c) ==
  /\ child[c] = "work" /\ invalid[c].all < MaxNoise /\ ~Corrupt(c) /\ ~Over(c)
  /\ invalid' = [invalid EXCEPT ![c] = [run |-> @.run + 1, all |-> @.all + 1]]
  /\ queue' = [queue EXCEPT ![c] = @
                 \o (IF invalid[c].run = 0 THEN <<"warning">> ELSE <<>>)
                 \o (IF Corrupt(c)' THEN <<"corrupt">> ELSE <<>>)]
  /\ UNCHANGED <<ui, stopping, call, child, stdin, asks, process, sender, observed>>

-----------------------------------------------------------------------------
(* chat_stream: the loop over the events, and its end. *)

\* A request: a new channel, whose sender replaces the one in the slot.
OfferReusing(c) ==  \* mutant: the channel of the first request is kept
  /\ pc[c] = "loop" /\ queue[c] # <<>> /\ Head(queue[c]) \in Kinds
  /\ LET k == Head(queue[c])
     IN /\ reply' = Dropped(reply, sender[k])
        /\ sender' = [sender EXCEPT ![k] = c]
  /\ At(c, "show")
  /\ UNCHANGED <<ui, stopping, session, reaping, agent, process, observed>>
Offer(c) ==
  /\ pc[c] = "loop" /\ queue[c] # <<>> /\ Head(queue[c]) \in Kinds
  /\ LET k == Head(queue[c])
     IN /\ reply' = [Dropped(reply, sender[k]) EXCEPT ![c] = "none"]
        /\ sender' = [sender EXCEPT ![k] = c]
  /\ At(c, "show")
  /\ UNCHANGED <<ui, stopping, session, reaping, agent, process, observed>>

\* The window event; only a view of the session turns it into a card.
Show(c) ==
  /\ pc[c] = "show"
  /\ cards' = IF view = session[c]
              THEN Append(cards, [chat |-> c, kind |-> Head(queue[c]), n |-> asks[c]])
              ELSE cards
  /\ At(c, "wait")
  /\ UNCHANGED <<view, inFlight, target, switches, stopping, session, reply,
                 reaping, agent, process, sender, observed>>

\* recv().unwrap_or(false), or "stop".
Granted(r) == r = "yes"

\* The slot is emptied, whoever's sender is in it, and the answer is written to
\* the call's own child.
Resolve(c) ==
  /\ pc[c] = "wait" /\ reply[c] # "none"
  /\ LET k == Head(queue[c])
     IN /\ reply' = Dropped(reply, sender[k])
        /\ sender' = [sender EXCEPT ![k] = NoChat]
        /\ stdin' = IF child[c] = "gone" THEN stdin
                    ELSE [stdin EXCEPT ![c] = Append(@, [method |-> k, yes |-> Granted(reply[c])])]
  /\ queue' = [queue EXCEPT ![c] = Tail(@)]
  /\ At(c, "loop")
  /\ UNCHANGED <<ui, stopping, session, reaping, invalid, child, asks, process, observed>>

\* Any other event is passed on; "done", "error" and a corrupted stream end
\* the loop.
Forward(c) ==
  /\ pc[c] = "loop" /\ queue[c] # <<>> /\ Head(queue[c]) \notin Kinds
  /\ LET ev == Head(queue[c])
     IN /\ At(c, IF ev \in {"end", "corrupt"} THEN "leave" ELSE "loop")
        /\ unsettled' = [unsettled EXCEPT ![c] = ev = "warning"]
  /\ queue' = [queue EXCEPT ![c] = Tail(@)]
  /\ UNCHANGED <<ui, stopping, session, reply, reaping, invalid, child, stdin, asks,
                 process, sender, stopped, answered>>

\* The child's output has ended without one of these.
EndOfStream(c) ==
  /\ pc[c] = "loop" /\ queue[c] = <<>> /\ child[c] = "gone"
  /\ At(c, "leave")
  /\ UNCHANGED <<ui, stopping, session, reply, reaping, agent, process, sender, observed>>

\* drop(stdin), then the child in the slot, whoever's it is, is taken ...
LeaveUnwaited(c) ==  \* mutant: the child is only dropped
  /\ pc[c] = "leave"
  /\ process' = NoChat
  /\ Return(c)
  /\ UNCHANGED <<stopping, child, stdin, asks, sender, observed>>
Leave(c) ==
  /\ pc[c] = "leave"
  /\ process' = NoChat
  /\ IF process = NoChat THEN Return(c)
     ELSE /\ reaping' = [reaping EXCEPT ![c] = process]
          /\ At(c, "reap") /\ UNCHANGED <<ui, session, reply, queue, invalid>>
  /\ UNCHANGED <<stopping, child, stdin, asks, sender, observed>>

\* ... and waited for.
Reap(c) ==
  /\ pc[c] = "reap" /\ child[reaping[c]] = "gone"
  /\ Return(c)
  /\ UNCHANGED <<stopping, child, stdin, asks, process, sender, observed>>

-----------------------------------------------------------------------------
Init ==
  /\ view = Home /\ inFlight = NoChat /\ cards = <<>>
  /\ stopping = "idle" /\ target = {} /\ switches = 0
  /\ pc = [c \in Chats |-> "unsent"] /\ session = [c \in Chats |-> Home]
  /\ reply = [c \in Chats |-> "none"] /\ reaping = [c \in Chats |-> NoChat]
  /\ queue = [c \in Chats |-> <<>>]
  /\ invalid = [c \in Chats |-> [run |-> 0, all |-> 0]]
  /\ child = [c \in Chats |-> "none"] /\ stdin = [c \in Chats |-> <<>>]
  /\ asks = [c \in Chats |-> 0]
  /\ process = NoChat /\ sender = [k \in Kinds |-> NoChat]
  /\ stopped = [c \in Chats |-> FALSE] /\ answered = [c \in Chats |-> "none"]
  /\ unsettled = [c \in Chats |-> FALSE]

Thread(c) ==
  \/ Spawn(c) \/ Store(c) \/ Request(c) \/ Offer(c) \/ Show(c) \/ Resolve(c)
  \/ Forward(c) \/ EndOfStream(c) \/ Leave(c) \/ Reap(c)
Child(c) ==
  \/ (\E k \in Kinds : ChildAsks(c, k))
  \/ ChildReads(c) \/ ChildDone(c) \/ ChildExits(c) \/ ChildNoise(c)
Stop == (\E k \in Kinds : StopAnswer(k)) \/ StopProcess
Responds == \E i \in DOMAIN cards, yes \in BOOLEAN : Respond(i, yes)
User ==
  \/ (\E c \in Chats : Send(c)) \/ Responds \/ PressStop
  \/ (\E s \in Sessions : SwitchSession(s))

\* The user leaves the window alone.
Rest == stopping = "idle" /\ UNCHANGED vars

Next == (\E c \in Chats : Thread(c) \/ Child(c) \/ ChildCrashes(c)) \/ Stop \/ User \/ Rest

Spec == Init /\ [][Next]_vars

\* Threads and processes run, a child's turn ends (AgentLoop's Returns), and the
\* user answers what a chat he has not stopped asks.
Fairness ==
  /\ \A c \in Chats : WF_vars(Thread(c)) /\ WF_vars(Child(c))
  /\ WF_vars(Stop) /\ WF_vars(Responds)
FairSpec == Spec /\ Fairness

-----------------------------------------------------------------------------
(* Properties. *)

Points == {"unsent", "spawn", "store", "request", "loop", "show", "wait", "leave",
           "reap", "done"}
Events == Kinds \cup {"end", "warning", "recovered", "corrupt"}

\* Every variable has its type, and the reader gives up at its limits.
TypeOK ==
  /\ view \in Sessions /\ inFlight \in Slots /\ target \subseteq Sessions
  /\ switches \in 0..MaxSwitches
  /\ cards \in Seq([chat : Chats, kind : Kinds, n : 1..MaxAsks])
  /\ stopping \in {"idle", "process"} \cup Kinds
  /\ pc \in [Chats -> Points] /\ session \in [Chats -> Sessions]
  /\ reply \in [Chats -> {"none", "yes", "no", "dropped"}]
  /\ reaping \in [Chats -> Slots]
  /\ queue \in [Chats -> Seq(Events)]
  /\ invalid \in [Chats -> [run : 0..MaxConsecutive, all : 0..MaxTotal]]
  /\ child \in [Chats -> {"none", "idle", "work", "over", "gone"} \cup Kinds]
  /\ stdin \in [Chats -> Seq([method : Kinds, yes : BOOLEAN])]
  /\ asks \in [Chats -> 0..MaxAsks]
  /\ process \in Slots /\ sender \in [Kinds -> Slots]
  /\ stopped \in [Chats -> BOOLEAN] /\ unsettled \in [Chats -> BOOLEAN]
  /\ answered \in [Chats -> {"none", "yes", "no"}]

\* The agent acts on an approval only if the user approved that very request,
\* though skilllite_confirm and skilllite_clarify do not name one; and a request
\* is refused only because the user refused it or stopped the chat, or because
\* nobody listens to a corrupted stream any more.
AnswersAreMeant ==
  [][\A c \in Chats : ChildReads(c) =>
       IF Grants(c) THEN answered[c] = "yes"
       ELSE answered[c] = "no" \/ stopped[c] \/ Corrupt(c) \/ Over(c)]_vars

\* A call that has returned leaves no child running.
ChildrenReaped == \A c \in Chats : pc[c] = "done" => child[c] \in {"none", "gone"}

\* Before a turn is shown as over, every protocol warning was followed by its
\* recovery.
WarningsSettled ==
  [][\A c \in Chats : Forward(c) /\ Head(queue[c]) = "end" => ~unsettled[c]]_vars

\* Every chat the user does not stop ends and lets him send the next message:
\* call, child and user never wait for each other in a circle.
ChatEnds == \A c \in Chats : pc[c] = "spawn" ~> pc[c] = "done" \/ stopped[c]
=============================================================================
