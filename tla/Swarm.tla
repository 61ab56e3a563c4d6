-------------------------------- MODULE Swarm --------------------------------
(* The swarm daemon: nodes find each other by mDNS, take tasks by HTTP, and
   execute a task or hand it on to a peer.  A peer is known as the instance that
   announced itself.  An instance that is stopped says no goodbye: it stays
   known until its record expires, and another may take its address meanwhile.

   A call is one POST /task in the handler of its node.  A caller that gives up
   closes the connection, and the handler is dropped at its next await, but not
   an agent that already runs.  An announcement is heard while both instances
   run.  Left out: tokens, /status, the order in which peers are tried, progress
   streams, several addresses of one instance, a daemon without an executor.   *)
EXTENDS Integers, FiniteSets

CONSTANTS Nodes,     \* the addresses daemons listen on
          Announced, \* those of them that are not loopback
          Port,      \* of each address
          Tags,      \* capability tags
          Offers,    \* the sets of tags daemons are started with
          Tasks,
          Needs,     \* required_capabilities of each task
          None, Client, Gone,
          MaxCalls, MaxStarts, MaxGiven \* bounds: calls at a time, instances, tasks

ASSUME SwarmAssumption ==
  /\ Announced \subseteq Nodes /\ DOMAIN Port = Nodes
  /\ Offers \subseteq SUBSET Tags /\ Needs \in [Tasks -> SUBSET Tags]
  /\ {MaxCalls, MaxStarts, MaxGiven} \subseteq Nat
  /\ Client # Gone /\ {Client, Gone} \cap (1..MaxCalls) = {}

VARIABLES live,     \* the instance that runs at each address
          views,    \* peers: the instances each node knows
          calls,
          starts,   \* instances so far
          given,    \* tasks clients have sent
          executed, \* history: how often the agent was run for a task
          failures  \* history: runs that failed, and answers that never came

vars == <<live, views, calls, starts, given, executed, failures>>

Ids == 1..MaxCalls
Instances == [addr : Nodes, caps : Offers, no : 1..MaxStarts]
\* need is what the route is chosen by; left are the peers still to be polled
\* or tried, or known when the task came in; willing are those that can do it.
Call == [at : Nodes, task : Tasks, from : Ids \cup {Client, Gone},
         pc : {"infer", "poll", "forward", "wait", "exec", "ok", "failed"},
         need : SUBSET Tags, left : SUBSET Instances, willing : SUBSET Instances]

ASSUME NoneAssumption == None \notin Instances /\ None \notin Call

Init == /\ live = [n \in Nodes |-> None] /\ views = [n \in Nodes |-> {}]
        /\ calls = [i \in Ids |-> None] /\ starts = 0 /\ given = {}
        /\ executed = [t \in Tasks |-> 0] /\ failures = [t \in Tasks |-> 0]

\* A handler that starts takes the first id that is not in use.
IsNext(i) == calls[i] = None /\ \A j \in 1..(i - 1) : calls[j] # None
Is(i, pc) == calls[i] # None /\ calls[i].pc = pc
CalledBy(i, who) == calls[i] # None /\ calls[i].from = who
\* Call i when those of these ids have closed the connections they made.
Deserted(i, ids) == IF calls[i] # None /\ calls[i].from \in ids
                    THEN [calls[i] EXCEPT !.from = Gone] ELSE calls[i]

(* Membership: start, stop, mDNS events. *)
\* Bound: what happens after the last task has ended is not followed.
Busy == Cardinality(given) < MaxGiven \/ \E i \in Ids : calls[i] # None

Start(n, caps) ==
  /\ live[n] = None /\ starts < MaxStarts /\ Busy
  /\ starts' = starts + 1
  /\ live' = [live EXCEPT ![n] = [addr |-> n, caps |-> caps, no |-> starts + 1]]
  /\ views' = [views EXCEPT ![n] = {}]
  /\ UNCHANGED <<calls, given, executed, failures>>

\* The handlers of the node end with it, and the calls they made lose them.
Stop(n) ==
  /\ live[n] # None /\ Busy
  /\ live' = [live EXCEPT ![n] = None]
  /\ LET ended == {i \in Ids : calls[i] # None /\ calls[i].at = n} IN
     calls' = [i \in Ids |-> IF i \in ended THEN None ELSE Deserted(i, ended)]
  /\ UNCHANGED <<views, starts, given, executed, failures>>

Discover(n, m) ==
  /\ n # m /\ m \in Announced /\ live[n] # None /\ live[m] # None
  /\ live[m] \notin views[n] /\ Busy
  /\ views' = [views EXCEPT ![n] = @ \cup {live[m]}]
  /\ UNCHANGED <<live, calls, starts, given, executed, failures>>

\* An instance that runs renews its record.
Forget(n, e) ==
  /\ live[n] # None /\ e \in views[n] /\ e # live[e.addr] /\ Busy
  /\ views' = [views EXCEPT ![n] = @ \ {e}]
  /\ UNCHANGED <<live, calls, starts, given, executed, failures>>

(* Routing. *)
CapabilitiesMatch(required, available) == required \subseteq available

\* Keeping one of the peers that have the same key.
OnePer(key) ==
  {s \in SUBSET DOMAIN key : /\ {key[e] : e \in s} = {key[e] : e \in DOMAIN key}
                             /\ \A e, d \in s : key[e] = key[d] => e = d}

MatchingPeers(required, peers) ==
  OnePer([e \in {d \in peers : CapabilitiesMatch(required, d.caps)} |-> Port[e.addr]])

\* A mutation: able peers come before the node itself.
RouteExplicitPeersFirst(own, required, peers) ==
  {IF s # {} THEN <<"forward", s>>
   ELSE <<IF CapabilitiesMatch(required, own) THEN "exec" ELSE "failed", {}>> :
     s \in MatchingPeers(required, peers)}

\* What route_task may decide: where the handler goes on, and with which peers.
RouteExplicit(own, required, peers) ==
  IF CapabilitiesMatch(required, own) THEN {<<"exec", {}>>}
  ELSE {<<IF s # {} THEN "forward" ELSE IF peers # {} THEN "poll" ELSE "failed",
          IF s # {} THEN s ELSE peers>> : s \in MatchingPeers(required, peers)}

\* A mutation: a node without capabilities always forwards.
RouteSharedAlways(own, peers) ==
  IF own = {} THEN {<<"forward", {e \in peers : e.caps # {}}>>} ELSE {<<"exec", {}>>}

RouteShared(own, peers) ==
  LET skilled == {e \in peers : e.caps # {}} IN
  IF own = {} /\ skilled # {}
  THEN {<<"forward", s>> : s \in OnePer([e \in skilled |-> e.addr])}
  ELSE {<<"exec", {}>>}
RouteTask(own, required, peers) ==
  IF required = {} THEN RouteShared(own, peers)
  ELSE RouteExplicit(own, required, peers)

\* A call of task t that node n has just received; with no capabilities given
\* the handler first asks the model, knowing the peers of this moment.
Received(n, t, from) ==
  {[at |-> n, task |-> t, from |-> from, need |-> Needs[t], willing |-> {},
    pc |-> r[1], left |-> r[2]] :
     r \in IF Needs[t] = {} THEN {<<"infer", views[n]>>}
           ELSE RouteTask(live[n].caps, Needs[t], views[n])}

Runs(t, pc) == IF pc = "exec" THEN [executed EXCEPT ![t] = @ + 1] ELSE executed

Submit(n, t) ==
  /\ live[n] # None /\ t \notin given /\ Cardinality(given) < MaxGiven
  /\ given' = given \cup {t}
  /\ \E i \in Ids, c \in Received(n, t, Client) :
       /\ IsNext(i)
       /\ calls' = [calls EXCEPT ![i] = c]
       /\ executed' = Runs(t, c.pc)
  /\ UNCHANGED <<live, views, starts, failures>>

\* The answer of the model: tags the node knows of, {} when in doubt.
KnownTags(i) == live[calls[i].at].caps \cup UNION {e.caps : e \in calls[i].left}
InferRequiredCapabilities(i) == SUBSET KnownTags(i)
Infer(i) ==
  /\ Is(i, "infer")
  /\ \E required \in InferRequiredCapabilities(i) :
     \E r \in RouteTask(live[calls[i].at].caps, required, calls[i].left) :
       /\ calls' = [calls EXCEPT ![i].pc = r[1], ![i].left = r[2], ![i].need = required]
       /\ executed' = Runs(calls[i].task, r[1])
  /\ UNCHANGED <<live, views, starts, given, failures>>

\* GET /can-do at one peer after the other.
Answered(e, required) ==
  IF live[e.addr] = None THEN {FALSE}
  ELSE {FALSE, CapabilitiesMatch(required, live[e.addr].caps)}
Poll(i) ==
  /\ Is(i, "poll")
  /\ \E e \in calls[i].left : \E can \in Answered(e, calls[i].need) :
       LET rest == calls[i].left \ {e}
           willing == IF can THEN calls[i].willing \cup {e} ELSE calls[i].willing
       IN calls' = [calls EXCEPT ![i] =
            IF rest # {} THEN [@ EXCEPT !.left = rest, !.willing = willing]
            ELSE [@ EXCEPT !.pc = IF willing = {} THEN "failed" ELSE "forward",
                           !.left = willing, !.willing = {}]]
  /\ UNCHANGED <<live, views, starts, given, executed, failures>>

(* Forwarding. *)
\* A mutation: the handler does not return when no peer is left.
NextPeerNoReturn(i, left) == [calls[i] EXCEPT !.left = left, !.pc = "forward"]

\* What becomes of call i when a peer of it has failed.
NextPeer(i, left) == [calls[i] EXCEPT !.left = left,
                                      !.pc = IF left = {} THEN "failed" ELSE "forward"]

Forward(i) ==
  /\ Is(i, "forward")
  /\ \E e \in calls[i].left, j \in Ids :
       /\ live[e.addr] # None /\ IsNext(j)
       /\ \E c \in Received(e.addr, calls[i].task, i) :
            /\ calls' = [calls EXCEPT ![i].pc = "wait", ![i].left = @ \ {e}, ![j] = c]
            /\ executed' = Runs(c.task, c.pc)
  /\ UNCHANGED <<live, views, starts, given, failures>>

\* The peer is gone, or the request does not reach it.
Unreachable(i) ==
  /\ Is(i, "forward")
  /\ \E e \in calls[i].left :
       calls' = [calls EXCEPT ![i] = NextPeer(i, @.left \ {e})]
  /\ UNCHANGED <<live, views, starts, given, executed, failures>>

\* 120 seconds are over, the answer is lost or damaged, or the peer has stopped.
NoAnswer(i) ==
  /\ Is(i, "wait")
  /\ calls' = [j \in Ids |-> IF j = i THEN NextPeer(i, calls[i].left) ELSE Deserted(j, {i})]
  /\ failures' = [failures EXCEPT ![calls[i].task] = @ + 1]
  /\ UNCHANGED <<live, views, starts, given, executed>>

AgentEnds(i) ==
  /\ Is(i, "exec")
  /\ \E pc \in {"ok", "failed"} :
       /\ calls' = [calls EXCEPT ![i].pc = pc]
       /\ failures' = IF pc = "ok" THEN failures
                      ELSE [failures EXCEPT ![calls[i].task] = @ + 1]
  /\ UNCHANGED <<live, views, starts, given, executed>>

Ended(i) == Is(i, "ok") \/ Is(i, "failed")
AnswerClient(i) ==
  /\ Ended(i) /\ CalledBy(i, Client)
  /\ calls' = [calls EXCEPT ![i] = None]
  /\ UNCHANGED <<live, views, starts, given, executed, failures>>

\* A mutation: an answer that arrives is not returned.
AnswerPeerUnread(i) ==
  /\ Ended(i)
  /\ \E j \in Ids :
       /\ CalledBy(i, j)
       /\ calls' = [calls EXCEPT ![i] = None, ![j] = NextPeer(j, @.left)]
  /\ UNCHANGED <<live, views, starts, given, executed, failures>>

AnswerPeer(i) ==
  /\ Ended(i)
  /\ \E j \in Ids :
       /\ CalledBy(i, j)
       /\ calls' = [calls EXCEPT ![i] = None,
            ![j] = IF Is(i, "ok") THEN [@ EXCEPT !.pc = "ok", !.left = {}]
                   ELSE NextPeer(j, @.left)]
  /\ UNCHANGED <<live, views, starts, given, executed, failures>>

\* The connection a call came in by is closed.
ClientLeaves(i) ==
  /\ CalledBy(i, Client)
  /\ calls' = [calls EXCEPT ![i].from = Gone]
  /\ UNCHANGED <<live, views, starts, given, executed, failures>>

Drop(i) ==
  /\ CalledBy(i, Gone) /\ ~ Is(i, "exec")
  /\ calls' = [j \in Ids |-> IF j = i THEN None ELSE Deserted(j, {i})]
  /\ UNCHANGED <<live, views, starts, given, executed, failures>>

HandlerStep(i) == \/ Infer(i) \/ Poll(i) \/ Forward(i) \/ Unreachable(i)
                  \/ NoAnswer(i) \/ AgentEnds(i) \/ AnswerClient(i)
                  \/ AnswerPeer(i) \/ Drop(i)

Next == \/ \E n \in Nodes : \/ \E caps \in Offers : Start(n, caps)
                            \/ Stop(n)
                            \/ \E m \in Nodes : Discover(n, m)
                            \/ \E e \in views[n] : Forget(n, e)
                            \/ \E t \in Tasks : Submit(n, t)
        \/ \E i \in Ids : HandlerStep(i) \/ ClientLeaves(i)

\* Every await of a handler has a timeout, and every run of an agent ends.
Spec == Init /\ [][Next]_vars /\ \A i \in Ids : WF_vars(HandlerStep(i))
-----------------------------------------------------------------------------
\* The variables keep their types, a handler has a node it runs on, and one that
\* polls or forwards has a peer left: the code takes peers[0] without asking.
TypeOK ==
  /\ live \in [Nodes -> Instances \cup {None}]
  /\ \A n \in Nodes : live[n] # None => live[n].addr = n
  /\ views \in [Nodes -> SUBSET Instances]
  /\ calls \in [Ids -> Call \cup {None}]
  /\ \A i \in Ids : calls[i] # None =>
       /\ live[calls[i].at] # None
       /\ calls[i].pc \in {"poll", "forward"} => calls[i].left # {}
  /\ starts \in 0..MaxStarts /\ given \subseteq Tasks
  /\ {executed, failures} \subseteq [Tasks -> Nat]

\* The calls a call has come through: its caller, the caller of that, and so on.
CameThrough(i) ==
  {c \in Ids : \A S \in SUBSET Ids :
     (\A j \in S \cup {i}, k \in Ids : CalledBy(j, k) => k \in S) => c \in S}
Trail(i) == {calls[c].at : c \in CameThrough(i)}

\* A task whose capabilities are given is never handed back to a node that is
\* waiting for it, however stale the views are: a node hands it on only to an
\* instance it saw able, so a node that hands it on again started later.
NeverHandedBack ==
  \A i \in Ids : calls[i] # None /\ Needs[calls[i].task] # {} =>
    calls[i].at \notin Trail(i)

\* The agent runs once for a task, and once more for each run that failed or
\* answer that never came: peers tried in turn do not repeat work that was done.
NoNeedlessRun == \A t \in Tasks : executed[t] <= 1 + failures[t]

\* Clients that send no more tasks leave the nodes without a call before long: each
\* call, and each handler a caller has left, ends with an answer, with an error
\* or with its node, whichever peers have stopped or lost its answer.
CallsEnd == []<>(\A i \in Ids : calls[i] = None)
=============================================================================
