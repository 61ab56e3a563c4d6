---------------------------- MODULE SwarmProofs ----------------------------
(* Theorems about Swarm, for all addresses, ports, capability tags and tasks,
   and any number of instances, calls and tasks at a time.                    *)
EXTENDS Swarm, FiniteSetTheorems, TLAPS

-----------------------------------------------------------------------------
(* Types. *)

States == {"infer", "poll", "forward", "wait", "exec", "ok", "failed"}

\* Who made a call is another one, and waits for it with the same task.
Linked ==
  \A j, k \in Ids : CalledBy(j, k) =>
    j # k /\ calls[k] # None /\ calls[k].pc = "wait" /\ calls[k].task = calls[j].task

LEMMA Constants ==
  /\ MaxCalls \in Nat /\ MaxStarts \in Nat /\ MaxGiven \in Nat
  /\ Announced \subseteq Nodes /\ \A o \in Offers : o \subseteq Tags
  /\ Needs \in [Tasks -> SUBSET Tags]
  /\ Client # Gone /\ Client \notin Ids /\ Gone \notin Ids
  /\ None \notin Instances /\ None \notin Call
BY SwarmAssumption, NoneAssumption DEF Ids

\* What is chosen among the peers is some of them, and none only of none.
LEMMA ChosenPerKey ==
  ASSUME NEW key, NEW s \in OnePer(key)
  PROVE  s \subseteq DOMAIN key /\ (DOMAIN key # {} => s # {})
<1>1. s \subseteq DOMAIN key /\ {key[e] : e \in s} = {key[e] : e \in DOMAIN key}
  BY DEF OnePer
<1>2. ASSUME NEW d \in DOMAIN key PROVE s # {}
  <2>1. key[d] \in {key[e] : e \in s}
    BY <1>1
  <2> QED BY <2>1
<1> QED BY <1>1, <1>2

\* With required capabilities, a node that has them executes; one that has not
\* hands the task on to able peers, or polls all it knows.
LEMMA RouteExplicitDecides ==
  ASSUME NEW own, NEW required, NEW peers, NEW r \in RouteExplicit(own, required, peers)
  PROVE  /\ r[1] \in {"exec", "forward", "poll", "failed"} /\ r[2] \subseteq peers
         /\ r[1] \in {"poll", "forward"} => r[2] # {}
         /\ r[1] = "exec" <=> CapabilitiesMatch(required, own)
         /\ r[1] = "forward" => \A e \in r[2] : CapabilitiesMatch(required, e.caps)
<1>1. CASE CapabilitiesMatch(required, own)
  BY <1>1 DEF RouteExplicit
<1>2. CASE ~CapabilitiesMatch(required, own)
  <2>1. PICK s \in MatchingPeers(required, peers) :
          r = <<IF s # {} THEN "forward" ELSE IF peers # {} THEN "poll" ELSE "failed",
                IF s # {} THEN s ELSE peers>>
    BY <1>2 DEF RouteExplicit
  <2>2. \A e \in s : e \in peers /\ CapabilitiesMatch(required, e.caps)
    BY ChosenPerKey DEF MatchingPeers
  <2> QED BY <1>2, <2>1, <2>2
<1> QED BY <1>1, <1>2

LEMMA RouteSharedDecides ==
  ASSUME NEW own, NEW peers, NEW r \in RouteShared(own, peers)
  PROVE  /\ r[1] \in {"exec", "forward"} /\ r[2] \subseteq peers
         /\ r[1] = "forward" => r[2] # {}
<1> DEFINE skilled == {e \in peers : e.caps # {}}
<1>1. CASE own = {} /\ skilled # {}
  <2>1. PICK s \in OnePer([e \in skilled |-> e.addr]) : r = <<"forward", s>>
    BY <1>1 DEF RouteShared
  <2>2. s \subseteq skilled /\ s # {}
    BY <1>1, <2>1, ChosenPerKey
  <2> QED BY <2>1, <2>2
<1>2. CASE ~(own = {} /\ skilled # {})
  BY <1>2 DEF RouteShared
<1> QED BY <1>1, <1>2

LEMMA RouteTaskDecides ==
  ASSUME NEW own, NEW required, NEW peers, NEW r \in RouteTask(own, required, peers)
  PROVE  /\ r[1] \in {"exec", "forward", "poll", "failed"} /\ r[2] \subseteq peers
         /\ r[1] \in {"poll", "forward"} => r[2] # {}
BY RouteExplicitDecides, RouteSharedDecides DEF RouteTask

\* A new handler: where it starts, and what it starts with.
LEMMA ReceivedCall ==
  ASSUME TypeOK, NEW n \in Nodes, live[n] # None, NEW t \in Tasks,
         NEW from \in Ids \cup {Client, Gone}, NEW c \in Received(n, t, from)
  PROVE  /\ c \in Call /\ c # None
         /\ c.at = n /\ c.task = t /\ c.from = from /\ c.need = Needs[t] /\ c.willing = {}
         /\ c.pc \in {"infer", "exec", "forward", "poll", "failed"}
         /\ c.pc \in {"poll", "forward"} => c.left # {}
         /\ Needs[t] # {} =>
              /\ c.pc # "infer" /\ (c.pc = "exec" <=> CapabilitiesMatch(Needs[t], live[n].caps))
              /\ c.left \subseteq views[n]
              /\ c.pc = "forward" => \A e \in c.left : CapabilitiesMatch(Needs[t], e.caps)
<1> DEFINE rs == IF Needs[t] = {} THEN {<<"infer", views[n]>>}
                 ELSE RouteTask(live[n].caps, Needs[t], views[n])
<1>1. PICK r \in rs :
        c = [at |-> n, task |-> t, from |-> from, need |-> Needs[t], willing |-> {},
             pc |-> r[1], left |-> r[2]]
  BY DEF Received
<1>2. /\ r[1] \in {"infer", "exec", "forward", "poll", "failed"} /\ r[2] \subseteq views[n]
      /\ r[1] \in {"poll", "forward"} => r[2] # {}
  BY RouteTaskDecides
<1>3. views[n] \subseteq Instances /\ Needs[t] \subseteq Tags
  BY Constants DEF TypeOK
<1>4. c \in Call
  BY <1>1, <1>2, <1>3 DEF Call
<1>5. Needs[t] # {} =>
        /\ r[1] # "infer" /\ (r[1] = "exec" <=> CapabilitiesMatch(Needs[t], live[n].caps))
        /\ r[1] = "forward" => \A e \in r[2] : CapabilitiesMatch(Needs[t], e.caps)
  <2> SUFFICES ASSUME Needs[t] # {}
               PROVE  r \in RouteExplicit(live[n].caps, Needs[t], views[n])
    BY RouteExplicitDecides
  <2> QED BY DEF RouteTask
<1> QED BY <1>1, <1>2, <1>4, <1>5, Constants

\* A handler whose caller may be gone.
LEMMA DesertedCall ==
  ASSUME NEW i \in Ids, calls[i] \in Call \cup {None}, NEW ids
  PROVE  LET c == Deserted(i, ids) IN
         /\ c \in Call \cup {None} /\ (c = None <=> calls[i] = None)
         /\ calls[i] # None =>
              /\ c.at = calls[i].at /\ c.task = calls[i].task /\ c.pc = calls[i].pc
              /\ c.need = calls[i].need /\ c.left = calls[i].left /\ c.willing = calls[i].willing
              /\ c.from = IF calls[i].from \in ids THEN Gone ELSE calls[i].from
<1>1. CASE calls[i] # None /\ calls[i].from \in ids
  <2>1. Deserted(i, ids) = [calls[i] EXCEPT !.from = Gone]
    BY <1>1 DEF Deserted
  <2>2. calls[i] \in Call
    BY <1>1
  <2> QED BY <1>1, <2>1, <2>2, Constants DEF Call
<1>2. CASE ~(calls[i] # None /\ calls[i].from \in ids)
  BY <1>2 DEF Deserted
<1> QED BY <1>1, <1>2

\* A handler that goes on to the next peer, or fails for want of one.
LEMMA NextPeerCall ==
  ASSUME NEW i \in Ids, calls[i] \in Call, NEW left \in SUBSET Instances
  PROVE  LET c == NextPeer(i, left) IN
         /\ c \in Call /\ c # None
         /\ c.at = calls[i].at /\ c.task = calls[i].task /\ c.from = calls[i].from
         /\ c.need = calls[i].need /\ c.willing = calls[i].willing /\ c.left = left
         /\ c.pc = IF left = {} THEN "failed" ELSE "forward"
BY Constants DEF NextPeer, Call

-----------------------------------------------------------------------------
(* What the steps of a handler do to its call. *)

\* Call i goes on as c: on its node, with its task, for its caller.
Moves(i, c) ==
  /\ calls[i] # None /\ calls[i] \in Call /\ c \in Call /\ c # None
  /\ calls' = [calls EXCEPT ![i] = c]
  /\ c.at = calls[i].at /\ c.task = calls[i].task /\ c.from = calls[i].from
  /\ c.pc \in {"poll", "forward"} => c.left # {}
  /\ UNCHANGED <<live, views, starts, given>>

LEMMA CallTyped ==
  ASSUME TypeOK, NEW i \in Ids, calls[i] # None
  PROVE  /\ calls[i] \in Call /\ live[calls[i].at] # None /\ live[calls[i].at] \in Instances
         /\ calls[i].at \in Nodes /\ calls[i].task \in Tasks /\ calls[i].pc \in States
         /\ calls[i].left \subseteq Instances /\ calls[i].willing \subseteq Instances
         /\ calls[i].from \in Ids \cup {Client, Gone} /\ calls[i].need \subseteq Tags
         /\ calls[i].pc \in {"poll", "forward"} => calls[i].left # {}
BY DEF TypeOK, Call, States

LEMMA InferMoves ==
  ASSUME TypeOK, NEW i \in Ids, Infer(i)
  PROVE  \E c \in Call :
           /\ Moves(i, c) /\ calls[i].pc = "infer" /\ c.pc \in {"exec", "forward", "poll", "failed"}
           /\ executed' = Runs(calls[i].task, c.pc) /\ failures' = failures
<1>1. calls[i] # None /\ calls[i].pc = "infer"
  BY DEF Infer, Is
<1>2. PICK required \in InferRequiredCapabilities(i) :
        \E r \in RouteTask(live[calls[i].at].caps, required, calls[i].left) :
          /\ calls' = [calls EXCEPT ![i].pc = r[1], ![i].left = r[2], ![i].need = required]
          /\ executed' = Runs(calls[i].task, r[1])
  BY DEF Infer
<1>3. PICK r \in RouteTask(live[calls[i].at].caps, required, calls[i].left) :
        /\ calls' = [calls EXCEPT ![i].pc = r[1], ![i].left = r[2], ![i].need = required]
        /\ executed' = Runs(calls[i].task, r[1])
  BY <1>2
<1>4. required \subseteq Tags
  <2>1. live[calls[i].at].caps \subseteq Tags /\ \A e \in calls[i].left : e.caps \subseteq Tags
    BY <1>1, CallTyped, Constants DEF Instances
  <2> QED BY <2>1 DEF InferRequiredCapabilities, KnownTags
<1>5. /\ r[1] \in {"exec", "forward", "poll", "failed"} /\ r[2] \subseteq calls[i].left
      /\ r[1] \in {"poll", "forward"} => r[2] # {}
  BY RouteTaskDecides
<1> DEFINE c == [calls[i] EXCEPT !.pc = r[1], !.left = r[2], !.need = required]
<1>6. /\ c \in Call /\ c.pc = r[1] /\ c.left = r[2]
      /\ c.at = calls[i].at /\ c.task = calls[i].task /\ c.from = calls[i].from
  <2>1. calls[i] \in Call /\ r[1] \in States /\ r[2] \in SUBSET Instances
    BY <1>1, <1>5, CallTyped DEF States
  <2> QED BY <1>4, <2>1 DEF Call, States
<1>7. calls' = [calls EXCEPT ![i] = c]
  BY <1>3 DEF TypeOK
<1> HIDE DEF c
<1>8. Moves(i, c)
  BY <1>1, <1>5, <1>6, <1>7, CallTyped, Constants DEF Moves, Infer
<1>9. failures' = failures
  BY DEF Infer
<1> QED BY <1>1, <1>3, <1>5, <1>6, <1>8, <1>9

LEMMA PollMoves ==
  ASSUME TypeOK, NEW i \in Ids, Poll(i)
  PROVE  \E c \in Call, e \in calls[i].left : \E can \in Answered(e, calls[i].need) :
           /\ Moves(i, c) /\ calls[i].pc = "poll" /\ c.need = calls[i].need
           /\ LET willing == IF can THEN calls[i].willing \cup {e} ELSE calls[i].willing IN
              \/ c.pc = "poll" /\ c.willing = willing
              \/ c.pc = "forward" /\ c.left = willing
              \/ c.pc = "failed"
           /\ executed' = executed /\ failures' = failures
<1>1. calls[i] # None /\ calls[i].pc = "poll"
  BY DEF Poll, Is
<1>1a. PICK e \in calls[i].left : \E can \in Answered(e, calls[i].need) :
        LET rest == calls[i].left \ {e}
            willing == IF can THEN calls[i].willing \cup {e} ELSE calls[i].willing
        IN calls' = [calls EXCEPT ![i] =
             IF rest # {} THEN [@ EXCEPT !.left = rest, !.willing = willing]
             ELSE [@ EXCEPT !.pc = IF willing = {} THEN "failed" ELSE "forward",
                            !.left = willing, !.willing = {}]]
  BY DEF Poll
<1>2. PICK can \in Answered(e, calls[i].need) :
        LET rest == calls[i].left \ {e}
            willing == IF can THEN calls[i].willing \cup {e} ELSE calls[i].willing
        IN calls' = [calls EXCEPT ![i] =
             IF rest # {} THEN [@ EXCEPT !.left = rest, !.willing = willing]
             ELSE [@ EXCEPT !.pc = IF willing = {} THEN "failed" ELSE "forward",
                            !.left = willing, !.willing = {}]]
  BY <1>1a
<1> DEFINE rest == calls[i].left \ {e}
           willing == IF can THEN calls[i].willing \cup {e} ELSE calls[i].willing
           c == IF rest # {} THEN [calls[i] EXCEPT !.left = rest, !.willing = willing]
                ELSE [calls[i] EXCEPT !.pc = IF willing = {} THEN "failed" ELSE "forward",
                                      !.left = willing, !.willing = {}]
<1>3. calls' = [calls EXCEPT ![i] = c]
  BY <1>2 DEF TypeOK
<1>4. calls[i] \in Call /\ rest \subseteq Instances /\ willing \subseteq Instances
  BY <1>1, CallTyped
<1> HIDE DEF willing
<1>5. /\ c \in Call /\ c.need = calls[i].need
      /\ c.at = calls[i].at /\ c.task = calls[i].task /\ c.from = calls[i].from
      /\ \/ c.pc = "poll" /\ c.willing = willing /\ c.left # {}
         \/ c.pc = "forward" /\ c.left = willing /\ c.left # {}
         \/ c.pc = "failed"
  <2>1. CASE rest # {}
    BY <1>1, <1>4, <2>1 DEF Call
  <2>2. CASE rest = {}
    BY <1>1, <1>4, <2>2 DEF Call
  <2> QED BY <2>1, <2>2
<1> HIDE DEF c
<1>6. Moves(i, c)
  BY <1>1, <1>3, <1>4, <1>5, Constants DEF Moves, Poll
<1>7. executed' = executed /\ failures' = failures
  BY DEF Poll
<1> QED BY <1>1, <1>5, <1>6, <1>7 DEF willing

LEMMA UnreachableMoves ==
  ASSUME TypeOK, NEW i \in Ids, Unreachable(i)
  PROVE  \E c \in Call :
           /\ Moves(i, c) /\ calls[i].pc = "forward" /\ c.need = calls[i].need
           /\ c.pc \in {"forward", "failed"} /\ c.left \subseteq calls[i].left
           /\ executed' = executed /\ failures' = failures
<1>1. calls[i] # None /\ calls[i].pc = "forward"
  BY DEF Unreachable, Is
<1>2. PICK e \in calls[i].left : calls' = [calls EXCEPT ![i] = NextPeer(i, calls[i].left \ {e})]
  BY DEF Unreachable, TypeOK
<1>3. calls[i] \in Call /\ calls[i].left \ {e} \in SUBSET Instances
  BY <1>1, CallTyped
<1> DEFINE c == NextPeer(i, calls[i].left \ {e})
<1>4. /\ c \in Call /\ c # None /\ c.need = calls[i].need /\ c.left = calls[i].left \ {e}
      /\ c.at = calls[i].at /\ c.task = calls[i].task /\ c.from = calls[i].from
      /\ c.pc = IF c.left = {} THEN "failed" ELSE "forward"
  BY <1>3, NextPeerCall
<1> HIDE DEF c
<1>5. Moves(i, c)
  BY <1>1, <1>2, <1>3, <1>4 DEF Moves, Unreachable, c
<1>6. executed' = executed /\ failures' = failures
  BY DEF Unreachable
<1> QED BY <1>1, <1>4, <1>5, <1>6

LEMMA AgentEndsMoves ==
  ASSUME TypeOK, NEW i \in Ids, AgentEnds(i)
  PROVE  \E c \in Call :
           /\ Moves(i, c) /\ calls[i].pc = "exec" /\ c.pc \in {"ok", "failed"} /\ c.need = calls[i].need
           /\ executed' = executed
           /\ failures' = IF c.pc = "ok" THEN failures ELSE [failures EXCEPT ![calls[i].task] = @ + 1]
<1>1. calls[i] # None /\ calls[i].pc = "exec"
  BY DEF AgentEnds, Is
<1>2. PICK pc \in {"ok", "failed"} :
        /\ calls' = [calls EXCEPT ![i].pc = pc]
        /\ failures' = IF pc = "ok" THEN failures ELSE [failures EXCEPT ![calls[i].task] = @ + 1]
  BY DEF AgentEnds
<1> DEFINE c == [calls[i] EXCEPT !.pc = pc]
<1>3. /\ c \in Call /\ c.pc = pc /\ c.need = calls[i].need
      /\ c.at = calls[i].at /\ c.task = calls[i].task /\ c.from = calls[i].from
  <2>1. calls[i] \in Call
    BY <1>1, CallTyped
  <2> QED BY <2>1 DEF Call
<1>4. calls' = [calls EXCEPT ![i] = c]
  BY <1>2 DEF TypeOK
<1> HIDE DEF c
<1>5. Moves(i, c)
  BY <1>1, <1>3, <1>4, CallTyped, Constants DEF Moves, AgentEnds
<1>6. executed' = executed
  BY DEF AgentEnds
<1> QED BY <1>1, <1>2, <1>3, <1>5, <1>6

\* A new call of a client.
LEMMA SubmitMoves ==
  ASSUME TypeOK, NEW n \in Nodes, NEW t \in Tasks, Submit(n, t)
  PROVE  \E i \in Ids, c \in Call :
           /\ calls[i] = None /\ live[n] # None /\ c \in Received(n, t, Client)
           /\ calls' = [calls EXCEPT ![i] = c]
           /\ executed' = Runs(t, c.pc) /\ failures' = failures
           /\ UNCHANGED <<live, views, starts>> /\ t \notin given /\ given' = given \cup {t}
<1>1. PICK i \in Ids, c \in Received(n, t, Client) :
        calls[i] = None /\ calls' = [calls EXCEPT ![i] = c] /\ executed' = Runs(t, c.pc)
  BY DEF Submit, IsNext
<1>2. Client \in Ids \cup {Client, Gone} /\ live[n] # None
  BY DEF Submit
<1>3. c \in Call
  BY <1>2, ReceivedCall
<1> QED BY <1>1, <1>2, <1>3 DEF Submit

\* Call i waits, as d, for the new call j at one of the peers it had left.
LEMMA ForwardMoves ==
  ASSUME TypeOK, NEW i \in Ids, Forward(i)
  PROVE  \E j \in Ids, d, c \in Call : \E e \in calls[i].left :
           /\ calls[i] # None /\ calls[i].pc = "forward" /\ calls[j] = None /\ i # j
           /\ calls[i].task \in Tasks /\ e.addr \in Nodes
           /\ live[e.addr] # None /\ c \in Received(e.addr, calls[i].task, i)
           /\ d.at = calls[i].at /\ d.task = calls[i].task /\ d.from = calls[i].from
           /\ d.pc = "wait" /\ d.left \subseteq calls[i].left /\ d.need = calls[i].need
           /\ calls' = [k \in Ids |-> IF k = j THEN c ELSE IF k = i THEN d ELSE calls[k]]
           /\ executed' = Runs(c.task, c.pc) /\ failures' = failures
           /\ UNCHANGED <<live, views, starts, given>>
<1>1. calls[i] # None /\ calls[i].pc = "forward"
  BY DEF Forward, Is
<1>2. PICK e \in calls[i].left, j \in Ids :
        /\ live[e.addr] # None /\ calls[j] = None
        /\ \E c \in Received(e.addr, calls[i].task, i) :
             /\ calls' = [calls EXCEPT ![i].pc = "wait", ![i].left = @ \ {e}, ![j] = c]
             /\ executed' = Runs(c.task, c.pc)
  BY DEF Forward, IsNext
<1>3. PICK c \in Received(e.addr, calls[i].task, i) :
        /\ calls' = [calls EXCEPT ![i].pc = "wait", ![i].left = @ \ {e}, ![j] = c]
        /\ executed' = Runs(c.task, c.pc)
  BY <1>2
<1>4. calls[i] \in Call /\ calls[i].task \in Tasks /\ calls[i].left \subseteq Instances
  BY <1>1, CallTyped
<1>5. e.addr \in Nodes /\ i \in Ids \cup {Client, Gone}
  BY <1>4 DEF Instances
<1>6. c \in Call
  BY <1>2, <1>4, <1>5, ReceivedCall
<1> DEFINE d == [calls[i] EXCEPT !.pc = "wait", !.left = calls[i].left \ {e}]
<1>7. /\ d \in Call /\ d.at = calls[i].at /\ d.task = calls[i].task /\ d.from = calls[i].from
      /\ d.pc = "wait" /\ d.left = calls[i].left \ {e} /\ d.need = calls[i].need
  <2>1. calls[i].left \ {e} \subseteq Instances
    BY <1>4
  <2> QED BY <1>4, <2>1 DEF Call
<1>8. i # j /\ calls \in [Ids -> Call \cup {None}]
  BY <1>1, <1>2 DEF TypeOK
<1>9. calls' = [calls EXCEPT ![i] = d, ![j] = c]
  BY <1>3, <1>8
<1> HIDE DEF d
<1>10. calls' = [k \in Ids |-> IF k = j THEN c ELSE IF k = i THEN d ELSE calls[k]]
  BY <1>8, <1>9
<1>11. failures' = failures /\ UNCHANGED <<live, views, starts, given>>
  BY DEF Forward
<1>12. /\ calls[j] = None /\ live[e.addr] # None /\ executed' = Runs(c.task, c.pc)
       /\ d.left \subseteq calls[i].left
  BY <1>2, <1>3, <1>7
<1> QED BY <1>1, <1>4, <1>5, <1>6, <1>7, <1>8, <1>10, <1>11, <1>12

\* The call for which j waited ends, and j goes on as c.
LEMMA AnswerPeerMoves ==
  ASSUME TypeOK, Linked, NEW i \in Ids, AnswerPeer(i)
  PROVE  \E j \in Ids, c \in Call :
           /\ calls[i] # None /\ calls[i].from = j /\ calls[i].pc \in {"ok", "failed"}
           /\ calls[j] # None /\ calls[j].pc = "wait" /\ i # j /\ calls[j].task = calls[i].task
           /\ c.at = calls[j].at /\ c.task = calls[j].task /\ c.from = calls[j].from
           /\ c.need = calls[j].need /\ c.left \subseteq calls[j].left
           /\ c.pc \in {"ok", "failed", "forward"} /\ (calls[i].pc = "ok" => c.pc = "ok")
           /\ c.pc = "forward" => c.left # {}
           /\ calls' = [k \in Ids |-> IF k = j THEN c ELSE IF k = i THEN None ELSE calls[k]]
           /\ UNCHANGED <<live, views, starts, given, executed, failures>>
<1>1. PICK j \in Ids :
        /\ CalledBy(i, j)
        /\ calls' = [calls EXCEPT ![i] = None,
             ![j] = IF Is(i, "ok") THEN [@ EXCEPT !.pc = "ok", !.left = {}] ELSE NextPeer(j, @.left)]
  BY DEF AnswerPeer
<1>2. /\ calls[i] # None /\ calls[i].from = j /\ calls[i].pc \in {"ok", "failed"}
      /\ calls[j] # None /\ calls[j].pc = "wait" /\ i # j /\ calls[j].task = calls[i].task
  BY <1>1 DEF Linked, CalledBy, AnswerPeer, Ended, Is
<1> DEFINE c == IF Is(i, "ok") THEN [calls[j] EXCEPT !.pc = "ok", !.left = {}]
                ELSE NextPeer(j, calls[j].left)
<1>3. calls \in [Ids -> Call \cup {None}] /\ calls[j] \in Call /\ calls[j].left \in SUBSET Instances
  BY <1>2, CallTyped DEF TypeOK
<1>4. calls' = [calls EXCEPT ![i] = None, ![j] = c]
  BY <1>1, <1>2, <1>3
<1>5. /\ c \in Call
      /\ c.at = calls[j].at /\ c.task = calls[j].task /\ c.from = calls[j].from
      /\ c.need = calls[j].need /\ c.left \subseteq calls[j].left
      /\ c.pc \in {"ok", "failed", "forward"} /\ (calls[i].pc = "ok" => c.pc = "ok")
      /\ c.pc = "forward" => c.left # {}
  <2>1. CASE Is(i, "ok")
    BY <1>3, <2>1 DEF Call
  <2>2. CASE ~Is(i, "ok")
    <3>1. LET d == NextPeer(j, calls[j].left) IN
          /\ d \in Call /\ d.at = calls[j].at /\ d.task = calls[j].task /\ d.from = calls[j].from
          /\ d.need = calls[j].need /\ d.left = calls[j].left
          /\ d.pc = IF calls[j].left = {} THEN "failed" ELSE "forward"
      BY <1>3, NextPeerCall
    <3>2. calls[i].pc # "ok"
      BY <1>2, <2>2 DEF Is
    <3> QED BY <2>2, <3>1, <3>2
  <2> QED BY <2>1, <2>2
<1> HIDE DEF c
<1>6. calls' = [k \in Ids |-> IF k = j THEN c ELSE IF k = i THEN None ELSE calls[k]]
  BY <1>2, <1>3, <1>4
<1>7. UNCHANGED <<live, views, starts, given, executed, failures>>
  BY DEF AnswerPeer
<1> QED BY <1>2, <1>5, <1>6, <1>7

\* Call i loses the answer it waits for, and goes on as c.
LEMMA NoAnswerMoves ==
  ASSUME TypeOK, NEW i \in Ids, NoAnswer(i)
  PROVE  \E c \in Call :
           /\ calls[i] # None /\ calls[i].pc = "wait" /\ calls[i].task \in Tasks
           /\ c.at = calls[i].at /\ c.task = calls[i].task /\ c.from = calls[i].from
           /\ c.need = calls[i].need /\ c.left = calls[i].left
           /\ c.pc \in {"failed", "forward"} /\ (c.pc = "forward" => c.left # {})
           /\ calls' = [j \in Ids |-> IF j = i THEN c ELSE Deserted(j, {i})]
           /\ failures' = [failures EXCEPT ![calls[i].task] = @ + 1]
           /\ UNCHANGED <<live, views, starts, given, executed>>
<1>1. calls[i] # None /\ calls[i].pc = "wait"
  BY DEF NoAnswer, Is
<1>2. calls[i] \in Call /\ calls[i].left \in SUBSET Instances /\ calls[i].task \in Tasks
  BY <1>1, CallTyped
<1> DEFINE c == NextPeer(i, calls[i].left)
<1>3. /\ c \in Call /\ c.at = calls[i].at /\ c.task = calls[i].task /\ c.from = calls[i].from
      /\ c.need = calls[i].need /\ c.left = calls[i].left
      /\ c.pc = IF calls[i].left = {} THEN "failed" ELSE "forward"
  BY <1>2, NextPeerCall
<1>4. /\ calls' = [j \in Ids |-> IF j = i THEN c ELSE Deserted(j, {i})]
      /\ failures' = [failures EXCEPT ![calls[i].task] = @ + 1]
      /\ UNCHANGED <<live, views, starts, given, executed>>
  BY DEF NoAnswer
<1> HIDE DEF c
<1> QED BY <1>1, <1>2, <1>3, <1>4

LEMMA TypeInit == Init => TypeOK
BY Constants DEF Init, TypeOK

\* One step per action; live and calls[i] say where a handler runs and on what.
LEMMA TypeStep == TypeOK /\ Linked /\ [Next]_vars => TypeOK'
<1> SUFFICES ASSUME TypeOK, Linked, [Next]_vars PROVE TypeOK'
  OBVIOUS
<1> USE Constants
<1>t. ASSUME NEW i \in Ids, calls[i] # None
      PROVE  /\ calls[i] \in Call /\ live[calls[i].at] # None
             /\ calls[i].at \in Nodes /\ calls[i].task \in Tasks
             /\ calls[i].left \subseteq Instances /\ calls[i].willing \subseteq Instances
             /\ calls[i].from \in Ids \cup {Client, Gone} /\ calls[i].need \subseteq Tags
             /\ calls[i].pc \in {"poll", "forward"} => calls[i].left # {}
  BY <1>t DEF TypeOK, Call
<1>r. ASSUME NEW t \in Tasks, NEW pc
      PROVE  Runs(t, pc) \in [Tasks -> Nat]
  BY DEF Runs, TypeOK
\* A step that changes the calls of nodes that stay.
<1>c. ASSUME UNCHANGED <<live, views, starts>>, given' \subseteq Tasks,
             executed' \in [Tasks -> Nat], failures' \in [Tasks -> Nat],
             calls' \in [Ids -> Call \cup {None}],
             \A i \in Ids : calls'[i] # None =>
               /\ live[calls'[i].at] # None
               /\ calls'[i].pc \in {"poll", "forward"} => calls'[i].left # {}
      PROVE  TypeOK'
  BY <1>c DEF TypeOK
\* A step of one handler.
<1>d. ASSUME UNCHANGED <<live, views, starts>>, given' \subseteq Tasks,
             executed' \in [Tasks -> Nat], failures' \in [Tasks -> Nat],
             NEW i \in Ids, NEW c \in Call \cup {None}, calls' = [calls EXCEPT ![i] = c],
             c # None => live[c.at] # None /\ (c.pc \in {"poll", "forward"} => c.left # {})
      PROVE  TypeOK'
  <2>1. calls' \in [Ids -> Call \cup {None}] /\ \A j \in Ids : calls'[j] = IF j = i THEN c ELSE calls[j]
    BY <1>d DEF TypeOK
  <2> QED BY <1>c, <1>d, <1>t, <2>1
<1>h. executed \in [Tasks -> Nat] /\ failures \in [Tasks -> Nat] /\ given \subseteq Tasks
  BY DEF TypeOK
<1>m. ASSUME NEW i \in Ids, NEW c, Moves(i, c),
             executed' \in [Tasks -> Nat], failures' \in [Tasks -> Nat]
      PROVE  TypeOK'
  <2>1. c \in Call \cup {None} /\ live[c.at] # None /\ (c.pc \in {"poll", "forward"} => c.left # {})
    BY <1>m, CallTyped DEF Moves
  <2> QED BY <1>d, <1>h, <1>m, <2>1 DEF Moves
<1>1. ASSUME NEW n \in Nodes, NEW caps \in Offers, Start(n, caps) PROVE TypeOK'
  <2>1. [addr |-> n, caps |-> caps, no |-> starts + 1] \in Instances
    BY <1>1 DEF Start, Instances, TypeOK
  <2>2. live' \in [Nodes -> Instances \cup {None}] /\ \A m \in Nodes : live'[m] # None => live'[m].addr = m
    BY <1>1, <2>1 DEF Start, TypeOK
  <2>3. views' \in [Nodes -> SUBSET Instances] /\ starts' \in 0..MaxStarts
    BY <1>1 DEF Start, TypeOK
  <2>4. \A m \in Nodes : live[m] # None => live'[m] # None
    BY <1>1, <2>1 DEF Start, TypeOK
  <2> QED BY <1>1, <1>t, <2>2, <2>3, <2>4 DEF Start, TypeOK
<1>2. ASSUME NEW n \in Nodes, Stop(n) PROVE TypeOK'
  <2>1. live' \in [Nodes -> Instances \cup {None}] /\ \A m \in Nodes : live'[m] # None => live'[m].addr = m
    BY <1>2 DEF Stop, TypeOK
  <2> DEFINE ended == {i \in Ids : calls[i] # None /\ calls[i].at = n}
  <2>2. calls' = [i \in Ids |-> IF i \in ended THEN None ELSE Deserted(i, ended)]
    BY <1>2 DEF Stop
  <2> HIDE DEF ended
  <2>3. \A i \in Ids : calls'[i] # None =>
          /\ calls'[i] \in Call /\ calls'[i].at = calls[i].at /\ i \notin ended /\ calls[i] # None
          /\ calls'[i].pc = calls[i].pc /\ calls'[i].left = calls[i].left
    BY <2>2, DesertedCall DEF TypeOK
  <2>4. calls' \in [Ids -> Call \cup {None}]
    BY <2>2, <2>3
  <2>5. \A i \in Ids : calls'[i] # None =>
          live'[calls'[i].at] # None /\ (calls'[i].pc \in {"poll", "forward"} => calls'[i].left # {})
    <3> SUFFICES ASSUME NEW i \in Ids, calls'[i] # None
                 PROVE  live'[calls[i].at] # None /\ (calls[i].pc \in {"poll", "forward"} => calls[i].left # {})
      BY <2>3
    <3>1. calls[i] # None /\ calls[i].at # n
      BY <2>3 DEF ended
    <3> QED BY <1>2, <1>t, <3>1 DEF Stop, TypeOK
  <2> QED BY <1>2, <2>1, <2>4, <2>5 DEF Stop, TypeOK
<1>3. ASSUME NEW n \in Nodes, NEW m \in Nodes, Discover(n, m) PROVE TypeOK'
  BY <1>3 DEF Discover, TypeOK
<1>4. ASSUME NEW n \in Nodes, NEW e \in views[n], Forget(n, e) PROVE TypeOK'
  BY <1>4 DEF Forget, TypeOK
<1>5. ASSUME NEW n \in Nodes, NEW t \in Tasks, Submit(n, t) PROVE TypeOK'
  <2>1. PICK i \in Ids, c \in Call :
          /\ calls[i] = None /\ live[n] # None /\ c \in Received(n, t, Client)
          /\ calls' = [calls EXCEPT ![i] = c]
          /\ executed' = Runs(t, c.pc) /\ failures' = failures
          /\ UNCHANGED <<live, views, starts>> /\ given' = given \cup {t}
    BY <1>5, SubmitMoves
  <2>2. c.at = n
    BY <2>1, ReceivedCall
  <2>3. c.pc \in {"poll", "forward"} => c.left # {}
    BY <2>1, ReceivedCall
  <2> QED BY <1>d, <1>h, <1>r, <2>1, <2>2, <2>3
<1>6. ASSUME NEW i \in Ids, Infer(i) PROVE TypeOK'
  <2>1. calls[i].task \in Tasks
    BY <1>6, CallTyped DEF Infer, Is
  <2> QED BY <1>6, <1>h, <1>m, <1>r, <2>1, InferMoves
<1>7. ASSUME NEW i \in Ids, Poll(i) PROVE TypeOK'
  BY <1>7, <1>h, <1>m, PollMoves
<1>9. ASSUME NEW i \in Ids, Unreachable(i) PROVE TypeOK'
  BY <1>9, <1>h, <1>m, UnreachableMoves
<1>11. ASSUME NEW i \in Ids, AgentEnds(i) PROVE TypeOK'
  <2>1. calls[i].task \in Tasks
    BY <1>11, CallTyped DEF AgentEnds, Is
  <2>2. [failures EXCEPT ![calls[i].task] = @ + 1] \in [Tasks -> Nat]
    BY <1>h, <2>1
  <2> QED BY <1>11, <1>h, <1>m, <2>2, AgentEndsMoves
\* Calls that are deserted go on.
<1>o. ASSUME NEW i \in Ids, NEW j \in Ids
      PROVE  /\ Deserted(j, {i}) \in Call \cup {None}
             /\ Deserted(j, {i}) # None =>
                  /\ live[Deserted(j, {i}).at] # None
                  /\ Deserted(j, {i}).pc \in {"poll", "forward"} => Deserted(j, {i}).left # {}
  <2>1. calls[j] \in Call \cup {None}
    BY DEF TypeOK
  <2>2. CASE calls[j] = None
    BY <2>2 DEF Deserted
  <2>3. CASE calls[j] # None
    BY <1>t, <2>1, <2>3, DesertedCall
  <2> QED BY <2>2, <2>3
<1>8. ASSUME NEW i \in Ids, Forward(i) PROVE TypeOK'
  <2>1. PICK j \in Ids, d, c \in Call : \E e \in calls[i].left :
          /\ calls[i] # None /\ calls[i].task \in Tasks /\ e.addr \in Nodes
          /\ live[e.addr] # None /\ c \in Received(e.addr, calls[i].task, i)
          /\ d.at = calls[i].at /\ d.pc = "wait"
          /\ calls' = [k \in Ids |-> IF k = j THEN c ELSE IF k = i THEN d ELSE calls[k]]
          /\ executed' = Runs(c.task, c.pc) /\ failures' = failures
          /\ UNCHANGED <<live, views, starts, given>>
    BY <1>8, ForwardMoves
  <2>2. i \in Ids \cup {Client, Gone}
    OBVIOUS
  <2>3. live[c.at] # None
    BY <2>1, <2>2, ReceivedCall
  <2>4. c.pc \in {"poll", "forward"} => c.left # {}
    BY <2>1, <2>2, ReceivedCall
  <2>5. c.task \in Tasks
    BY DEF Call
  <2>6. calls' \in [Ids -> Call \cup {None}]
    BY <2>1 DEF TypeOK
  <2>7. \A k \in Ids : calls'[k] # None =>
          live[calls'[k].at] # None /\ (calls'[k].pc \in {"poll", "forward"} => calls'[k].left # {})
    BY <1>t, <2>1, <2>3, <2>4
  <2> QED BY <1>c, <1>h, <1>r, <2>1, <2>5, <2>6, <2>7
<1>10. ASSUME NEW i \in Ids, NoAnswer(i) PROVE TypeOK'
  <2>1. PICK c \in Call :
          /\ calls[i] # None /\ calls[i].task \in Tasks /\ c.at = calls[i].at
          /\ c.pc \in {"failed", "forward"} /\ (c.pc = "forward" => c.left # {})
          /\ calls' = [j \in Ids |-> IF j = i THEN c ELSE Deserted(j, {i})]
          /\ failures' = [failures EXCEPT ![calls[i].task] = @ + 1]
          /\ UNCHANGED <<live, views, starts, given, executed>>
    BY <1>10, NoAnswerMoves
  <2>2. failures' \in [Tasks -> Nat]
    BY <1>h, <2>1
  <2>3. calls' \in [Ids -> Call \cup {None}]
    BY <1>o, <2>1
  <2>4. \A j \in Ids : calls'[j] # None =>
          live[calls'[j].at] # None /\ (calls'[j].pc \in {"poll", "forward"} => calls'[j].left # {})
    BY <1>o, <1>t, <2>1
  <2> QED BY <1>c, <1>h, <2>1, <2>2, <2>3, <2>4
<1>12. ASSUME NEW i \in Ids, AnswerClient(i) PROVE TypeOK'
  BY <1>12, <1>d, <1>h DEF AnswerClient
<1>13. ASSUME NEW i \in Ids, AnswerPeer(i) PROVE TypeOK'
  <2>1. PICK j \in Ids, c \in Call :
          /\ calls[j] # None /\ c.at = calls[j].at
          /\ c.pc \in {"ok", "failed", "forward"} /\ (c.pc = "forward" => c.left # {})
          /\ calls' = [k \in Ids |-> IF k = j THEN c ELSE IF k = i THEN None ELSE calls[k]]
          /\ UNCHANGED <<live, views, starts, given, executed, failures>>
    BY <1>13, AnswerPeerMoves
  <2>2. calls' \in [Ids -> Call \cup {None}]
    BY <2>1 DEF TypeOK
  <2>3. \A k \in Ids : calls'[k] # None =>
          live[calls'[k].at] # None /\ (calls'[k].pc \in {"poll", "forward"} => calls'[k].left # {})
    BY <1>t, <2>1
  <2> QED BY <1>c, <1>h, <2>1, <2>2, <2>3
<1>14. ASSUME NEW i \in Ids, Drop(i) PROVE TypeOK'
  <2>1. calls' = [j \in Ids |-> IF j = i THEN None ELSE Deserted(j, {i})]
    BY <1>14 DEF Drop
  <2>2. calls' \in [Ids -> Call \cup {None}]
    BY <1>o, <2>1
  <2>3. \A j \in Ids : calls'[j] # None =>
          live[calls'[j].at] # None /\ (calls'[j].pc \in {"poll", "forward"} => calls'[j].left # {})
    BY <1>o, <2>1
  <2> QED BY <1>14, <1>c, <1>h, <2>2, <2>3 DEF Drop
<1>15. ASSUME NEW i \in Ids, ClientLeaves(i) PROVE TypeOK'
  <2>1. calls[i] # None
    BY <1>15 DEF ClientLeaves, CalledBy
  <2> DEFINE c == [calls[i] EXCEPT !.from = Gone]
  <2>2. c \in Call /\ c.at = calls[i].at /\ c.pc = calls[i].pc /\ c.left = calls[i].left
    BY <1>t, <2>1 DEF Call
  <2>3. calls' = [calls EXCEPT ![i] = c]
    BY <1>15 DEF ClientLeaves, TypeOK
  <2> HIDE DEF c
  <2>4. c # None => live[c.at] # None /\ (c.pc \in {"poll", "forward"} => c.left # {})
    BY <1>t, <2>1, <2>2
  <2> QED BY <1>15, <1>d, <1>h, <2>2, <2>3, <2>4 DEF ClientLeaves
<1>16. CASE UNCHANGED vars
  BY <1>16 DEF TypeOK, vars
<1> QED BY <1>1, <1>2, <1>3, <1>4, <1>5, <1>6, <1>7, <1>8, <1>9, <1>10, <1>11, <1>12, <1>13,
           <1>14, <1>15, <1>16 DEF Next, HandlerStep

-----------------------------------------------------------------------------
(* Callers and callees. *)

\* A caller waits for one callee at a time.
OneCallee == \A i, j, k \in Ids : CalledBy(i, k) /\ CalledBy(j, k) => i = j

\* Call k in a step that leaves it there: what it may become.
GoesOn(k) ==
  /\ calls'[k].at = calls[k].at /\ calls'[k].task = calls[k].task
  /\ calls'[k].from \in {calls[k].from, Gone}
  /\ \/ calls[k].pc = "infer"
     \/ /\ calls'[k].need = calls[k].need
        /\ \/ /\ calls'[k].pc = calls[k].pc /\ calls'[k].left = calls[k].left
              /\ calls'[k].willing = calls[k].willing
           \/ /\ calls[k].pc = "poll"
              /\ \E e \in calls[k].left : \E can \in Answered(e, calls[k].need) :
                   LET willing == IF can THEN calls[k].willing \cup {e} ELSE calls[k].willing IN
                   \/ calls'[k].pc = "poll" /\ calls'[k].willing = willing
                   \/ calls'[k].pc = "forward" /\ calls'[k].left = willing
                   \/ calls'[k].pc = "failed"
           \/ /\ calls[k].pc \in {"forward", "wait"} /\ calls'[k].left \subseteq calls[k].left
              /\ calls'[k].pc \in {"forward", "wait", "ok", "failed"}
           \/ calls[k].pc = "exec" /\ calls'[k].pc \in {"ok", "failed"}

LEMMA CallsGoOn ==
  ASSUME TypeOK, Linked, [Next]_vars, NEW k \in Ids, calls[k] # None, calls'[k] # None
  PROVE  GoesOn(k)
<1>t. calls \in [Ids -> Call \cup {None}] /\ calls[k] \in Call
  BY DEF TypeOK
\* A step that leaves the call as it is, or closes the connection it came in by.
<1>s. ASSUME calls'[k] = calls[k] PROVE GoesOn(k)
  BY <1>s DEF GoesOn
<1>d. ASSUME NEW ids, calls'[k] = Deserted(k, ids) PROVE GoesOn(k)
  BY <1>d, <1>t, DesertedCall DEF GoesOn
<1>m. ASSUME NEW i \in Ids, NEW c, Moves(i, c), i # k PROVE GoesOn(k)
  BY <1>m, <1>s, <1>t DEF Moves
<1>n. ASSUME NEW i \in Ids, NEW c, Moves(i, c), i = k
      PROVE  /\ calls'[k] = c /\ c.at = calls[k].at /\ c.task = calls[k].task
             /\ c.from = calls[k].from
  BY <1>n, <1>t DEF Moves
<1>1. ASSUME NEW n \in Nodes, NEW caps \in Offers, Start(n, caps) PROVE GoesOn(k)
  BY <1>1, <1>s DEF Start
<1>2. ASSUME NEW n \in Nodes, Stop(n) PROVE GoesOn(k)
  <2> DEFINE ended == {i \in Ids : calls[i] # None /\ calls[i].at = n}
  <2>1. calls' = [i \in Ids |-> IF i \in ended THEN None ELSE Deserted(i, ended)]
    BY <1>2 DEF Stop
  <2> HIDE DEF ended
  <2>2. calls'[k] = Deserted(k, ended)
    BY <2>1
  <2> QED BY <1>d, <2>2
<1>3. ASSUME NEW n \in Nodes, NEW m \in Nodes, Discover(n, m) PROVE GoesOn(k)
  BY <1>3, <1>s DEF Discover
<1>4. ASSUME NEW n \in Nodes, NEW e \in views[n], Forget(n, e) PROVE GoesOn(k)
  BY <1>4, <1>s DEF Forget
<1>5. ASSUME NEW n \in Nodes, NEW t \in Tasks, Submit(n, t) PROVE GoesOn(k)
  <2>1. PICK i \in Ids, c \in Call : calls[i] = None /\ calls' = [calls EXCEPT ![i] = c]
    BY <1>5, SubmitMoves
  <2> QED BY <1>s, <1>t, <2>1
<1>6. ASSUME NEW i \in Ids, Infer(i) PROVE GoesOn(k)
  <2>1. PICK c \in Call : Moves(i, c) /\ calls[i].pc = "infer"
    BY <1>6, InferMoves
  <2> QED BY <1>m, <1>n, <2>1 DEF GoesOn
<1>7. ASSUME NEW i \in Ids, Poll(i) PROVE GoesOn(k)
  <2>1. PICK c \in Call, e \in calls[i].left : \E can \in Answered(e, calls[i].need) :
          /\ Moves(i, c) /\ calls[i].pc = "poll" /\ c.need = calls[i].need
          /\ LET willing == IF can THEN calls[i].willing \cup {e} ELSE calls[i].willing IN
             \/ c.pc = "poll" /\ c.willing = willing
             \/ c.pc = "forward" /\ c.left = willing
             \/ c.pc = "failed"
    BY <1>7, PollMoves
  <2>2. CASE i = k
    <3>1. calls'[k] = c /\ c.at = calls[k].at /\ c.task = calls[k].task /\ c.from = calls[k].from
      BY <1>n, <2>1, <2>2
    <3> QED BY <2>1, <2>2, <3>1 DEF GoesOn
  <2> QED BY <1>m, <2>1, <2>2
<1>8. ASSUME NEW i \in Ids, Forward(i) PROVE GoesOn(k)
  <2>1. PICK j \in Ids, d, c \in Call :
          /\ calls[i] # None /\ calls[i].pc = "forward" /\ calls[j] = None /\ i # j
          /\ d.at = calls[i].at /\ d.task = calls[i].task /\ d.from = calls[i].from
          /\ d.pc = "wait" /\ d.left \subseteq calls[i].left /\ d.need = calls[i].need
          /\ calls' = [l \in Ids |-> IF l = j THEN c ELSE IF l = i THEN d ELSE calls[l]]
    BY <1>8, ForwardMoves
  <2>2. CASE i = k
    BY <2>1, <2>2 DEF GoesOn
  <2> QED BY <1>s, <2>1, <2>2
<1>9. ASSUME NEW i \in Ids, Unreachable(i) PROVE GoesOn(k)
  <2>1. PICK c \in Call :
          /\ Moves(i, c) /\ calls[i].pc = "forward" /\ c.need = calls[i].need
          /\ c.pc \in {"forward", "failed"} /\ c.left \subseteq calls[i].left
    BY <1>9, UnreachableMoves
  <2> QED BY <1>m, <1>n, <2>1 DEF GoesOn
<1>10. ASSUME NEW i \in Ids, NoAnswer(i) PROVE GoesOn(k)
  <2>1. PICK c \in Call :
          /\ calls[i] # None /\ calls[i].pc = "wait"
          /\ c.at = calls[i].at /\ c.task = calls[i].task /\ c.from = calls[i].from
          /\ c.need = calls[i].need /\ c.left = calls[i].left /\ c.pc \in {"failed", "forward"}
          /\ calls' = [j \in Ids |-> IF j = i THEN c ELSE Deserted(j, {i})]
    BY <1>10, NoAnswerMoves
  <2>2. CASE i = k
    BY <2>1, <2>2 DEF GoesOn
  <2> QED BY <1>d, <2>1, <2>2
<1>11. ASSUME NEW i \in Ids, AgentEnds(i) PROVE GoesOn(k)
  <2>1. PICK c \in Call :
          /\ Moves(i, c) /\ calls[i].pc = "exec" /\ c.pc \in {"ok", "failed"}
          /\ c.need = calls[i].need
    BY <1>11, AgentEndsMoves
  <2> QED BY <1>m, <1>n, <2>1 DEF GoesOn
<1>12. ASSUME NEW i \in Ids, AnswerClient(i) PROVE GoesOn(k)
  BY <1>12, <1>s, <1>t DEF AnswerClient
<1>13. ASSUME NEW i \in Ids, AnswerPeer(i) PROVE GoesOn(k)
  <2>1. PICK j \in Ids, c \in Call :
          /\ calls[j] # None /\ calls[j].pc = "wait" /\ i # j
          /\ c.at = calls[j].at /\ c.task = calls[j].task /\ c.from = calls[j].from
          /\ c.need = calls[j].need /\ c.left \subseteq calls[j].left
          /\ c.pc \in {"ok", "failed", "forward"}
          /\ calls' = [l \in Ids |-> IF l = j THEN c ELSE IF l = i THEN None ELSE calls[l]]
    BY <1>13, AnswerPeerMoves
  <2>2. CASE j = k
    BY <2>1, <2>2 DEF GoesOn
  <2> QED BY <1>s, <2>1, <2>2
<1>14. ASSUME NEW i \in Ids, Drop(i) PROVE GoesOn(k)
  <2>1. calls' = [j \in Ids |-> IF j = i THEN None ELSE Deserted(j, {i})]
    BY <1>14 DEF Drop
  <2> QED BY <1>d, <2>1
<1>15. ASSUME NEW i \in Ids, ClientLeaves(i) PROVE GoesOn(k)
  <2>1. calls' = [calls EXCEPT ![i].from = Gone]
    BY <1>15 DEF ClientLeaves
  <2>2. CASE i = k
    <3>1. calls'[k] = [calls[k] EXCEPT !.from = Gone]
      BY <1>t, <2>1, <2>2
    <3> QED BY <1>t, <3>1 DEF GoesOn, Call
  <2> QED BY <1>s, <1>t, <2>1, <2>2
<1>16. CASE UNCHANGED vars
  BY <1>16, <1>s DEF vars
<1> QED BY <1>1, <1>2, <1>3, <1>4, <1>5, <1>6, <1>7, <1>8, <1>9, <1>10, <1>11, <1>12, <1>13,
           <1>14, <1>15, <1>16 DEF Next, HandlerStep

\* Call k in the step that brings it: from a client, or from a call that waits for it.
Begins(k) ==
  /\ UNCHANGED <<live, views, starts>>
  /\ \A j \in Ids : calls[j] = None /\ calls'[j] # None => j = k
  /\ \E n \in Nodes, t \in Tasks, from \in Ids \cup {Client, Gone} :
       /\ live[n] # None /\ calls'[k] \in Received(n, t, from)
       /\ from \in Ids =>
            /\ from # k /\ calls[from] # None /\ calls[from].pc = "forward" /\ calls[from].task = t
            /\ calls'[from] # None /\ calls'[from].pc = "wait" /\ calls'[from].task = t
            /\ \E e \in calls[from].left : e.addr = n

LEMMA CallsBegin ==
  ASSUME TypeOK, Linked, [Next]_vars, NEW k \in Ids, calls[k] = None, calls'[k] # None
  PROVE  Begins(k)
<1>t. calls \in [Ids -> Call \cup {None}]
  BY DEF TypeOK
<1>d. ASSUME NEW ids, calls'[k] = Deserted(k, ids) PROVE FALSE
  BY <1>d DEF Deserted
<1>m. ASSUME NEW i \in Ids, NEW c, Moves(i, c) PROVE FALSE
  BY <1>m, <1>t DEF Moves
<1>1. ASSUME NEW n \in Nodes, NEW caps \in Offers, Start(n, caps) PROVE FALSE
  BY <1>1 DEF Start
<1>2. ASSUME NEW n \in Nodes, Stop(n) PROVE FALSE
  <2> DEFINE ended == {i \in Ids : calls[i] # None /\ calls[i].at = n}
  <2>1. calls' = [i \in Ids |-> IF i \in ended THEN None ELSE Deserted(i, ended)]
    BY <1>2 DEF Stop
  <2> HIDE DEF ended
  <2> QED BY <1>d, <2>1
<1>3. ASSUME NEW n \in Nodes, NEW m \in Nodes, Discover(n, m) PROVE FALSE
  BY <1>3 DEF Discover
<1>4. ASSUME NEW n \in Nodes, NEW e \in views[n], Forget(n, e) PROVE FALSE
  BY <1>4 DEF Forget
<1>5. ASSUME NEW n \in Nodes, NEW t \in Tasks, Submit(n, t) PROVE Begins(k)
  <2>1. PICK i \in Ids, c \in Call :
          /\ calls[i] = None /\ live[n] # None /\ c \in Received(n, t, Client)
          /\ calls' = [calls EXCEPT ![i] = c] /\ UNCHANGED <<live, views, starts>>
    BY <1>5, SubmitMoves
  <2>2. i = k /\ calls'[k] = c /\ \A j \in Ids : calls[j] = None /\ calls'[j] # None => j = k
    BY <1>t, <2>1
  <2>3. Client \in Ids \cup {Client, Gone} /\ Client \notin Ids
    BY Constants
  <2> QED BY <2>1, <2>2, <2>3 DEF Begins
<1>6. ASSUME NEW i \in Ids, Infer(i) PROVE FALSE
  BY <1>6, <1>m, InferMoves
<1>7. ASSUME NEW i \in Ids, Poll(i) PROVE FALSE
  BY <1>7, <1>m, PollMoves
<1>8. ASSUME NEW i \in Ids, Forward(i) PROVE Begins(k)
  <2>1. PICK j \in Ids, d, c \in Call : \E e \in calls[i].left :
          /\ calls[i] # None /\ calls[i].pc = "forward" /\ calls[j] = None /\ i # j
          /\ calls[i].task \in Tasks /\ e.addr \in Nodes
          /\ live[e.addr] # None /\ c \in Received(e.addr, calls[i].task, i)
          /\ d.task = calls[i].task /\ d.pc = "wait"
          /\ calls' = [l \in Ids |-> IF l = j THEN c ELSE IF l = i THEN d ELSE calls[l]]
          /\ UNCHANGED <<live, views, starts>>
    BY <1>8, ForwardMoves
  <2>2. j = k /\ calls'[k] = c /\ \A l \in Ids : calls[l] = None /\ calls'[l] # None => l = k
    BY <2>1
  <2>3. calls'[i] = d /\ d # None
    BY <2>1, Constants
  <2>4. i \in Ids \cup {Client, Gone}
    OBVIOUS
  <2> QED BY <2>1, <2>2, <2>3, <2>4 DEF Begins
<1>9. ASSUME NEW i \in Ids, Unreachable(i) PROVE FALSE
  BY <1>9, <1>m, UnreachableMoves
<1>10. ASSUME NEW i \in Ids, NoAnswer(i) PROVE FALSE
  <2>1. calls[i] # None
    BY <1>10 DEF NoAnswer, Is
  <2>2. calls'[k] = Deserted(k, {i})
    BY <1>10, <2>1 DEF NoAnswer
  <2> QED BY <1>d, <2>2
<1>11. ASSUME NEW i \in Ids, AgentEnds(i) PROVE FALSE
  BY <1>11, <1>m, AgentEndsMoves
<1>12. ASSUME NEW i \in Ids, AnswerClient(i) PROVE FALSE
  BY <1>12, <1>t DEF AnswerClient
<1>13. ASSUME NEW i \in Ids, AnswerPeer(i) PROVE FALSE
  <2>1. PICK j \in Ids, c \in Call :
          /\ calls[j] # None
          /\ calls' = [l \in Ids |-> IF l = j THEN c ELSE IF l = i THEN None ELSE calls[l]]
    BY <1>13, AnswerPeerMoves
  <2> QED BY <2>1
<1>14. ASSUME NEW i \in Ids, Drop(i) PROVE FALSE
  <2>1. calls' = [j \in Ids |-> IF j = i THEN None ELSE Deserted(j, {i})]
    BY <1>14 DEF Drop
  <2> QED BY <1>d, <2>1
<1>15. ASSUME NEW i \in Ids, ClientLeaves(i) PROVE FALSE
  BY <1>15, <1>t DEF ClientLeaves, CalledBy
<1>16. CASE UNCHANGED vars
  BY <1>16 DEF vars
<1> QED BY <1>1, <1>2, <1>3, <1>4, <1>5, <1>6, <1>7, <1>8, <1>9, <1>10, <1>11, <1>12, <1>13,
           <1>14, <1>15, <1>16 DEF Next, HandlerStep

\* While a callee goes on with its caller's connection, the caller waits.
LEMMA CallerWaits ==
  ASSUME TypeOK, Linked, OneCallee, [Next]_vars, NEW j \in Ids, NEW k \in Ids,
         CalledBy(j, k), calls'[j] # None, calls'[j].from = k
  PROVE  calls'[k] # None /\ calls'[k].pc = "wait"
<1>w. /\ calls[j] # None /\ calls[j].from = k
      /\ j # k /\ calls[k] # None /\ calls[k].pc = "wait" /\ calls[k].task = calls[j].task
  BY DEF Linked, CalledBy
<1>t. calls \in [Ids -> Call \cup {None}] /\ calls[j] \in Call /\ calls[k] \in Call /\ Gone \notin Ids
  BY <1>w, Constants DEF TypeOK
<1>s. ASSUME calls'[k] = calls[k] PROVE calls'[k] # None /\ calls'[k].pc = "wait"
  BY <1>s, <1>w
\* The calls that end leave the ones they made deserted.
<1>d. ASSUME NEW ids, calls' = [i \in Ids |-> IF i \in ids THEN None ELSE Deserted(i, ids)]
      PROVE  calls'[k] # None /\ calls'[k].pc = "wait"
  <2>1. calls'[j] = Deserted(j, ids) /\ calls'[j].from = IF k \in ids THEN Gone ELSE k
    BY <1>d, <1>t, <1>w, DesertedCall
  <2>2. calls'[k] = Deserted(k, ids)
    BY <1>d, <1>t, <2>1
  <2> QED BY <1>t, <1>w, <2>2, DesertedCall
<1>m. ASSUME NEW i \in Ids, NEW c, Moves(i, c), calls[i].pc # "wait"
      PROVE  calls'[k] # None /\ calls'[k].pc = "wait"
  BY <1>m, <1>s, <1>t, <1>w DEF Moves
<1> DEFINE Goal == calls'[k] # None /\ calls'[k].pc = "wait"
<1>1. ASSUME NEW n \in Nodes, NEW caps \in Offers, Start(n, caps) PROVE Goal
  BY <1>1, <1>s DEF Start
<1>2. ASSUME NEW n \in Nodes, Stop(n) PROVE Goal
  <2> DEFINE ended == {i \in Ids : calls[i] # None /\ calls[i].at = n}
  <2>1. calls' = [i \in Ids |-> IF i \in ended THEN None ELSE Deserted(i, ended)]
    BY <1>2 DEF Stop
  <2> HIDE DEF ended
  <2> QED BY <1>d, <2>1
<1>3. ASSUME NEW n \in Nodes, NEW m \in Nodes, Discover(n, m) PROVE Goal
  BY <1>3, <1>s DEF Discover
<1>4. ASSUME NEW n \in Nodes, NEW e \in views[n], Forget(n, e) PROVE Goal
  BY <1>4, <1>s DEF Forget
<1>5. ASSUME NEW n \in Nodes, NEW t \in Tasks, Submit(n, t) PROVE Goal
  <2>1. PICK i \in Ids, c \in Call : calls[i] = None /\ calls' = [calls EXCEPT ![i] = c]
    BY <1>5, SubmitMoves
  <2> QED BY <1>s, <1>t, <1>w, <2>1
<1>6. ASSUME NEW i \in Ids, Infer(i) PROVE Goal
  BY <1>6, <1>m, InferMoves
<1>7. ASSUME NEW i \in Ids, Poll(i) PROVE Goal
  BY <1>7, <1>m, PollMoves
<1>8. ASSUME NEW i \in Ids, Forward(i) PROVE Goal
  <2>1. PICK l \in Ids, d, c \in Call :
          /\ calls[i] # None /\ calls[i].pc = "forward" /\ calls[l] = None
          /\ calls' = [m \in Ids |-> IF m = l THEN c ELSE IF m = i THEN d ELSE calls[m]]
    BY <1>8, ForwardMoves
  <2> QED BY <1>s, <1>w, <2>1
<1>9. ASSUME NEW i \in Ids, Unreachable(i) PROVE Goal
  BY <1>9, <1>m, UnreachableMoves
<1>10. ASSUME NEW i \in Ids, NoAnswer(i) PROVE Goal
  <2>1. PICK c \in Call :
          /\ calls[i] # None /\ c.from = calls[i].from
          /\ calls' = [l \in Ids |-> IF l = i THEN c ELSE Deserted(l, {i})]
    BY <1>10, NoAnswerMoves
  <2>2. CASE i = k
    <3>1. calls'[j] = Deserted(j, {k})
      BY <1>w, <2>1, <2>2
    <3> QED BY <1>t, <1>w, <3>1, DesertedCall
  <2>3. CASE i # k
    BY <1>t, <1>w, <2>1, <2>3, DesertedCall
  <2> QED BY <2>2, <2>3
<1>11. ASSUME NEW i \in Ids, AgentEnds(i) PROVE Goal
  BY <1>11, <1>m, AgentEndsMoves
<1>12. ASSUME NEW i \in Ids, AnswerClient(i) PROVE Goal
  BY <1>12, <1>s, <1>t, <1>w DEF AnswerClient, Ended, Is
<1>13. ASSUME NEW i \in Ids, AnswerPeer(i) PROVE Goal
  <2>1. PICK l \in Ids, c \in Call :
          /\ calls[i] # None /\ calls[i].from = l /\ calls[i].pc \in {"ok", "failed"} /\ i # l
          /\ calls' = [m \in Ids |-> IF m = l THEN c ELSE IF m = i THEN None ELSE calls[m]]
    BY <1>13, AnswerPeerMoves
  <2>2. l # k
    <3>1. SUFFICES ASSUME l = k PROVE FALSE
      OBVIOUS
    <3>2. i = j
      BY <1>w, <2>1, <3>1 DEF OneCallee, CalledBy
    <3> QED BY <2>1, <3>1, <3>2
  <2>3. i # k
    BY <1>w, <2>1
  <2> QED BY <1>s, <2>1, <2>2, <2>3
<1>14. ASSUME NEW i \in Ids, Drop(i) PROVE Goal
  <2>1. calls' = [l \in Ids |-> IF l \in {i} THEN None ELSE Deserted(l, {i})]
    BY <1>14 DEF Drop
  <2> QED BY <1>d, <2>1
<1>15. ASSUME NEW i \in Ids, ClientLeaves(i) PROVE Goal
  <2>1. calls' = [calls EXCEPT ![i].from = Gone]
    BY <1>15 DEF ClientLeaves
  <2>2. CASE i = k
    <3>1. calls'[k] = [calls[k] EXCEPT !.from = Gone]
      BY <1>t, <2>1, <2>2
    <3> QED BY <1>t, <1>w, <3>1, Constants DEF Call
  <2> QED BY <1>s, <1>t, <2>1, <2>2
<1>16. CASE UNCHANGED vars
  BY <1>16, <1>s DEF vars
<1> QED BY <1>1, <1>2, <1>3, <1>4, <1>5, <1>6, <1>7, <1>8, <1>9, <1>10, <1>11, <1>12, <1>13,
           <1>14, <1>15, <1>16 DEF Next, HandlerStep

Placed == TypeOK /\ Linked /\ OneCallee

\* Who a call goes on with, and who a new one is from.
LEMMA CallersStep ==
  ASSUME Placed, [Next]_vars, NEW j \in Ids, NEW k \in Ids, calls'[j] # None, calls'[j].from = k
  PROVE  /\ j # k /\ calls'[k] # None /\ calls'[k].pc = "wait"
         /\ calls'[k].task = calls'[j].task /\ calls[k] # None
         /\ \/ CalledBy(j, k)
            \/ calls[j] = None /\ calls[k].pc = "forward"
<1>1. CASE calls[j] # None
  <2>1. GoesOn(j)
    BY <1>1, CallsGoOn DEF Placed
  <2>2. CalledBy(j, k)
    BY <1>1, <2>1, Constants DEF GoesOn, CalledBy
  <2>3. calls'[k] # None /\ calls'[k].pc = "wait"
    BY <2>2, CallerWaits DEF Placed
  <2>4. j # k /\ calls[k] # None /\ calls[k].task = calls[j].task
    BY <2>2 DEF Placed, Linked
  <2>5. calls'[k].task = calls[k].task /\ calls'[j].task = calls[j].task
    BY <2>1, <2>3, <2>4, CallsGoOn DEF Placed, GoesOn
  <2> QED BY <2>2, <2>3, <2>4, <2>5
<1>2. CASE calls[j] = None
  <2>1. Begins(j)
    BY <1>2, CallsBegin DEF Placed
  <2>2. PICK n \in Nodes, t \in Tasks, from \in Ids \cup {Client, Gone} :
          /\ live[n] # None /\ calls'[j] \in Received(n, t, from)
          /\ from \in Ids =>
               /\ from # j /\ calls[from] # None /\ calls[from].pc = "forward"
               /\ calls'[from] # None /\ calls'[from].pc = "wait" /\ calls'[from].task = t
    BY <2>1 DEF Begins
  <2>3. calls'[j].from = from
    BY <2>2, ReceivedCall DEF Placed
  <2>4. calls'[j].task = t
    BY <2>2, ReceivedCall DEF Placed
  <2> QED BY <1>2, <2>2, <2>3, <2>4
<1> QED BY <1>1, <1>2

LEMMA PlacedStep == Placed /\ [Next]_vars => Placed'
<1> SUFFICES ASSUME Placed, [Next]_vars PROVE Placed'
  OBVIOUS
<1>1. TypeOK'
  BY TypeStep DEF Placed
<1>2. Linked'
  BY CallersStep DEF Linked, CalledBy
<1>3. OneCallee'
  <2>s. \A l, m \in Ids : calls'[l] # None /\ calls'[l].from = m =>
          CalledBy(l, m) \/ (calls[l] = None /\ calls[m].pc = "forward")
    BY CallersStep
  <2> SUFFICES ASSUME NEW i \in Ids, NEW j \in Ids, NEW k \in Ids,
                      calls'[i] # None, calls'[i].from = k, calls'[j] # None, calls'[j].from = k
               PROVE  i = j
    BY DEF OneCallee, CalledBy
  <2>1. CalledBy(i, k) \/ (calls[i] = None /\ calls[k].pc = "forward")
    BY <2>s
  <2>2. CalledBy(j, k) \/ (calls[j] = None /\ calls[k].pc = "forward")
    BY <2>s
  <2>3. CASE CalledBy(i, k) /\ CalledBy(j, k)
    BY <2>3 DEF Placed, OneCallee
  <2>4. CASE calls[i] = None /\ calls[j] = None
    <3>1. Begins(i)
      BY <2>4, CallsBegin DEF Placed
    <3> QED BY <2>4, <3>1 DEF Begins
  <2> QED BY <2>1, <2>2, <2>3, <2>4 DEF Placed, Linked
<1> QED BY <1>1, <1>2, <1>3 DEF Placed

LEMMA PlacedInit == Init => Placed
<1>1. Init => TypeOK
  BY TypeInit
<1>2. Init => Linked /\ OneCallee
  BY DEF Init, Linked, OneCallee, CalledBy
<1> QED BY <1>1, <1>2 DEF Placed

\* The variables keep their types, a handler has a node it runs on, and one that polls or
\* forwards has a peer left, whatever stops, starts, answers or leaves.
THEOREM TypeCorrect == Spec => []TypeOK
<1>1. Init => Placed
  BY PlacedInit
<1>2. Placed /\ [Next]_vars => Placed'
  BY PlacedStep
<1>3. Placed => TypeOK
  BY DEF Placed
<1> QED BY <1>1, <1>2, <1>3, PTL DEF Spec

-----------------------------------------------------------------------------
(* No task is handed back.  An instance that took an address later has a higher
   number, and what a node knows of an address is out of date only when another
   instance, of a higher number than the node's own, runs there.               *)

Numbered == \A n \in Nodes : live[n] # None => live[n].no <= starts
ViewsFollow ==
  \A n \in Nodes : live[n] # None =>
    \A e \in views[n] : live[e.addr] # None =>
      live[e.addr] = e \/ live[e.addr].no > live[n].no

Named(i) == calls[i] # None /\ Needs[calls[i].task] # {}
Able(i, n) == CapabilitiesMatch(Needs[calls[i].task], live[n].caps)
\* Address n can do the task of call i, or a later instance than its handler's runs there.
AbleOrLater(i, n) ==
  live[n] # None => Able(i, n) \/ live[n].no > live[calls[i].at].no
Chosen(i) == IF calls[i].pc = "poll" THEN calls[i].willing
             ELSE IF calls[i].pc \in {"forward", "wait"} THEN calls[i].left ELSE {}

Routed ==
  \A i \in Ids : Named(i) =>
    /\ calls[i].need = Needs[calls[i].task] /\ calls[i].pc # "infer"
    /\ calls[i].pc \in {"poll", "forward", "wait"} => ~Able(i, calls[i].at)
    /\ \A e \in Chosen(i) : AbleOrLater(i, e.addr)
HandedOn == \A j, k \in Ids : CalledBy(j, k) /\ Named(j) => AbleOrLater(k, calls[j].at)

Directed == Placed /\ Numbered /\ ViewsFollow /\ Routed /\ HandedOn

\* What a step does to the nodes: nothing, or one starts, one stops with its handlers,
\* or one learns of running instances or forgets some.
LEMMA NodesStep ==
  ASSUME Placed, [Next]_vars
  PROVE  \/ UNCHANGED <<live, views, starts>>
         \/ \E n \in Nodes, caps \in Offers :
              /\ live[n] = None /\ starts' = starts + 1 /\ UNCHANGED calls
              /\ live' = [live EXCEPT ![n] = [addr |-> n, caps |-> caps, no |-> starts + 1]]
              /\ views' = [views EXCEPT ![n] = {}]
         \/ \E n \in Nodes :
              /\ live' = [live EXCEPT ![n] = None] /\ UNCHANGED <<views, starts>>
              /\ \A k \in Ids : calls[k] # None /\ calls[k].at = n => calls'[k] = None
         \/ /\ UNCHANGED <<live, starts, calls>>
            /\ \E n, m \in Nodes :
                 /\ live[m] # None
                 /\ \/ views' = [views EXCEPT ![n] = @ \cup {live[m]}]
                    \/ \E e \in views[n] : views' = [views EXCEPT ![n] = @ \ {e}]
<1>1. ASSUME NEW n \in Nodes, NEW caps \in Offers, Start(n, caps)
      PROVE  /\ live[n] = None /\ starts' = starts + 1 /\ UNCHANGED calls
             /\ live' = [live EXCEPT ![n] = [addr |-> n, caps |-> caps, no |-> starts + 1]]
             /\ views' = [views EXCEPT ![n] = {}]
  BY <1>1 DEF Start
<1>2. ASSUME NEW n \in Nodes, Stop(n)
      PROVE  /\ live' = [live EXCEPT ![n] = None] /\ UNCHANGED <<views, starts>>
             /\ \A k \in Ids : calls[k] # None /\ calls[k].at = n => calls'[k] = None
  BY <1>2 DEF Stop
<1>3. ASSUME NEW n \in Nodes, NEW m \in Nodes, Discover(n, m)
      PROVE  /\ UNCHANGED <<live, starts, calls>> /\ live[m] # None
             /\ views' = [views EXCEPT ![n] = @ \cup {live[m]}]
  BY <1>3 DEF Discover
<1>4. ASSUME NEW n \in Nodes, NEW e \in views[n], Forget(n, e)
      PROVE  /\ UNCHANGED <<live, starts, calls>> /\ live[n] # None
             /\ views' = [views EXCEPT ![n] = @ \ {e}]
  BY <1>4 DEF Forget
<1>5. ASSUME NEW n \in Nodes, NEW t \in Tasks, Submit(n, t) PROVE UNCHANGED <<live, views, starts>>
  BY <1>5 DEF Submit
<1>6. ASSUME NEW i \in Ids, HandlerStep(i) \/ ClientLeaves(i) PROVE UNCHANGED <<live, views, starts>>
  BY <1>6 DEF HandlerStep, Infer, Poll, Forward, Unreachable, NoAnswer, AgentEnds, AnswerClient,
              AnswerPeer, Drop, ClientLeaves
<1>7. CASE UNCHANGED vars
  BY <1>7 DEF vars
<1> QED BY <1>1, <1>2, <1>3, <1>4, <1>5, <1>6, <1>7 DEF Next

\* What runs at an address: what ran there, nothing, or an instance of the next number.
LEMMA LiveStep ==
  ASSUME Placed, [Next]_vars, NEW n \in Nodes, live'[n] # None
  PROVE  /\ starts \in Nat /\ starts' \in Nat /\ starts <= starts'
         /\ \/ live'[n] = live[n]
            \/ live'[n].no = starts + 1 /\ starts' = starts + 1
<1>1. starts \in Nat /\ live \in [Nodes -> Instances \cup {None}]
  BY Constants DEF Placed, TypeOK
<1>2. CASE UNCHANGED <<live, views, starts>>
  BY <1>1, <1>2
<1>3. ASSUME NEW m \in Nodes, NEW caps \in Offers, starts' = starts + 1,
             live' = [live EXCEPT ![m] = [addr |-> m, caps |-> caps, no |-> starts + 1]]
      PROVE  /\ starts' \in Nat /\ starts <= starts'
             /\ \/ live'[n] = live[n]
                \/ live'[n].no = starts + 1 /\ starts' = starts + 1
  BY <1>1, <1>3
<1>4. ASSUME NEW m \in Nodes, live' = [live EXCEPT ![m] = None], starts' = starts
      PROVE  live'[n] = live[n]
  BY <1>1, <1>4
<1> QED BY <1>1, <1>2, <1>3, <1>4, NodesStep

LEMMA NodeStays ==
  ASSUME Placed, [Next]_vars, NEW k \in Ids, calls[k] # None, calls'[k] # None
  PROVE  live'[calls[k].at] = live[calls[k].at]
<1>1. live \in [Nodes -> Instances \cup {None}] /\ calls[k].at \in Nodes /\ live[calls[k].at] # None
  BY CallTyped DEF Placed, TypeOK
<1>2. ASSUME NEW n \in Nodes, live' = [live EXCEPT ![n] = None], calls[k].at # n
      PROVE  live'[calls[k].at] = live[calls[k].at]
  BY <1>1, <1>2
<1>3. ASSUME NEW n \in Nodes, NEW caps \in Offers, live[n] = None,
             live' = [live EXCEPT ![n] = [addr |-> n, caps |-> caps, no |-> starts + 1]]
      PROVE  live'[calls[k].at] = live[calls[k].at]
  BY <1>1, <1>3
<1> QED BY <1>2, <1>3, NodesStep

\* An address that was able or later stays so for a call that goes on.
LEMMA AbleOrLaterStays ==
  ASSUME Directed, [Next]_vars, NEW k \in Ids, calls[k] # None, calls'[k] # None,
         NEW n \in Nodes, AbleOrLater(k, n)
  PROVE  AbleOrLater(k, n)'
<1> SUFFICES ASSUME live'[n] # None
             PROVE  Able(k, n)' \/ live'[n].no > live'[calls'[k].at].no
  BY DEF AbleOrLater
<1>1. calls'[k].at = calls[k].at /\ calls'[k].task = calls[k].task
  BY CallsGoOn DEF Directed, Placed, GoesOn
<1>2. live'[calls[k].at] = live[calls[k].at]
  BY NodeStays DEF Directed
<1>3. CASE live'[n] = live[n]
  BY <1>1, <1>2, <1>3 DEF AbleOrLater, Able
<1>4. CASE live'[n].no = starts + 1
  <2>1. calls[k].at \in Nodes /\ live[calls[k].at] # None /\ live[calls[k].at] \in Instances
    BY CallTyped DEF Directed, Placed
  <2>2. live[calls[k].at].no <= starts /\ live[calls[k].at].no \in Int /\ starts \in Int
    BY <2>1, Constants DEF Directed, Numbered, Placed, TypeOK, Instances
  <2> QED BY <1>1, <1>2, <1>4, <2>2
<1> QED BY <1>3, <1>4, LiveStep DEF Directed

LEMMA NumberedStep == Directed /\ [Next]_vars => Numbered'
<1> SUFFICES ASSUME Directed, [Next]_vars, NEW n \in Nodes, live'[n] # None
             PROVE  live'[n].no <= starts'
  BY DEF Numbered
<1>1. /\ starts \in Nat /\ starts' \in Nat /\ starts <= starts'
      /\ \/ live'[n] = live[n]
         \/ live'[n].no = starts + 1 /\ starts' = starts + 1
  BY LiveStep DEF Directed
<1>2. ASSUME live'[n] = live[n] PROVE live[n].no <= starts /\ live[n].no \in Int
  BY <1>2, Constants DEF Directed, Numbered, Placed, TypeOK, Instances
<1> QED BY <1>1, <1>2

LEMMA ViewsFollowStep == Directed /\ [Next]_vars => ViewsFollow'
<1> SUFFICES ASSUME Directed, [Next]_vars PROVE ViewsFollow'
  OBVIOUS
<1>t. /\ live \in [Nodes -> Instances \cup {None}] /\ views \in [Nodes -> SUBSET Instances]
      /\ \A n \in Nodes : live[n] # None => live[n].addr = n
  BY DEF Directed, Placed, TypeOK
<1>n. \A n \in Nodes : live[n] # None => live[n].no <= starts /\ live[n].no \in Int
  BY <1>t, Constants DEF Directed, Numbered, Instances
<1>v. \A n \in Nodes : \A e \in views[n] : e.addr \in Nodes
  BY <1>t DEF Instances
<1>f. ASSUME NEW n \in Nodes, live[n] # None, NEW e \in views[n], live[e.addr] # None
      PROVE  live[e.addr] = e \/ live[e.addr].no > live[n].no
  BY <1>f DEF Directed, ViewsFollow
<1>1. CASE UNCHANGED <<live, views, starts>>
  BY <1>1, <1>f DEF ViewsFollow
<1>2. ASSUME NEW n \in Nodes, NEW caps \in Offers, live[n] = None,
             live' = [live EXCEPT ![n] = [addr |-> n, caps |-> caps, no |-> starts + 1]],
             views' = [views EXCEPT ![n] = {}]
      PROVE  ViewsFollow'
  <2> SUFFICES ASSUME NEW m \in Nodes, live'[m] # None, NEW e \in views'[m], live'[e.addr] # None
               PROVE  live'[e.addr] = e \/ live'[e.addr].no > live'[m].no
    BY DEF ViewsFollow
  <2>1. m # n /\ e \in views[m] /\ live'[m] = live[m] /\ live[m] # None /\ e.addr \in Nodes
    BY <1>2, <1>t, <1>v
  <2>2. CASE e.addr = n
    <3>1. live'[n].no = starts + 1
      BY <1>2, <1>t
    <3>2. starts \in Nat
      BY Constants DEF Directed, Placed, TypeOK
    <3> QED BY <1>n, <2>1, <2>2, <3>1, <3>2
  <2>3. CASE e.addr # n
    BY <1>2, <1>f, <1>t, <2>1, <2>3
  <2> QED BY <2>2, <2>3
<1>3. ASSUME NEW n \in Nodes, live' = [live EXCEPT ![n] = None], views' = views
      PROVE  ViewsFollow'
  <2>1. \A m \in Nodes : live'[m] # None => live'[m] = live[m]
    BY <1>3, <1>t
  <2> QED BY <1>3, <1>f, <1>v, <2>1 DEF ViewsFollow
<1>4. ASSUME live' = live, NEW n \in Nodes, NEW m \in Nodes, live[m] # None,
             \/ views' = [views EXCEPT ![n] = views[n] \cup {live[m]}]
             \/ \E e \in views[n] : views' = [views EXCEPT ![n] = views[n] \ {e}]
      PROVE  ViewsFollow'
  <2> SUFFICES ASSUME NEW l \in Nodes, live[l] # None, NEW e \in views'[l], live[e.addr] # None
               PROVE  live[e.addr] = e \/ live[e.addr].no > live[l].no
    BY <1>4 DEF ViewsFollow
  <2>1. e \in views[l] \/ e = live[m]
    BY <1>4, <1>t
  <2>2. e = live[m] => live[e.addr] = e
    BY <1>4, <1>t
  <2> QED BY <1>f, <2>1, <2>2
<1> QED BY <1>1, <1>2, <1>3, <1>4, <1>t, NodesStep DEF Directed

LEMMA RoutedStep == Directed /\ [Next]_vars => Routed'
<1> SUFFICES ASSUME Directed, [Next]_vars, NEW i \in Ids, Named(i)'
             PROVE  /\ calls'[i].need = Needs[calls'[i].task] /\ calls'[i].pc # "infer"
                    /\ calls'[i].pc \in {"poll", "forward", "wait"} => ~Able(i, calls[i].at)'
                    /\ \A e \in Chosen(i)' : AbleOrLater(i, e.addr)'
  BY DEF Routed
<1>n. calls'[i] # None /\ Needs[calls'[i].task] # {}
  BY DEF Named
<1>1. CASE calls[i] # None
  <2>g. GoesOn(i)
    BY <1>1, <1>n, CallsGoOn DEF Directed, Placed
  <2>1. /\ Named(i) /\ calls'[i].at = calls[i].at /\ calls'[i].task = calls[i].task
        /\ live'[calls[i].at] = live[calls[i].at]
    BY <1>1, <1>n, <2>g, NodeStays DEF GoesOn, Named, Directed
  <2>2. /\ calls[i].need = Needs[calls[i].task] /\ calls[i].pc # "infer"
        /\ calls[i].pc \in {"poll", "forward", "wait"} => ~Able(i, calls[i].at)
        /\ \A e \in Chosen(i) : AbleOrLater(i, e.addr)
    BY <2>1 DEF Directed, Routed
  <2>c. calls[i] \in Call /\ calls[i].pc \in States /\ calls[i].left \subseteq Instances
        /\ calls[i].willing \subseteq Instances
    BY <1>1, CallTyped DEF Directed, Placed
  <2>3. calls'[i].need = Needs[calls'[i].task] /\ calls'[i].pc # "infer"
    BY <2>1, <2>2, <2>g DEF GoesOn
  <2>4. calls'[i].pc \in {"poll", "forward", "wait"} => calls[i].pc \in {"poll", "forward", "wait"}
    BY <2>2, <2>g DEF GoesOn
  <2>5. calls'[i].pc \in {"poll", "forward", "wait"} => ~Able(i, calls[i].at)'
    BY <2>1, <2>2, <2>4 DEF Able
  \* A peer that answers a poll with yes is able when it answers.
  <2>6. \A e \in Chosen(i)' : AbleOrLater(i, e.addr) /\ e.addr \in Nodes
    <3>1. ASSUME NEW e \in Chosen(i) PROVE AbleOrLater(i, e.addr) /\ e.addr \in Nodes
      BY <2>2, <2>c, <3>1 DEF Chosen, Instances
    <3>2. ASSUME calls'[i].pc = calls[i].pc, calls'[i].left = calls[i].left,
                 calls'[i].willing = calls[i].willing
          PROVE  Chosen(i)' = Chosen(i)
      BY <3>2 DEF Chosen
    <3>3. ASSUME calls[i].pc \in {"forward", "wait"}, calls'[i].left \subseteq calls[i].left,
                 calls'[i].pc \in {"forward", "wait", "ok", "failed"}
          PROVE  Chosen(i)' \subseteq Chosen(i)
      BY <3>3 DEF Chosen
    <3>4. ASSUME calls[i].pc = "exec", calls'[i].pc \in {"ok", "failed"}
          PROVE  Chosen(i)' = {}
      BY <3>4 DEF Chosen
    <3>5. ASSUME calls[i].pc = "poll", NEW e \in calls[i].left,
                 NEW can \in Answered(e, calls[i].need),
                 LET willing == IF can THEN calls[i].willing \cup {e} ELSE calls[i].willing IN
                 \/ calls'[i].pc = "poll" /\ calls'[i].willing = willing
                 \/ calls'[i].pc = "forward" /\ calls'[i].left = willing
                 \/ calls'[i].pc = "failed"
          PROVE  \A d \in Chosen(i)' : AbleOrLater(i, d.addr) /\ d.addr \in Nodes
      <4>1. Chosen(i)' \subseteq IF can THEN Chosen(i) \cup {e} ELSE Chosen(i)
        BY <3>5 DEF Chosen
      <4>2. e.addr \in Nodes
        BY <2>c DEF Instances
      <4>3. can => AbleOrLater(i, e.addr)
        <5>1. CASE live[e.addr] = None
          BY <5>1 DEF AbleOrLater
        <5>2. CASE live[e.addr] # None
          <6>1. can => CapabilitiesMatch(calls[i].need, live[e.addr].caps)
            BY <5>2 DEF Answered
          <6> QED BY <2>2, <6>1 DEF AbleOrLater, Able
        <5> QED BY <5>1, <5>2
      <4> QED BY <3>1, <4>1, <4>2, <4>3
    <3>6. \/ /\ calls'[i].pc = calls[i].pc /\ calls'[i].left = calls[i].left
             /\ calls'[i].willing = calls[i].willing
          \/ /\ calls[i].pc = "poll"
             /\ \E e \in calls[i].left : \E can \in Answered(e, calls[i].need) :
                  LET willing == IF can THEN calls[i].willing \cup {e} ELSE calls[i].willing IN
                  \/ calls'[i].pc = "poll" /\ calls'[i].willing = willing
                  \/ calls'[i].pc = "forward" /\ calls'[i].left = willing
                  \/ calls'[i].pc = "failed"
          \/ /\ calls[i].pc \in {"forward", "wait"} /\ calls'[i].left \subseteq calls[i].left
             /\ calls'[i].pc \in {"forward", "wait", "ok", "failed"}
          \/ calls[i].pc = "exec" /\ calls'[i].pc \in {"ok", "failed"}
      BY <2>2, <2>g DEF GoesOn
    <3> QED BY <3>1, <3>2, <3>3, <3>4, <3>5, <3>6
  <2>7. \A e \in Chosen(i)' : AbleOrLater(i, e.addr)'
    BY <1>1, <1>n, <2>6, AbleOrLaterStays
  <2> QED BY <2>1, <2>3, <2>5, <2>7
<1>2. CASE calls[i] = None
  <2>1. Begins(i)
    BY <1>2, <1>n, CallsBegin DEF Directed, Placed
  <2>2. PICK n \in Nodes, t \in Tasks, from \in Ids \cup {Client, Gone} :
          live[n] # None /\ calls'[i] \in Received(n, t, from)
    BY <2>1 DEF Begins
  <2>3. live' = live /\ views' = views
    BY <2>1 DEF Begins
  <2> DEFINE c == calls'[i]
  <2>4. c.at = n /\ c.task = t /\ c.need = Needs[t] /\ c.willing = {}
    <3>1. c.at = n /\ c.task = t
      BY <2>2, ReceivedCall DEF Directed, Placed
    <3>2. c.need = Needs[t] /\ c.willing = {}
      BY <2>2, ReceivedCall DEF Directed, Placed
    <3> QED BY <3>1, <3>2
  <2>5. c.pc \in {"infer", "exec", "forward", "poll", "failed"}
    BY <2>2, ReceivedCall DEF Directed, Placed
  <2>6. /\ c.pc # "infer" /\ (c.pc = "exec" <=> CapabilitiesMatch(Needs[t], live[n].caps))
        /\ c.left \subseteq views[n]
        /\ c.pc = "forward" => \A e \in c.left : CapabilitiesMatch(Needs[t], e.caps)
    <3>1. Needs[t] # {}
      BY <1>n, <2>4
    <3>2. c.pc # "infer"
      BY <2>2, <3>1, ReceivedCall DEF Directed, Placed
    <3>3. c.pc = "exec" <=> CapabilitiesMatch(Needs[t], live[n].caps)
      BY <2>2, <3>1, ReceivedCall DEF Directed, Placed
    <3>4. c.left \subseteq views[n]
      BY <2>2, <3>1, ReceivedCall DEF Directed, Placed
    <3>5. c.pc = "forward" => \A e \in c.left : CapabilitiesMatch(Needs[t], e.caps)
      BY <2>2, <3>1, ReceivedCall DEF Directed, Placed
    <3> QED BY <3>2, <3>3, <3>4, <3>5
  <2>7. c.need = Needs[c.task] /\ c.pc # "infer"
    BY <2>4, <2>6
  <2>8. c.pc \in {"poll", "forward", "wait"} => ~Able(i, calls[i].at)'
    BY <2>3, <2>4, <2>6 DEF Able
  \* An able peer in the node's view, or a later instance at its address.
  <2>9. \A e \in Chosen(i)' : AbleOrLater(i, e.addr)'
    <3> SUFFICES ASSUME c.pc = "forward", NEW e \in c.left, live[e.addr] # None
                 PROVE  CapabilitiesMatch(Needs[t], live[e.addr].caps) \/ live[e.addr].no > live[n].no
      BY <2>3, <2>4, <2>5 DEF Chosen, AbleOrLater, Able
    <3>1. live[e.addr] = e \/ live[e.addr].no > live[n].no
      BY <2>2, <2>6 DEF Directed, ViewsFollow
    <3> QED BY <2>6, <3>1
  <2> QED BY <2>7, <2>8, <2>9
<1> QED BY <1>1, <1>2

LEMMA HandedOnStep == Directed /\ [Next]_vars => HandedOn'
<1> SUFFICES ASSUME Directed, [Next]_vars, NEW j \in Ids, NEW k \in Ids,
                    CalledBy(j, k)', Named(j)'
             PROVE  AbleOrLater(k, calls[j].at)'
  BY DEF HandedOn
<1>n. calls'[j] # None /\ calls'[j].from = k /\ Needs[calls'[j].task] # {}
  BY DEF Named, CalledBy
<1>k. calls[k] # None /\ calls'[k] # None /\ calls'[k].task = calls'[j].task
  BY <1>n, CallersStep DEF Directed
<1>1. CASE calls[j] # None
  <2>1. GoesOn(j)
    BY <1>1, <1>n, CallsGoOn DEF Directed, Placed
  <2>2. CalledBy(j, k) /\ Named(j) /\ calls'[j].at = calls[j].at /\ calls[j].at \in Nodes
    <3>1. calls[j].from = k
      BY <1>n, <2>1, Constants DEF GoesOn
    <3>2. calls[j].at \in Nodes
      BY <1>1, CallTyped DEF Directed, Placed
    <3> QED BY <1>1, <1>n, <2>1, <3>1, <3>2 DEF GoesOn, Named, CalledBy
  <2>3. AbleOrLater(k, calls[j].at)
    BY <2>2 DEF Directed, HandedOn
  <2>4. PICK n \in Nodes : n = calls[j].at
    BY <2>2
  <2>5. AbleOrLater(k, n)'
    BY <1>k, <2>3, <2>4, AbleOrLaterStays
  <2> QED BY <2>2, <2>4, <2>5 DEF AbleOrLater, Able
<1>2. CASE calls[j] = None
  <2>1. Begins(j)
    BY <1>2, <1>n, CallsBegin DEF Directed, Placed
  <2>2. PICK n \in Nodes, t \in Tasks, from \in Ids \cup {Client, Gone} :
          /\ live[n] # None /\ calls'[j] \in Received(n, t, from)
          /\ from \in Ids =>
               /\ calls[from].pc = "forward" /\ calls[from].task = t
               /\ \E e \in calls[from].left : e.addr = n
    BY <2>1 DEF Begins
  <2>3. calls'[j].at = n /\ calls'[j].from = from
    <3>1. calls'[j].at = n
      BY <2>2, ReceivedCall DEF Directed, Placed
    <3>2. calls'[j].from = from
      BY <2>2, ReceivedCall DEF Directed, Placed
    <3> QED BY <3>1, <3>2
  <2>3a. calls'[j].task = t
    BY <2>2, ReceivedCall DEF Directed, Placed
  <2>4. calls[k].pc = "forward" /\ calls[k].task = t /\ \E e \in calls[k].left : e.addr = n
    BY <1>n, <2>2, <2>3
  <2>5. AbleOrLater(k, n)
    <3>1. Named(k)
      BY <1>k, <1>n, <2>3a, <2>4 DEF Named
    <3> QED BY <2>4, <3>1 DEF Directed, Routed, Chosen
  <2>6. AbleOrLater(k, n)'
    BY <1>k, <2>5, AbleOrLaterStays
  <2> QED BY <2>3, <2>6 DEF AbleOrLater, Able
<1> QED BY <1>1, <1>2

LEMMA DirectedInit == Init => Directed
<1> SUFFICES ASSUME Init PROVE Directed
  OBVIOUS
<1>1. Placed
  BY PlacedInit
<1>2. Numbered /\ ViewsFollow
  BY DEF Init, Numbered, ViewsFollow
<1>3. Routed /\ HandedOn
  BY DEF Init, Routed, HandedOn, Named
<1> QED BY <1>1, <1>2, <1>3 DEF Directed

LEMMA DirectedStep == Directed /\ [Next]_vars => Directed'
<1> SUFFICES ASSUME Directed, [Next]_vars PROVE Directed'
  OBVIOUS
<1>1. Placed'
  BY PlacedStep DEF Directed
<1> QED BY <1>1, NumberedStep, ViewsFollowStep, RoutedStep, HandedOnStep DEF Directed

\* Every call a call came through runs where the task cannot be done, in an instance
\* with a lower number than the call's own, unless the call's own can do the task.
LEMMA NotBack == Directed => NeverHandedBack
<1> SUFFICES ASSUME Directed, NEW i \in Ids, calls[i] # None, Needs[calls[i].task] # {},
                    NEW c \in CameThrough(i), calls[c].at = calls[i].at
             PROVE  FALSE
  BY DEF NeverHandedBack, Trail
<1> DEFINE Before(k) ==
             /\ calls[k] # None /\ calls[k].task = calls[i].task /\ ~Able(k, calls[k].at)
             /\ Able(i, calls[i].at) \/ live[calls[k].at].no < live[calls[i].at].no
           S == {k \in Ids : Before(k)}
<1>n. \A k \in Ids : calls[k] # None =>
        live[calls[k].at] # None /\ live[calls[k].at].no \in Int
  <2> SUFFICES ASSUME NEW k \in Ids, calls[k] # None
               PROVE  live[calls[k].at] # None /\ live[calls[k].at].no \in Int
    OBVIOUS
  <2>1. live[calls[k].at] # None /\ live[calls[k].at] \in Instances
    BY CallTyped DEF Directed, Placed
  <2> QED BY <2>1, Constants DEF Instances
<1>1. ASSUME NEW j \in S \cup {i}, NEW k \in Ids, CalledBy(j, k)
      PROVE  k \in S
  <2>1. j \in Ids /\ calls[j] # None /\ calls[j].task = calls[i].task /\ Named(j)
    BY DEF Named
  <2>2. calls[k] # None /\ calls[k].pc = "wait" /\ calls[k].task = calls[j].task
    BY <1>1, <2>1 DEF Directed, Placed, Linked
  <2>3. ~Able(k, calls[k].at)
    BY <2>1, <2>2 DEF Directed, Routed, Named
  <2>4. Able(k, calls[j].at) \/ live[calls[j].at].no > live[calls[k].at].no
    BY <1>1, <1>n, <2>1 DEF Directed, HandedOn, AbleOrLater
  <2>5. Able(k, calls[j].at) = Able(j, calls[j].at)
    BY <2>2 DEF Able
  <2>6. Able(i, calls[i].at) \/ live[calls[k].at].no < live[calls[i].at].no
    <3>1. CASE j = i
      BY <2>1, <2>2, <2>4, <2>5, <3>1, <1>n
    <3>2. CASE Before(j)
      BY <2>1, <2>2, <2>4, <2>5, <3>2, <1>n
    <3> QED BY <3>1, <3>2
  <2> QED BY <2>1, <2>2, <2>3, <2>6
<1>2. c \in S
  BY <1>1 DEF CameThrough
<1>3. Able(c, calls[c].at) = Able(i, calls[i].at)
  BY <1>2 DEF Able
<1> QED BY <1>2, <1>3, <1>n

\* A task whose capabilities are given is never handed back to a node that waits for it,
\* for any network of nodes, however stale their views, whatever instances start and stop.
THEOREM TasksAreNeverHandedBack == Spec => []NeverHandedBack
<1>1. Init => Directed
  BY DirectedInit
<1>2. Directed /\ [Next]_vars => Directed'
  BY DirectedStep
<1>3. Directed => NeverHandedBack
  BY NotBack
<1> QED BY <1>1, <1>2, <1>3, PTL DEF Spec

-----------------------------------------------------------------------------
(* No needless run.  Each call that may still lead to a run of its task has been
   paid for, by the client or by a failure.                                     *)

MayRun(t) ==
  {i \in Ids : calls[i] # None /\ calls[i].task = t
               /\ calls[i].pc \in {"infer", "poll", "forward", "failed"}}
RunsPaid ==
  \A t \in Tasks :
    executed[t] + Cardinality(MayRun(t)) <= failures[t] + (IF t \in given THEN 1 ELSE 0)

Paid == Placed /\ RunsPaid

LEMMA OneMore ==
  ASSUME NEW S, IsFiniteSet(S), NEW y
  PROVE  IsFiniteSet(S \cup {y}) /\ Cardinality(S \cup {y}) <= Cardinality(S) + 1
<1>1. Cardinality(S) \in Nat
  BY FS_CardinalityType
<1> QED BY <1>1, FS_AddElement

\* How many of S are left when some go and perhaps one comes.
LEMMA Fewer ==
  ASSUME NEW S \in SUBSET Ids, NEW T \in SUBSET Ids
  PROVE  /\ Cardinality(S) \in Nat /\ Cardinality(T) \in Nat
         /\ T \subseteq S => Cardinality(T) <= Cardinality(S)
         /\ \A y \in Ids : T \subseteq S \cup {y} => Cardinality(T) <= Cardinality(S) + 1
         /\ \A x \in S : T \subseteq S \ {x} => Cardinality(T) + 1 <= Cardinality(S)
         /\ \A x \in S, y \in Ids : T \subseteq (S \ {x}) \cup {y} => Cardinality(T) <= Cardinality(S)
<1>1. IsFiniteSet(S) /\ IsFiniteSet(T)
  <2>1. IsFiniteSet(Ids)
    BY Constants, FS_Interval DEF Ids
  <2> QED BY <2>1, FS_Subset
<1>2. Cardinality(S) \in Nat /\ Cardinality(T) \in Nat
  BY <1>1, FS_CardinalityType
<1>3. T \subseteq S => Cardinality(T) <= Cardinality(S)
  BY <1>1, FS_Subset
<1>4. ASSUME NEW y \in Ids, T \subseteq S \cup {y} PROVE Cardinality(T) <= Cardinality(S) + 1
  <2>1. IsFiniteSet(S \cup {y}) /\ Cardinality(S \cup {y}) <= Cardinality(S) + 1
    BY <1>1, OneMore
  <2>2. Cardinality(T) <= Cardinality(S \cup {y}) /\ Cardinality(S \cup {y}) \in Nat
    BY <1>4, <2>1, FS_Subset, FS_CardinalityType
  <2> QED BY <1>2, <2>1, <2>2
<1>5. ASSUME NEW x \in S PROVE IsFiniteSet(S \ {x}) /\ Cardinality(S \ {x}) = Cardinality(S) - 1
  BY <1>1, FS_RemoveElement
<1>6. ASSUME NEW x \in S, T \subseteq S \ {x} PROVE Cardinality(T) + 1 <= Cardinality(S)
  <2>1. Cardinality(T) <= Cardinality(S \ {x})
    BY <1>5, <1>6, FS_Subset
  <2> QED BY <1>2, <1>5, <2>1
<1>7. ASSUME NEW x \in S, NEW y \in Ids, T \subseteq (S \ {x}) \cup {y}
      PROVE  Cardinality(T) <= Cardinality(S)
  <2>1. IsFiniteSet((S \ {x}) \cup {y})
        /\ Cardinality((S \ {x}) \cup {y}) <= Cardinality(S \ {x}) + 1
    <3>1. IsFiniteSet(S \ {x}) /\ Cardinality(S \ {x}) \in Nat
      BY <1>5, FS_CardinalityType
    <3> QED BY <3>1, OneMore
  <2>2. Cardinality(T) <= Cardinality((S \ {x}) \cup {y})
        /\ Cardinality((S \ {x}) \cup {y}) \in Nat
    BY <1>7, <2>1, FS_Subset, FS_CardinalityType
  <2> QED BY <1>2, <1>5, <2>1, <2>2
<1> QED BY <1>2, <1>3, <1>4, <1>6, <1>7

\* One step per action: what becomes of the calls that may run the task.
LEMMA RunsPaidStep == Paid /\ [Next]_vars => RunsPaid'
<1> SUFFICES ASSUME Paid, [Next]_vars, NEW t \in Tasks
             PROVE  executed'[t] + Cardinality(MayRun(t)')
                      <= failures'[t] + (IF t \in given' THEN 1 ELSE 0)
  BY DEF RunsPaid
<1> DEFINE M == MayRun(t)
           N == MayRun(t)'
           Goal == executed'[t] + Cardinality(N) <= failures'[t] + (IF t \in given' THEN 1 ELSE 0)
<1>p. executed[t] + Cardinality(M) <= failures[t] + (IF t \in given THEN 1 ELSE 0)
  BY DEF Paid, RunsPaid
<1>t. /\ calls \in [Ids -> Call \cup {None}] /\ None \notin Call
      /\ executed \in [Tasks -> Nat] /\ failures \in [Tasks -> Nat]
  BY Constants DEF Paid, Placed, TypeOK
<1>a. TypeOK /\ Linked
  BY DEF Paid, Placed
<1>s. M \in SUBSET Ids /\ N \in SUBSET Ids
  BY DEF MayRun
<1>f. /\ Cardinality(M) \in Nat /\ Cardinality(N) \in Nat
      /\ N \subseteq M => Cardinality(N) <= Cardinality(M)
      /\ \A y \in Ids : N \subseteq M \cup {y} => Cardinality(N) <= Cardinality(M) + 1
      /\ \A x \in M : N \subseteq M \ {x} => Cardinality(N) + 1 <= Cardinality(M)
      /\ \A x \in M, y \in Ids : N \subseteq (M \ {x}) \cup {y} => Cardinality(N) <= Cardinality(M)
  BY <1>s, Fewer
<1>m. M = {i \in Ids : calls[i] # None /\ calls[i].task = t
                       /\ calls[i].pc \in {"infer", "poll", "forward", "failed"}}
  BY DEF MayRun
<1>n. N = {i \in Ids : calls'[i] # None /\ calls'[i].task = t
                       /\ calls'[i].pc \in {"infer", "poll", "forward", "failed"}}
  BY DEF MayRun
<1> HIDE DEF M, N
\* Steps after which no more calls may run, and nothing is paid or owed.
<1>u. ASSUME N \subseteq M, executed' = executed, failures' = failures, given' = given PROVE Goal
  BY <1>f, <1>p, <1>t, <1>u
\* Calls that end, and calls deserted by them.
<1>d. ASSUME NEW ids, calls' = [i \in Ids |-> IF i \in ids THEN None ELSE Deserted(i, ids)]
      PROVE  N \subseteq M
  <2> SUFFICES ASSUME NEW i \in Ids, calls'[i] # None, calls'[i].task = t,
                      calls'[i].pc \in {"infer", "poll", "forward", "failed"}
               PROVE  i \in M
    BY <1>n
  <2>1. calls'[i] = Deserted(i, ids)
    BY <1>d
  <2>2. calls[i] # None /\ calls'[i].task = calls[i].task /\ calls'[i].pc = calls[i].pc
    BY <1>t, <2>1, DesertedCall
  <2> QED BY <1>m, <2>2
\* A handler that goes on in a state in which it may run as before.
<1>g. ASSUME NEW i \in Ids, NEW c, Moves(i, c), calls[i].pc \in {"infer", "poll", "forward"}
      PROVE  N \subseteq M
  <2>1. \A k \in Ids : calls'[k] = IF k = i THEN c ELSE calls[k]
    BY <1>g, <1>t DEF Moves
  <2> QED BY <1>g, <1>m, <1>n, <2>1 DEF Moves
<1>r. ASSUME NEW u \in Tasks, NEW pc
      PROVE  Runs(u, pc)[t] = IF u = t /\ pc = "exec" THEN executed[t] + 1 ELSE executed[t]
  BY <1>t DEF Runs
<1>1. ASSUME NEW n \in Nodes, NEW caps \in Offers, Start(n, caps) PROVE Goal
  <2>1. N \subseteq M
    BY <1>1, <1>m, <1>n DEF Start
  <2> QED BY <1>1, <1>u, <2>1 DEF Start
<1>2. ASSUME NEW n \in Nodes, Stop(n) PROVE Goal
  <2> DEFINE ended == {i \in Ids : calls[i] # None /\ calls[i].at = n}
  <2>1. calls' = [i \in Ids |-> IF i \in ended THEN None ELSE Deserted(i, ended)]
    BY <1>2 DEF Stop
  <2> HIDE DEF ended
  <2>2. N \subseteq M
    BY <1>d, <2>1
  <2> QED BY <1>2, <1>u, <2>2 DEF Stop
<1>3. ASSUME NEW n \in Nodes, NEW m \in Nodes, Discover(n, m) PROVE Goal
  <2>1. N \subseteq M
    BY <1>3, <1>m, <1>n DEF Discover
  <2> QED BY <1>3, <1>u, <2>1 DEF Discover
<1>4. ASSUME NEW n \in Nodes, NEW e \in views[n], Forget(n, e) PROVE Goal
  <2>1. N \subseteq M
    BY <1>4, <1>m, <1>n DEF Forget
  <2> QED BY <1>4, <1>u, <2>1 DEF Forget
<1>5. ASSUME NEW n \in Nodes, NEW u \in Tasks, Submit(n, u) PROVE Goal
  <2>1. PICK i \in Ids, c \in Call :
          /\ calls[i] = None /\ live[n] # None /\ c \in Received(n, u, Client)
          /\ calls' = [calls EXCEPT ![i] = c]
          /\ executed' = Runs(u, c.pc) /\ failures' = failures
          /\ u \notin given /\ given' = given \cup {u}
    BY <1>5, <1>a, SubmitMoves
  <2>2. c.task = u
    BY <2>1, <1>a, ReceivedCall
  <2>3. \A k \in Ids : calls'[k] = IF k = i THEN c ELSE calls[k]
    BY <1>t, <2>1
  <2>4. executed'[t] = IF u = t /\ c.pc = "exec" THEN executed[t] + 1 ELSE executed[t]
    BY <1>r, <2>1
  <2>5. CASE u # t
    <3>1. N \subseteq M
      BY <1>m, <1>n, <2>2, <2>3, <2>5
    <3> QED BY <1>f, <1>p, <1>t, <2>1, <2>4, <2>5, <3>1
  <2>6. CASE u = t /\ c.pc = "exec"
    <3>1. N \subseteq M
      BY <1>m, <1>n, <2>2, <2>3, <2>6
    <3> QED BY <1>f, <1>p, <1>t, <2>1, <2>4, <2>6, <3>1
  <2>7. CASE u = t /\ c.pc # "exec"
    <3>1. N \subseteq M \cup {i}
      BY <1>m, <1>n, <2>2, <2>3, <2>7
    <3> QED BY <1>f, <1>p, <1>t, <2>1, <2>4, <2>7, <3>1
  <2> QED BY <2>5, <2>6, <2>7
<1>6. ASSUME NEW i \in Ids, Infer(i) PROVE Goal
  <2>1. PICK c \in Call :
          /\ Moves(i, c) /\ calls[i].pc = "infer" /\ c.pc \in {"exec", "forward", "poll", "failed"}
          /\ executed' = Runs(calls[i].task, c.pc) /\ failures' = failures
    BY <1>6, <1>a, InferMoves
  <2>2. calls[i] # None /\ given' = given /\ \A k \in Ids : calls'[k] = IF k = i THEN c ELSE calls[k]
    BY <1>t, <2>1 DEF Moves
  <2>3. calls[i].task \in Tasks
    BY <1>a, <2>2, CallTyped
  <2>4. executed'[t] = IF calls[i].task = t /\ c.pc = "exec" THEN executed[t] + 1 ELSE executed[t]
    BY <1>r, <2>1, <2>3
  <2>5. CASE calls[i].task = t /\ c.pc = "exec"
    <3>1. i \in M /\ N \subseteq M \ {i}
      BY <1>m, <1>n, <2>1, <2>2, <2>5 DEF Moves
    <3> QED BY <1>f, <1>p, <1>t, <2>1, <2>2, <2>4, <2>5, <3>1
  <2>6. CASE ~(calls[i].task = t /\ c.pc = "exec")
    <3>1. N \subseteq M
      BY <1>g, <2>1
    <3> QED BY <1>f, <1>p, <1>t, <2>1, <2>2, <2>4, <2>6, <3>1
  <2> QED BY <2>5, <2>6
<1>7. ASSUME NEW i \in Ids, Poll(i) PROVE Goal
  <2>1. PICK c \in Call :
          Moves(i, c) /\ calls[i].pc = "poll" /\ executed' = executed /\ failures' = failures
    BY <1>7, <1>a, PollMoves
  <2> QED BY <1>g, <1>u, <2>1 DEF Moves
<1>8. ASSUME NEW i \in Ids, Forward(i) PROVE Goal
  <2>1. PICK j \in Ids, d, c \in Call : \E e \in calls[i].left :
          /\ calls[i] # None /\ calls[i].pc = "forward" /\ calls[j] = None /\ i # j
          /\ calls[i].task \in Tasks /\ e.addr \in Nodes
          /\ live[e.addr] # None /\ c \in Received(e.addr, calls[i].task, i)
          /\ d.task = calls[i].task /\ d.pc = "wait"
          /\ calls' = [k \in Ids |-> IF k = j THEN c ELSE IF k = i THEN d ELSE calls[k]]
          /\ executed' = Runs(c.task, c.pc) /\ failures' = failures
          /\ UNCHANGED <<live, views, starts, given>>
    BY <1>8, <1>a, ForwardMoves
  <2>2. i \in Ids \cup {Client, Gone}
    OBVIOUS
  <2>3. c.task = calls[i].task
    BY <2>1, <2>2, <1>a, ReceivedCall
  <2>4. executed'[t] = IF calls[i].task = t /\ c.pc = "exec" THEN executed[t] + 1 ELSE executed[t]
    BY <1>r, <2>1, <2>3
  <2>5. CASE calls[i].task # t
    <3>1. N \subseteq M
      BY <1>m, <1>n, <2>1, <2>3, <2>5
    <3> QED BY <1>f, <1>p, <1>t, <2>1, <2>4, <2>5, <3>1
  <2>6. CASE calls[i].task = t /\ c.pc = "exec"
    <3>1. i \in M /\ N \subseteq M \ {i}
      BY <1>m, <1>n, <2>1, <2>3, <2>6
    <3> QED BY <1>f, <1>p, <1>t, <2>1, <2>4, <2>6, <3>1
  <2>7. CASE calls[i].task = t /\ c.pc # "exec"
    <3>1. i \in M /\ N \subseteq (M \ {i}) \cup {j}
      BY <1>m, <1>n, <2>1, <2>3, <2>7
    <3> QED BY <1>f, <1>p, <1>t, <2>1, <2>4, <2>7, <3>1
  <2> QED BY <2>5, <2>6, <2>7
<1>9. ASSUME NEW i \in Ids, Unreachable(i) PROVE Goal
  <2>1. PICK c \in Call :
          Moves(i, c) /\ calls[i].pc = "forward" /\ executed' = executed /\ failures' = failures
    BY <1>9, <1>a, UnreachableMoves
  <2> QED BY <1>g, <1>u, <2>1 DEF Moves
<1>10. ASSUME NEW i \in Ids, NoAnswer(i) PROVE Goal
  <2>1. PICK c \in Call :
          /\ calls[i] # None /\ calls[i].task \in Tasks /\ c.task = calls[i].task
          /\ calls' = [j \in Ids |-> IF j = i THEN c ELSE Deserted(j, {i})]
          /\ failures' = [failures EXCEPT ![calls[i].task] = @ + 1]
          /\ UNCHANGED <<live, views, starts, given, executed>>
    BY <1>10, <1>a, NoAnswerMoves
  <2>2. ASSUME NEW k \in N, k # i PROVE k \in M
    <3>1. k \in Ids /\ calls'[k] = Deserted(k, {i})
      BY <1>n, <2>1, <2>2
    <3>2. calls'[k] # None /\ calls[k] # None
      BY <1>n, <3>1 DEF Deserted
    <3>3. calls'[k].task = calls[k].task /\ calls'[k].pc = calls[k].pc
      BY <1>t, <3>1, <3>2, DesertedCall
    <3> QED BY <1>m, <1>n, <3>1, <3>2, <3>3
  <2>3. CASE calls[i].task = t
    <3>1. N \subseteq M \cup {i}
      BY <2>2
    <3>2. failures'[t] = failures[t] + 1
      BY <1>t, <2>1, <2>3
    <3> QED BY <1>f, <1>p, <1>t, <2>1, <3>1, <3>2
  <2>4. CASE calls[i].task # t
    <3>1. i \notin N
      BY <1>n, <2>1, <2>4
    <3>2. N \subseteq M
      BY <2>2, <3>1
    <3>3. failures'[t] = failures[t]
      BY <1>t, <2>1, <2>4
    <3> QED BY <1>f, <1>p, <1>t, <2>1, <3>2, <3>3
  <2> QED BY <2>3, <2>4
<1>11. ASSUME NEW i \in Ids, AgentEnds(i) PROVE Goal
  <2>1. PICK c \in Call :
          /\ Moves(i, c) /\ calls[i].pc = "exec" /\ c.pc \in {"ok", "failed"}
          /\ executed' = executed
          /\ failures' = IF c.pc = "ok" THEN failures
                         ELSE [failures EXCEPT ![calls[i].task] = @ + 1]
    BY <1>11, <1>a, AgentEndsMoves
  <2>2. /\ calls[i] # None /\ given' = given /\ c.task = calls[i].task
        /\ \A k \in Ids : calls'[k] = IF k = i THEN c ELSE calls[k]
    BY <1>t, <2>1 DEF Moves
  <2>3. calls[i].task \in Tasks
    BY <1>a, <2>2, CallTyped
  <2>4. CASE calls[i].task = t /\ c.pc = "failed"
    <3>1. N \subseteq M \cup {i}
      BY <1>m, <1>n, <2>2
    <3>2. failures'[t] = failures[t] + 1
      BY <1>t, <2>1, <2>3, <2>4
    <3> QED BY <1>f, <1>p, <1>t, <2>1, <2>2, <3>1, <3>2
  <2>5. CASE ~(calls[i].task = t /\ c.pc = "failed")
    <3>1. N \subseteq M
      BY <1>m, <1>n, <2>1, <2>2, <2>5
    <3>2. failures'[t] = failures[t]
      BY <1>t, <2>1, <2>3, <2>5
    <3> QED BY <1>f, <1>p, <1>t, <2>1, <2>2, <3>1, <3>2
  <2> QED BY <2>4, <2>5
<1>12. ASSUME NEW i \in Ids, AnswerClient(i) PROVE Goal
  <2>1. N \subseteq M
    BY <1>12, <1>m, <1>n, <1>t DEF AnswerClient
  <2> QED BY <1>12, <1>u, <2>1 DEF AnswerClient
<1>13. ASSUME NEW i \in Ids, AnswerPeer(i) PROVE Goal
  <2>1. PICK j \in Ids, c \in Call :
          /\ calls[i] # None /\ calls[i].pc \in {"ok", "failed"}
          /\ calls[j] # None /\ i # j /\ calls[j].task = calls[i].task /\ c.task = calls[j].task
          /\ c.pc \in {"ok", "failed", "forward"} /\ (calls[i].pc = "ok" => c.pc = "ok")
          /\ calls' = [k \in Ids |-> IF k = j THEN c ELSE IF k = i THEN None ELSE calls[k]]
          /\ UNCHANGED <<live, views, starts, given, executed, failures>>
    BY <1>13, <1>a, AnswerPeerMoves
  <2>2. CASE calls[i].pc = "ok" \/ calls[i].task # t
    <3>1. N \subseteq M
      BY <1>m, <1>n, <2>1, <2>2
    <3> QED BY <1>u, <2>1, <3>1
  <2>3. CASE calls[i].pc = "failed" /\ calls[i].task = t
    <3>1. i \in M /\ N \subseteq (M \ {i}) \cup {j}
      BY <1>m, <1>n, <2>1, <2>3
    <3> QED BY <1>f, <1>p, <1>t, <2>1, <3>1
  <2> QED BY <2>1, <2>2, <2>3
<1>14. ASSUME NEW i \in Ids, Drop(i) PROVE Goal
  <2>1. calls' = [j \in Ids |-> IF j \in {i} THEN None ELSE Deserted(j, {i})]
    BY <1>14 DEF Drop
  <2>2. N \subseteq M
    BY <1>d, <2>1
  <2> QED BY <1>14, <1>u, <2>2 DEF Drop
<1>15. ASSUME NEW i \in Ids, ClientLeaves(i) PROVE Goal
  <2>1. calls[i] # None /\ calls' = [calls EXCEPT ![i].from = Gone]
    BY <1>15 DEF ClientLeaves, CalledBy
  <2>2. \A k \in Ids : k # i => calls'[k] = calls[k]
    BY <1>t, <2>1
  <2>3. calls'[i].task = calls[i].task /\ calls'[i].pc = calls[i].pc
    <3>1. calls[i] \in Call /\ calls'[i] = [calls[i] EXCEPT !.from = Gone]
      BY <1>t, <2>1
    <3> QED BY <3>1 DEF Call
  <2>4. N \subseteq M
    BY <1>m, <1>n, <2>1, <2>2, <2>3
  <2> QED BY <1>15, <1>u, <2>4 DEF ClientLeaves
<1>16. CASE UNCHANGED vars
  <2>1. N \subseteq M
    BY <1>16, <1>m, <1>n DEF vars
  <2>2. executed' = executed /\ failures' = failures /\ given' = given
    BY <1>16 DEF vars
  <2> QED BY <1>u, <2>1, <2>2 DEF N
<1> QED BY <1>1, <1>2, <1>3, <1>4, <1>5, <1>6, <1>7, <1>8, <1>9, <1>10, <1>11, <1>12, <1>13,
           <1>14, <1>15, <1>16 DEF Next, HandlerStep, N

\* The agent runs once for a task, and once more for each run that failed or answer that
\* never came, for any number of peers, however calls are left, lost and tried again.
THEOREM NoRunIsNeedless == Spec => []NoNeedlessRun
<1>1. Init => Paid
  <2> SUFFICES ASSUME Init PROVE Paid
    OBVIOUS
  <2>1. \A t \in Tasks : MayRun(t) = {} /\ executed[t] = 0 /\ failures[t] = 0
    BY DEF Init, MayRun
  <2>2. RunsPaid
    BY <2>1, FS_EmptySet DEF RunsPaid, Init
  <2> QED BY <2>2, PlacedInit DEF Paid
<1>2. Paid /\ [Next]_vars => Paid'
  BY PlacedStep, RunsPaidStep DEF Paid
<1>3. Paid => NoNeedlessRun
  <2> SUFFICES ASSUME Paid, NEW t \in Tasks PROVE executed[t] <= 1 + failures[t]
    BY DEF NoNeedlessRun
  <2>1. executed[t] + Cardinality(MayRun(t)) <= failures[t] + (IF t \in given THEN 1 ELSE 0)
    BY DEF Paid, RunsPaid
  <2>2. executed[t] \in Nat /\ failures[t] \in Nat
    BY DEF Paid, Placed, TypeOK
  <2>3. MayRun(t) \in SUBSET Ids
    BY DEF MayRun
  <2>4. Cardinality(MayRun(t)) \in Nat
    BY <2>3, Fewer
  <2> QED BY <2>1, <2>2, <2>4
<1> QED BY <1>1, <1>2, <1>3, PTL DEF Spec

=============================================================================
