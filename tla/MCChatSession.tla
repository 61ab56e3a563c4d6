--------------------------- MODULE MCChatSession ---------------------------
(* Instance of ChatSession for TLC, in three scenes.  Alone: a process on its
   session, stopped at any step, over two days.  Shared: two processes
   on one session, on one day, beside the desktop, which deletes nothing and leaves
   one of the unused sessions alone.
   Deleting: the desktop deletes sessions, and starts a process for each message,
   as it does for its own chats, on two sessions of which one name goes on from
   that of a third with a dash, the other without.  In the last two every agent
   loop answers. *)
EXTENDS ChatSession, TLC

CONSTANTS p1, p2, p3, work, worktree, work2, MaxSharedOps

Sessions == p1 :> worktree @@ p2 :> worktree @@ p3 :> work2
Dashed == {<<k, k>> : k \in Keys} \cup {<<work, work2>>}
Prefixed == Dashed \cup {<<work, worktree>>}

KeyNames == <<Default, work, worktree, work2>>
ByName == [f \in Files |-> f[2] + MaxDay * (CHOOSE i \in 1..4 : KeyNames[i] = f[1])]

\* "2-" and a date precedes every date of this century.
AfterDash == [k \in Keys |-> [f \in Files |-> IF f[1] = k THEN MaxDay + f[2] ELSE f[2]]]

Sharing == Permutations({p1, p2})

VARIABLE scene

Works(p, a) == Turn(p) \/ Clear(p) \/ Newline(p) \/ Truncate(a) \/ Write(a)

Alone == \/ \E o \in SessionOps : Start(p3, o)
         \/ Works(p3, p3) \/ Crash(p3) \/ NextDay

\* A process that has not done anything yet.
New(p) == cache[p] = EmptyCache /\ ~open[p]

Begins(p, o) == /\ scene = "deleting" => New(p) /\ o = "turn"
                /\ p = p3 => scene = "deleting"
                /\ Start(p, o)

Shared == /\ \/ \E p \in {p1, p2, p3} : \/ \E o \in {"turn", "compact"} : Begins(p, o)
                                       \/ \E a \in {p, Desktop} : Works(p, a)
             \/ DesktopStep
          /\ ops' <= MaxSharedOps
          /\ \A p \in {p1, p2, p3} : pc[p] = "loop" => pc'[p] # "idle"
          /\ scene = "shared" => op'[Desktop] # "delete" /\ subject' # work2
          /\ scene = "deleting" => /\ op'[Desktop] \notin {"create", "rename"}
                                   /\ \E p \in {p1, p2} : pc'[p] = "idle" /\ New(p)'

Begin == SessionInit /\ scene \in {"alone", "shared", "deleting"}
Continue == /\ \/ scene = "alone" /\ Alone
               \/ scene # "alone" /\ Shared
               \/ Rest
            /\ UNCHANGED scene
MCSpec == Begin /\ [][Continue]_<<session, scene>>
=============================================================================
